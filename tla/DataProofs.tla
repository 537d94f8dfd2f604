----------------------------- MODULE DataProofs -----------------------------
(***************************************************************************)
(* Lemmas about the data of the models: induction over numbers and         *)
(* sequences, functions defined by recursion, and what the folds of the    *)
(* community modules compute.                                              *)
(***************************************************************************)
EXTENDS Integers, RowSelection, FiniteSetTheorems, SequenceTheorems, WellFoundedInduction, TLAPS

(* Every set of naturals has a least member.                                 *)
LEMMA LeastMember == ASSUME NEW S \in SUBSET Nat, S # {} PROVE Min(S) \in S /\ \A n \in S : Min(S) <= n
<1>1. OpToRel(<, Nat) = {r \in Nat \X Nat : r[1] < r[2]}
  BY DEF OpToRel
<1>2. IsWellFoundedOn({r \in Nat \X Nat : r[1] < r[2]}, Nat)
  BY <1>1, NatLessThanWellFounded, Zenon
<1> DEFINE Less == {r \in Nat \X Nat : r[1] < r[2]}
<1>3. \A x, y \in Nat : x < y => <<x, y>> \in Less
  OBVIOUS
<1>4. IsWellFoundedOn(Less, Nat)
  BY <1>2
<1> HIDE DEF Less
<1>5. PICK x \in S : \A y \in S : <<y, x>> \notin Less
  BY <1>4, WFMin
<1>6. ASSUME NEW y \in S PROVE x <= y
  <2>1. x \in Nat /\ y \in Nat /\ ~(y < x)
    BY <1>3, <1>5
  <2> QED
    BY <2>1
<1> QED
  BY <1>6 DEF Min

(* Induction over the naturals, of sets instead of predicates.               *)
LEMMA Induction ==
  ASSUME NEW S, 0 \in S, \A n \in Nat : n \in S => n + 1 \in S
  PROVE  Nat \subseteq S
<1> SUFFICES ASSUME Nat \ S # {} PROVE FALSE
  OBVIOUS
<1> DEFINE T == Nat \ S
           m == Min(T)
<1>1. m \in T /\ \A n \in T : m <= n
  BY LeastMember
<1> HIDE DEF m
<1>2. m \in Nat /\ m # 0 /\ m - 1 \in Nat
  BY <1>1
<1>3. m - 1 \in S
  BY <1>1, <1>2
<1> QED
  BY <1>1, <1>2, <1>3

(* A function can be defined by what it is at zero and by what it is at the
   next number.                                                              *)
Follows(f, m, a, step) == f[0] = a /\ \A n \in 1 .. m : f[n] = step[<<n, f[n - 1]>>]

Unfolds(f, a, step) == f[0] = a /\ \A n \in Nat \ {0} : f[n] = step[<<n, f[n - 1]>>]

LEMMA Recursion ==
  ASSUME NEW X, NEW a \in X, NEW step \in [Nat \X X -> X]
  PROVE  \E f \in [Nat -> X] : Unfolds(f, a, step)
<1> DEFINE T == {m \in Nat : \E f \in [0 .. m -> X] : Follows(f, m, a, step)}
<1>1. 0 \in T
  <2>1. [x \in 0 .. 0 |-> a] \in [0 .. 0 -> X] /\ Follows([x \in 0 .. 0 |-> a], 0, a, step)
    BY DEF Follows
  <2> QED
    BY <2>1
<1>2. ASSUME NEW m \in Nat, m \in T PROVE m + 1 \in T
  <2>1. PICK f \in [0 .. m -> X] : Follows(f, m, a, step)
    BY <1>2
  <2> DEFINE h == [x \in 0 .. m + 1 |-> IF x = m + 1 THEN step[<<m + 1, f[m]>>] ELSE f[x]]
  <2>2. f[m] \in X
    OBVIOUS
  <2>3. step[<<m + 1, f[m]>>] \in X
    BY <2>2
  <2>4. h \in [0 .. m + 1 -> X]
    BY <2>3
  <2>5. \A n \in 1 .. m + 1 : h[n] = step[<<n, h[n - 1]>>]
    <3> TAKE n \in 1 .. m + 1
    <3>1. CASE n = m + 1
      <4>1. h[n] = step[<<m + 1, f[m]>>] /\ h[n - 1] = f[m]
        BY <3>1
      <4> QED
        BY <3>1, <4>1
    <3>2. CASE n # m + 1
      <4>1. n \in 1 .. m /\ h[n] = f[n] /\ h[n - 1] = f[n - 1]
        BY <3>2
      <4> QED
        BY <2>1, <4>1 DEF Follows
    <3> QED
      BY <3>1, <3>2
  <2>6. h[0] = a
    BY <2>1 DEF Follows
  <2>7. Follows(h, m + 1, a, step)
    <3> HIDE DEF h
    <3> QED
      BY <2>5, <2>6 DEF Follows
  <2> QED
    BY <2>4, <2>7
<1>3. \A m \in Nat : \E f \in [0 .. m -> X] : Follows(f, m, a, step)
  <2>1. Nat \subseteq T
    <3> HIDE DEF T
    <3> QED
      BY <1>1, <1>2, Induction
  <2> QED
    BY <2>1
<1> DEFINE U == {x \in Nat : \A m, k \in Nat : \A f, h :
                   x <= m /\ x <= k /\ Follows(f, m, a, step) /\ Follows(h, k, a, step) => f[x] = h[x]}
<1>4. 0 \in U
  BY DEF Follows
<1>5. ASSUME NEW x \in Nat, x \in U PROVE x + 1 \in U
  <2> SUFFICES ASSUME NEW m \in Nat, NEW k \in Nat, NEW f, NEW h, x + 1 <= m, x + 1 <= k,
                      Follows(f, m, a, step), Follows(h, k, a, step)
               PROVE  f[x + 1] = h[x + 1]
    OBVIOUS
  <2>1. f[x] = h[x]
    BY <1>5
  <2>2. x + 1 \in 1 .. m /\ x + 1 \in 1 .. k /\ (x + 1) - 1 = x
    OBVIOUS
  <2>3. f[x + 1] = step[<<x + 1, f[x]>>] /\ h[x + 1] = step[<<x + 1, h[x]>>]
    BY <2>2 DEF Follows
  <2> QED
    BY <2>1, <2>3
<1>6. Nat \subseteq U
  <2> HIDE DEF U
  <2> QED
    BY <1>4, <1>5, Induction
<1> DEFINE Part == [m \in Nat |-> CHOOSE f \in [0 .. m -> X] : Follows(f, m, a, step)]
           F == [m \in Nat |-> Part[m][m]]
<1>7. \A m \in Nat : Part[m] \in [0 .. m -> X] /\ Follows(Part[m], m, a, step)
  BY <1>3
<1>8. F \in [Nat -> X]
  <2> HIDE DEF Part
  <2>1. ASSUME NEW m \in Nat PROVE Part[m][m] \in X
    BY <1>7
  <2> QED
    BY <2>1
<1>9. F[0] = a
  <2> HIDE DEF Part
  <2> QED
    BY <1>7 DEF Follows
<1>10. ASSUME NEW n \in Nat \ {0} PROVE F[n] = step[<<n, F[n - 1]>>]
  <2> HIDE DEF Part
  <2>1. F[n] = Part[n][n] /\ F[n - 1] = Part[n - 1][n - 1]
    OBVIOUS
  <2>2. n \in 1 .. n /\ n - 1 \in Nat /\ n - 1 <= n
    OBVIOUS
  <2>3. Part[n][n] = step[<<n, Part[n][n - 1]>>]
    BY <1>7, <2>2 DEF Follows
  <2>4. Part[n][n - 1] = Part[n - 1][n - 1]
    BY <1>6, <1>7, <2>2
  <2> QED
    BY <2>1, <2>3, <2>4
<1> HIDE DEF F
<1> QED
  BY <1>8, <1>9, <1>10 DEF Unfolds

(* Induction over sequences, by their last element.                          *)
LEMMA SequenceInduction ==
  ASSUME NEW T, NEW S, <<>> \in S, \A s \in Seq(T), x \in T : s \in S => Append(s, x) \in S
  PROVE  Seq(T) \subseteq S
<1> DEFINE V == {n \in Nat : \A s \in Seq(T) : Len(s) = n => s \in S}
<1>1. 0 \in V
  <2>1. \A s \in Seq(T) : Len(s) = 0 => s = <<>>
    BY EmptySeq
  <2> QED
    BY <2>1
<1>2. ASSUME NEW n \in Nat, n \in V PROVE n + 1 \in V
  <2> SUFFICES ASSUME NEW s \in Seq(T), Len(s) = n + 1 PROVE s \in S
    OBVIOUS
  <2> DEFINE front == SubSeq(s, 1, n)
  <2>1. front \in Seq(T) /\ Len(front) = n /\ s[n + 1] \in T
    OBVIOUS
  <2>2. s = Append(front, s[n + 1])
    <3>1. Append(front, s[n + 1]) \in Seq(T) /\ Len(Append(front, s[n + 1])) = n + 1
      BY <2>1
    <3>2. \A i \in 1 .. n + 1 : s[i] = Append(front, s[n + 1])[i]
      OBVIOUS
    <3> HIDE DEF front
    <3> QED
      BY <3>1, <3>2, SeqEqual
  <2>3. front \in S
    BY <1>2, <2>1
  <2> HIDE DEF front
  <2> QED
    BY <2>1, <2>2, <2>3
<1>3. Nat \subseteq V
  <2> HIDE DEF V
  <2> QED
    BY <1>1, <1>2, Induction
<1> QED
  BY <1>3

-----------------------------------------------------------------------------
(* FoldLeft of a sequence of length n: a function on the sets of positions,
   of which the last is taken first.  step says what one element does; it is
   taken with its position.                                                  *)
FoldIs(iter, n, a, step) ==
  iter = [s \in SUBSET (1 .. n) |-> IF s = {} THEN a ELSE step[<<Max(s), iter[s \ {Max(s)}]>>]]

LEMMA GreatestMember ==
  ASSUME NEW n \in Nat, NEW s \in SUBSET (1 .. n), s # {}
  PROVE  Max(s) \in s /\ \A x \in s : x <= Max(s)
<1> DEFINE T == {k \in Nat : \A x \in s : x <= k}
           m == Min(T)
<1>1. m \in T /\ \A k \in T : m <= k
  <2>1. n \in T
    OBVIOUS
  <2> QED
    BY <2>1, LeastMember
<1> HIDE DEF m
<1>2. m \in s
  <2> SUFFICES ASSUME m \notin s PROVE FALSE
    OBVIOUS
  <2>1. \A x \in s : x \in Nat /\ x <= m /\ x # m /\ 1 <= x
    BY <1>1
  <2>2. m \in Nat /\ m # 0
    <3>1. PICK x \in s : TRUE
      OBVIOUS
    <3> QED
      BY <1>1, <2>1, <3>1
  <2>3. m - 1 \in Nat /\ \A x \in s : x <= m - 1
    BY <2>1, <2>2
  <2>4. m - 1 \in T
    BY <2>3
  <2> QED
    BY <1>1, <2>2, <2>4
<1>3. \E x \in s : \A y \in s : x >= y
  BY <1>1, <1>2
<1> QED
  BY <1>3 DEF Max

LEMMA GreatestOf ==
  ASSUME NEW n \in Nat
  PROVE  Max(1 .. n + 1) = n + 1 /\ (1 .. n + 1) \ {Max(1 .. n + 1)} = 1 .. n
<1>1. 1 .. n + 1 \in SUBSET (1 .. n + 1) /\ 1 .. n + 1 # {} /\ n + 1 \in Nat
  OBVIOUS
<1>2. Max(1 .. n + 1) \in 1 .. n + 1 /\ \A x \in 1 .. n + 1 : x <= Max(1 .. n + 1)
  BY <1>1, GreatestMember
<1> QED
  BY <1>2

LEMMA FoldExists ==
  ASSUME NEW n \in Nat, NEW X, NEW a \in X, NEW step \in [(1 .. n) \X X -> X]
  PROVE  \E iter \in [SUBSET (1 .. n) -> X] : FoldIs(iter, n, a, step)
<1> DEFINE Y == [SUBSET (1 .. n) -> X]
           One(h) == [s \in SUBSET (1 .. n) |->
                        IF s = {} THEN a ELSE step[<<Max(s), h[s \ {Max(s)}]>>]]
           none == [s \in SUBSET (1 .. n) |-> a]
           go == [z \in Nat \X Y |-> One(z[2])]
<1>1. ASSUME NEW s \in SUBSET (1 .. n), s # {}
      PROVE  Max(s) \in 1 .. n /\ s \ {Max(s)} \in SUBSET (1 .. n) /\ \A x \in s : x <= Max(s)
  BY <1>1, GreatestMember
<1>2. ASSUME NEW h \in Y PROVE One(h) \in Y
  <2>1. ASSUME NEW s \in SUBSET (1 .. n)
        PROVE  (IF s = {} THEN a ELSE step[<<Max(s), h[s \ {Max(s)}]>>]) \in X
    <3>1. CASE s = {}
      BY <3>1
    <3>2. CASE s # {}
      <4>1. Max(s) \in 1 .. n /\ h[s \ {Max(s)}] \in X
        BY <1>1, <3>2
      <4> QED
        BY <3>2, <4>1
    <3> QED
      BY <3>1, <3>2
  <2> QED
    BY <2>1
<1>3. none \in Y /\ go \in [Nat \X Y -> Y]
  <2>1. none \in Y
    OBVIOUS
  <2>2. ASSUME NEW z \in Nat \X Y PROVE One(z[2]) \in Y
    <3> HIDE DEF One, Y
    <3> QED
      BY <1>2, <2>2
  <2> HIDE DEF One, Y
  <2> QED
    BY <2>1, <2>2
<1>4. PICK f \in [Nat -> Y] : Unfolds(f, none, go)
  <2> HIDE DEF none, Y, go
  <2> QED
    BY <1>3, Recursion, Zenon
<1>5. f[0] = none /\ \A k \in Nat : f[k + 1] = One(f[k])
  <2>1. \A k \in Nat, h \in Y : go[<<k, h>>] = One(h)
    <3> HIDE DEF One, Y
    <3> QED
      OBVIOUS
  <2>2. f[0] = none
    BY <1>4 DEF Unfolds
  <2> HIDE DEF One, Y, go, none
  <2>3. ASSUME NEW k \in Nat PROVE f[k + 1] = One(f[k])
    <3>1. k + 1 \in Nat \ {0} /\ (k + 1) - 1 = k /\ f[k] \in Y
      BY <1>4
    <3>2. f[k + 1] = go[<<k + 1, f[k]>>]
      BY <1>4, <3>1 DEF Unfolds
    <3> QED
      BY <2>1, <3>1, <3>2
  <2> QED
    BY <2>2, <2>3
<1>6. \A h \in Y, s \in SUBSET (1 .. n) :
        One(h)[s] = IF s = {} THEN a ELSE step[<<Max(s), h[s \ {Max(s)}]>>]
  OBVIOUS
<1> DEFINE V == {k \in Nat : \A s \in SUBSET (1 .. n) : (\A x \in s : x <= k) => f[k + 1][s] = f[k][s]}
<1>7. \A k \in Nat : f[k] \in Y
  <2> HIDE DEF Y
  <2> QED
    BY <1>4
<1>8. \A k \in Nat : f[k][{}] = a
  <2> TAKE k \in Nat
  <2>1. CASE k = 0
    BY <1>5, <2>1
  <2>2. CASE k # 0
    <3>1. k - 1 \in Nat /\ (k - 1) + 1 = k
      BY <2>2
    <3>2. f[k] = One(f[k - 1])
      BY <1>5, <3>1
    <3> HIDE DEF One, Y
    <3> QED
      BY <1>6, <1>7, <3>1, <3>2
  <2> QED
    BY <2>1, <2>2
<1> HIDE DEF One, Y
<1>9. 0 \in V
  <2> SUFFICES ASSUME NEW s \in SUBSET (1 .. n), \A x \in s : x <= 0 PROVE f[0 + 1][s] = f[0][s]
    OBVIOUS
  <2>1. s = {}
    OBVIOUS
  <2> QED
    BY <1>8, <2>1
<1>10. ASSUME NEW k \in Nat, k \in V PROVE k + 1 \in V
  <2>1. ASSUME NEW s \in SUBSET (1 .. n), \A x \in s : x <= k + 1
        PROVE  f[(k + 1) + 1][s] = f[k + 1][s]
    <3>1. CASE s = {}
      BY <1>8, <3>1
    <3>2. CASE s # {}
      <4> DEFINE m == Max(s)
                 r == s \ {m}
      <4>1. m \in s /\ m \in 1 .. n /\ r \in SUBSET (1 .. n) /\ \A x \in s : x <= m
        BY <1>1, <3>2, GreatestMember
      <4>2. k + 1 \in Nat /\ f[k + 1] = One(f[k]) /\ f[(k + 1) + 1] = One(f[k + 1])
        BY <1>5
      <4>3. f[(k + 1) + 1][s] = step[<<m, f[k + 1][r]>>] /\ f[k + 1][s] = step[<<m, f[k][r]>>]
        BY <1>6, <1>7, <3>2, <4>2
      <4>4. \A x \in r : x <= k
        <5> HIDE DEF m
        <5>1. \A x \in r : x \in Nat /\ m \in Nat /\ x <= m /\ x # m /\ m <= k + 1
          BY <2>1, <4>1
        <5> QED
          BY <5>1
      <4>5. f[k + 1][r] = f[k][r]
        <5> HIDE DEF r
        <5> QED
          BY <1>10, <4>1, <4>4
      <4> QED
        BY <4>3, <4>5
    <3> QED
      BY <3>1, <3>2
  <2>2. k + 1 \in Nat
    OBVIOUS
  <2>3. \A s \in SUBSET (1 .. n) : (\A x \in s : x <= k + 1) => f[(k + 1) + 1][s] = f[k + 1][s]
    BY <2>1, Zenon
  <2> QED
    BY <2>2, <2>3, Zenon
<1>11. Nat \subseteq V
  <2> HIDE DEF V
  <2> QED
    BY <1>9, <1>10, Induction
<1>12. \A s \in SUBSET (1 .. n) : f[n + 1][s] = f[n][s]
  BY <1>11
<1>13. f[n] \in Y /\ f[n + 1] \in Y /\ f[n + 1] = One(f[n])
  BY <1>5, <1>7
<1>14. f[n] = One(f[n])
  <2> HIDE DEF V
  <2> QED
    BY <1>12, <1>13 DEF Y
<1> QED
  BY <1>13, <1>14 DEF FoldIs, Y, One

-----------------------------------------------------------------------------
(***************************************************************************)
(* Among: the rows of a set, in their order.                               *)
(***************************************************************************)
AmongIter(iter, n, rows, S) ==
  iter = [s \in SUBSET (1 .. n) |->
            IF s = {} THEN <<>>
            ELSE IF rows[Max(s)] \in S THEN Append(iter[s \ {Max(s)}], rows[Max(s)])
            ELSE iter[s \ {Max(s)}]]
AmongRun(f, n, rows, S) ==
  /\ f[0] = <<>>
  /\ \A k \in 1 .. n : f[k] = IF rows[k] \in S THEN Append(f[k - 1], rows[k]) ELSE f[k - 1]

LEMMA AmongRuns ==
  ASSUME NEW T, NEW rows \in Seq(T), NEW S
  PROVE  \E f \in [0 .. Len(rows) -> Seq(T)] : AmongRun(f, Len(rows), rows, S) /\ Among(rows, S) = f[Len(rows)]
<1> DEFINE n == Len(rows)
           X == Seq(T)
           Take(taken, k) == IF rows[k] \in S THEN Append(taken, rows[k]) ELSE taken
           step == [z \in (1 .. n) \X X |-> Take(z[2], z[1])]
           c == CHOOSE iter : AmongIter(iter, n, rows, S)
<1>1. n \in Nat /\ DOMAIN rows = 1 .. n /\ \A k \in 1 .. n : rows[k] \in T
  OBVIOUS
<1>2. Among(rows, S) = c[1 .. n]
  <2>1. Among(rows, S) = (CHOOSE iter : AmongIter(iter, n, rows, S))[DOMAIN rows]
    BY <1>1 DEF Among, FoldLeft, MapThenFoldSet, AmongIter
  <2> QED
    BY <1>1, <2>1
<1>3. <<>> \in X
  OBVIOUS
<1>4. \A k \in 1 .. n, taken \in X : Take(taken, k) \in X
  OBVIOUS
<1>5. step \in [(1 .. n) \X X -> X] /\ \A k \in 1 .. n, taken \in X : step[<<k, taken>>] = Take(taken, k)
  <2> HIDE DEF Take, n, X
  <2> QED
    BY <1>4
<1>6. PICK iter \in [SUBSET (1 .. n) -> X] : FoldIs(iter, n, <<>>, step)
  <2> HIDE DEF step, n, X
  <2> QED
    BY <1>1, <1>3, <1>5, FoldExists
<1>7. AmongIter(iter, n, rows, S)
  <2>1. ASSUME NEW s \in SUBSET (1 .. n), s # {}
        PROVE  step[<<Max(s), iter[s \ {Max(s)}]>>] = Take(iter[s \ {Max(s)}], Max(s))
    <3>1. Max(s) \in 1 .. n /\ iter[s \ {Max(s)}] \in X
      <4> HIDE DEF n, X
      <4> QED
        BY <1>1, <1>6, <2>1, GreatestMember
    <3> HIDE DEF step, n, X, Take
    <3> QED
      BY <1>5, <3>1
  <2>2. iter = [s \in SUBSET (1 .. n) |-> IF s = {} THEN <<>> ELSE step[<<Max(s), iter[s \ {Max(s)}]>>]]
    <3> HIDE DEF step, n, X, Take
    <3> QED
      BY <1>6 DEF FoldIs
  <2>3. iter = [s \in SUBSET (1 .. n) |-> IF s = {} THEN <<>> ELSE Take(iter[s \ {Max(s)}], Max(s))]
    <3> HIDE DEF step, n, X, Take
    <3> QED
      BY <2>1, <2>2
  <2> QED
    BY <2>3 DEF AmongIter
<1>8. AmongIter(c, n, rows, S)
  <2> HIDE DEF n
  <2> QED
    BY <1>7
<1> DEFINE f == [k \in 0 .. n |-> c[1 .. k]]
<1> HIDE DEF c
<1>9. c[1 .. 0] = <<>>
  <2>1. 1 .. 0 = {} /\ {} \in SUBSET (1 .. n)
    OBVIOUS
  <2> QED
    BY <1>8, <2>1 DEF AmongIter
<1>10. ASSUME NEW k \in 1 .. n PROVE c[1 .. k] = Take(c[1 .. k - 1], k)
  <2>1. k - 1 \in Nat /\ (k - 1) + 1 = k
    OBVIOUS
  <2>2. Max(1 .. k) = k /\ (1 .. k) \ {Max(1 .. k)} = 1 .. k - 1
    BY <2>1, GreatestOf
  <2>3. 1 .. k \in SUBSET (1 .. n) /\ 1 .. k # {}
    OBVIOUS
  <2> QED
    BY <1>8, <2>2, <2>3 DEF AmongIter
<1>11. AmongRun(f, n, rows, S) /\ Among(rows, S) = f[n]
  BY <1>1, <1>2, <1>9, <1>10 DEF AmongRun
<1> DEFINE V == {k \in Nat : k <= n => f[k] \in X}
<1>12. 0 \in V
  <2>1. f[0] = <<>>
    BY <1>1, <1>9
  <2> HIDE DEF f
  <2> QED
    BY <1>3, <2>1
<1>13. ASSUME NEW k \in Nat, k \in V PROVE k + 1 \in V
  <2> SUFFICES ASSUME k + 1 <= n PROVE f[k + 1] \in X
    OBVIOUS
  <2>1. k + 1 \in 1 .. n /\ (k + 1) - 1 = k /\ f[k] \in X
    BY <1>13
  <2>2. f[k + 1] = Take(f[k], k + 1)
    BY <1>10, <2>1
  <2> HIDE DEF f, Take, n, X
  <2> QED
    BY <1>4, <2>1, <2>2
<1>14. Nat \subseteq V
  <2> HIDE DEF V
  <2> QED
    BY <1>12, <1>13, Induction
<1>15. f \in [0 .. n -> X]
  <2>1. \A k \in 0 .. n : f[k] \in X
    <3> HIDE DEF f, X
    <3>1. \A k \in 0 .. n : k \in Nat /\ k <= n
      BY <1>1
    <3> QED
      BY <1>14, <3>1
  <2> QED
    BY <2>1
<1> QED
  BY <1>11, <1>15

LEMMA AmongGrows ==
  /\ \A S : Among(<<>>, S) = <<>>
  /\ \A T : \A rows \in Seq(T) : \A S :
       /\ Among(rows, S) \in Seq(T)
       /\ \A x \in T : Among(Append(rows, x), S) = IF x \in S THEN Append(Among(rows, S), x) ELSE Among(rows, S)
<1>1. ASSUME NEW S PROVE Among(<<>>, S) = <<>>
  <2>1. <<>> \in Seq({}) /\ Len(<<>>) = 0
    OBVIOUS
  <2>2. PICK f \in [0 .. Len(<<>>) -> Seq({})] : AmongRun(f, Len(<<>>), <<>>, S) /\ Among(<<>>, S) = f[Len(<<>>)]
    BY <2>1, AmongRuns, Zenon
  <2> QED
    BY <2>1, <2>2 DEF AmongRun
<1>2. ASSUME NEW T, NEW rows \in Seq(T), NEW S
      PROVE  /\ Among(rows, S) \in Seq(T)
             /\ \A x \in T : Among(Append(rows, x), S)
                               = IF x \in S THEN Append(Among(rows, S), x) ELSE Among(rows, S)
  <2> DEFINE n == Len(rows)
  <2>1. PICK f \in [0 .. n -> Seq(T)] : AmongRun(f, n, rows, S) /\ Among(rows, S) = f[n]
    BY AmongRuns
  <2>2. n \in Nat
    OBVIOUS
  <2>3. ASSUME NEW x \in T
        PROVE  Among(Append(rows, x), S) = IF x \in S THEN Append(f[n], x) ELSE f[n]
    <3> DEFINE longer == Append(rows, x)
    <3>1. longer \in Seq(T) /\ Len(longer) = n + 1 /\ longer[n + 1] = x /\ \A k \in 1 .. n : longer[k] = rows[k]
      OBVIOUS
    <3> HIDE DEF longer
    <3>2. PICK h \in [0 .. n + 1 -> Seq(T)] : AmongRun(h, n + 1, longer, S) /\ Among(longer, S) = h[n + 1]
      <4>1. \E h \in [0 .. Len(longer) -> Seq(T)] : /\ AmongRun(h, Len(longer), longer, S)
                                                     /\ Among(longer, S) = h[Len(longer)]
        BY <3>1, AmongRuns, Zenon
      <4> QED
        BY <3>1, <4>1
    <3> HIDE DEF n
    <3> DEFINE V == {k \in Nat : k <= n => h[k] = f[k]}
    <3>3. 0 \in V
      BY <2>1, <3>2 DEF AmongRun
    <3>4. ASSUME NEW k \in Nat, k \in V PROVE k + 1 \in V
      <4> SUFFICES ASSUME k + 1 <= n PROVE h[k + 1] = f[k + 1]
        OBVIOUS
      <4>1. k + 1 \in 1 .. n /\ k + 1 \in 1 .. n + 1 /\ (k + 1) - 1 = k /\ h[k] = f[k]
        BY <2>2, <3>4
      <4> QED
        BY <2>1, <3>1, <3>2, <4>1 DEF AmongRun
    <3>5. Nat \subseteq V
      <4> HIDE DEF V
      <4> QED
        BY <3>3, <3>4, Induction
    <3>6. h[n] = f[n] /\ n + 1 \in 1 .. n + 1 /\ (n + 1) - 1 = n
      BY <2>2, <3>5
    <3>7. h[n + 1] = IF x \in S THEN Append(h[n], x) ELSE h[n]
      BY <3>1, <3>2, <3>6 DEF AmongRun
    <3> QED
      BY <3>2, <3>6, <3>7 DEF longer
  <2> QED
    BY <2>1, <2>2, <2>3
<1> QED
  BY <1>1, <1>2

-----------------------------------------------------------------------------
LEMMA AppendLast ==
  \A T : \A s, t \in Seq(T), x \in T :
    s \o Append(t, x) = Append(s \o t, x) /\ s \o t \in Seq(T) /\ Append(t, x) \in Seq(T)
OBVIOUS

LEMMA AmongBoth ==
  \A T : \A s, t \in Seq(T) : \A S : Among(s \o t, S) = Among(s, S) \o Among(t, S)
<1> SUFFICES ASSUME NEW T, NEW s \in Seq(T), NEW t \in Seq(T), NEW S
             PROVE  Among(s \o t, S) = Among(s, S) \o Among(t, S)
  OBVIOUS
<1> DEFINE V == {u \in Seq(T) : Among(s \o u, S) = Among(s, S) \o Among(u, S)}
<1>1. \A u \in Seq(T) : Among(u, S) \in Seq(T)
  BY AmongGrows
<1>2. <<>> \in V
  <2>1. s \o <<>> = s /\ Among(<<>>, S) = <<>> /\ <<>> \in Seq(T)
    BY AmongGrows
  <2>2. Among(s, S) \o <<>> = Among(s, S)
    BY <1>1
  <2> QED
    BY <2>1, <2>2
<1>3. ASSUME NEW u \in Seq(T), NEW x \in T, u \in V PROVE Append(u, x) \in V
  <2>1. s \o Append(u, x) = Append(s \o u, x) /\ s \o u \in Seq(T) /\ Append(u, x) \in Seq(T)
    BY AppendLast
  <2>2. Among(Append(s \o u, x), S) = IF x \in S THEN Append(Among(s \o u, S), x) ELSE Among(s \o u, S)
    <3> DEFINE w == s \o u
    <3>1. w \in Seq(T)
      BY <2>1
    <3> HIDE DEF w
    <3>2. Among(Append(w, x), S) = IF x \in S THEN Append(Among(w, S), x) ELSE Among(w, S)
      BY <3>1, AmongGrows
    <3> QED
      BY <3>2 DEF w
  <2>3. Among(Append(u, x), S) = IF x \in S THEN Append(Among(u, S), x) ELSE Among(u, S)
    BY AmongGrows
  <2>4. Among(s \o u, S) = Among(s, S) \o Among(u, S)
    BY <1>3
  <2>5. Append(Among(s, S) \o Among(u, S), x) = Among(s, S) \o Append(Among(u, S), x)
    <3> DEFINE a == Among(s, S)
               b == Among(u, S)
    <3>1. a \in Seq(T) /\ b \in Seq(T)
      BY <1>1
    <3> HIDE DEF a, b
    <3>2. a \o Append(b, x) = Append(a \o b, x)
      BY <3>1, AppendLast
    <3> QED
      BY <3>2 DEF a, b
  <2> QED
    BY <2>1, <2>2, <2>3, <2>4, <2>5
<1>4. Seq(T) \subseteq V
  <2> HIDE DEF V
  <2> QED
    BY <1>2, <1>3, SequenceInduction
<1> QED
  BY <1>4

(* Two selections one after the other are one.                               *)
LEMMA AmongAmong ==
  ASSUME NEW T, NEW s \in Seq(T), NEW A, NEW B
  PROVE  Among(Among(s, A), B) = Among(s, A \cap B)
<1> DEFINE V == {u \in Seq(T) : Among(Among(u, A), B) = Among(u, A \cap B)}
<1>1. \A u \in Seq(T) : Among(u, A) \in Seq(T)
  BY AmongGrows
<1>2. <<>> \in V
  <2>1. \A S : Among(<<>>, S) = <<>>
    BY AmongGrows
  <2> QED
    BY <2>1
<1>3. ASSUME NEW u \in Seq(T), NEW x \in T, u \in V PROVE Append(u, x) \in V
  <2>1. Among(Append(u, x), A) = IF x \in A THEN Append(Among(u, A), x) ELSE Among(u, A)
    BY AmongGrows
  <2>2. Among(Append(u, x), A \cap B)
          = IF x \in A \cap B THEN Append(Among(u, A \cap B), x) ELSE Among(u, A \cap B)
    BY AmongGrows
  <2>3. Among(Append(Among(u, A), x), B)
          = IF x \in B THEN Append(Among(Among(u, A), B), x) ELSE Among(Among(u, A), B)
    BY <1>1, AmongGrows
  <2>4. Among(Among(u, A), B) = Among(u, A \cap B) /\ Append(u, x) \in Seq(T)
    BY <1>3
  <2>5. Among(Among(Append(u, x), A), B) = Among(Append(u, x), A \cap B)
    <3>1. CASE x \in A /\ x \in B
      BY <2>1, <2>2, <2>3, <2>4, <3>1
    <3>2. CASE x \in A /\ x \notin B
      BY <2>1, <2>2, <2>3, <2>4, <3>2
    <3>3. CASE x \notin A
      BY <2>1, <2>2, <2>4, <3>3
    <3> QED
      BY <3>1, <3>2, <3>3
  <2> QED
    BY <2>4, <2>5
<1>4. Seq(T) \subseteq V
  <2> HIDE DEF V
  <2> QED
    BY <1>2, <1>3, SequenceInduction
<1> QED
  BY <1>4

LEMMA AmongNone ==
  ASSUME NEW T, NEW s \in Seq(T)
  PROVE  Among(s, {}) = <<>>
<1> DEFINE V == {u \in Seq(T) : Among(u, {}) = <<>>}
<1>1. <<>> \in V
  BY AmongGrows
<1>2. ASSUME NEW u \in Seq(T), NEW x \in T, u \in V PROVE Append(u, x) \in V
  <2>1. Among(Append(u, x), {}) = Among(u, {}) /\ Append(u, x) \in Seq(T)
    BY AmongGrows
  <2> QED
    BY <1>2, <2>1
<1>3. Seq(T) \subseteq V
  <2> HIDE DEF V
  <2> QED
    BY <1>1, <1>2, SequenceInduction
<1> QED
  BY <1>3

(* One that is taken out is missing.                                         *)
LEMMA AmongWithout ==
  ASSUME NEW T, NEW s \in Seq(T), NEW i \in 1 .. Len(s), NEW S, s[i] \in S
  PROVE  Len(Among(RemoveAt(s, i), S)) = Len(Among(s, S)) - 1 /\ RemoveAt(s, i) \in Seq(T)
<1> DEFINE A == SubSeq(s, 1, i - 1)
           B == SubSeq(s, i + 1, Len(s))
<1>1. A \in Seq(T) /\ B \in Seq(T) /\ s[i] \in T /\ Append(A, s[i]) \in Seq(T) /\ RemoveAt(s, i) = A \o B
  BY DEF RemoveAt
<1>2. s = Append(A, s[i]) \o B
  <2> DEFINE u == Append(A, s[i]) \o B
  <2>1. u \in Seq(T) /\ Len(u) = Len(s) /\ \A k \in 1 .. Len(s) : u[k] = s[k]
    <3>1. Len(A) = i - 1 /\ Len(B) = Len(s) - i /\ \A k \in 1 .. i - 1 : A[k] = s[k]
      OBVIOUS
    <3>2. \A k \in 1 .. Len(s) - i : B[k] = s[i + k]
      OBVIOUS
    <3> HIDE DEF A, B
    <3> DEFINE C == Append(A, s[i])
    <3>3. /\ C \in Seq(T) /\ Len(C) = i /\ Len(s) \in Nat
          /\ \A k \in 1 .. i - 1 : C[k] = s[k]
          /\ C[i] = s[i]
      BY <1>1, <3>1
    <3> HIDE DEF C
    <3>8. /\ C \o B \in Seq(T) /\ Len(C \o B) = Len(C) + Len(B)
          /\ \A k \in 1 .. Len(C) + Len(B) : (C \o B)[k] = IF k <= Len(C) THEN C[k] ELSE B[k - Len(C)]
      BY <1>1, <3>3, ConcatProperties, Zenon
    <3>9. Len(C) + Len(B) = Len(s)
      BY <3>1, <3>3
    <3>5. C \o B \in Seq(T) /\ Len(C \o B) = Len(s)
      BY <3>8, <3>9
    <3>10. \A k \in 1 .. Len(s) : (C \o B)[k] = IF k <= i THEN C[k] ELSE B[k - i]
      BY <3>3, <3>8, <3>9
    <3>6. \A k \in 1 .. i : (C \o B)[k] = C[k]
      BY <3>3, <3>10
    <3>7. \A k \in i + 1 .. Len(s) : (C \o B)[k] = B[k - i]
      <4>1. \A k \in i + 1 .. Len(s) : k \in 1 .. Len(s) /\ ~(k <= i)
        BY <3>3
      <4> QED
        BY <3>10, <4>1
    <3>4. ASSUME NEW k \in 1 .. Len(s) PROVE u[k] = s[k]
      <4>1. CASE k < i
        <5>1. k \in 1 .. i - 1 /\ k \in 1 .. i
          BY <4>1
        <5> QED
          BY <3>3, <3>6, <5>1 DEF C
      <4>2. CASE k = i
        <5>1. i \in 1 .. i
          OBVIOUS
        <5> QED
          BY <3>3, <3>6, <4>2, <5>1 DEF C
      <4>3. CASE k > i
        <5>1. u[k] = B[k - i] /\ k - i \in 1 .. Len(s) - i
          <6>1. k \in i + 1 .. Len(s) /\ k - i \in 1 .. Len(s) - i
            BY <3>3, <4>3
          <6> QED
            BY <3>7, <6>1 DEF C
        <5>2. i + (k - i) = k
          OBVIOUS
        <5>3. B[k - i] = s[i + (k - i)]
          BY <3>2, <5>1, Zenon
        <5>4. s[i + (k - i)] = s[k]
          BY <5>2, Zenon
        <5>5. B[k - i] = s[k]
          BY <5>3, <5>4, Zenon
        <5> HIDE DEF C
        <5>6. u[k] = B[k - i]
          BY <5>1
        <5> HIDE DEF u
        <5> QED
          BY <5>5, <5>6, Zenon
      <4>4. k < i \/ k = i \/ k > i
        OBVIOUS
      <4> HIDE DEF u
      <4> QED
        BY <4>1, <4>2, <4>3, <4>4, Zenon
    <3> QED
      BY <3>4, <3>5 DEF C
  <2> HIDE DEF u
  <2>2. u = s
    BY <2>1, SeqEqual
  <2> QED
    BY <2>2 DEF u
<1> HIDE DEF A, B
<1>3. Among(s, S) = Append(Among(A, S), s[i]) \o Among(B, S)
  <2>1. Among(Append(A, s[i]) \o B, S) = Among(Append(A, s[i]), S) \o Among(B, S)
    <3> DEFINE C == Append(A, s[i])
    <3>1. C \in Seq(T) /\ B \in Seq(T)
      BY <1>1
    <3> HIDE DEF C
    <3>2. Among(C \o B, S) = Among(C, S) \o Among(B, S)
      BY <3>1, AmongBoth
    <3> QED
      BY <3>2 DEF C
  <2>2. Among(Append(A, s[i]), S) = Append(Among(A, S), s[i])
    BY <1>1, AmongGrows
  <2> QED
    BY <1>2, <2>1, <2>2
<1>4. Among(RemoveAt(s, i), S) = Among(A, S) \o Among(B, S)
  BY <1>1, AmongBoth
<1>5. Among(A, S) \in Seq(T) /\ Among(B, S) \in Seq(T)
  BY <1>1, AmongGrows
<1> QED
  BY <1>1, <1>3, <1>4, <1>5

LEMMA AmongMembers ==
  \A T : \A s \in Seq(T) : \A S : ToSet(Among(s, S)) = ToSet(s) \cap S
<1> SUFFICES ASSUME NEW T, NEW S, NEW s \in Seq(T) PROVE ToSet(Among(s, S)) = ToSet(s) \cap S
  OBVIOUS
<1> DEFINE V == {u \in Seq(T) : ToSet(Among(u, S)) = ToSet(u) \cap S}
<1>1. \A u \in Seq(T), x \in T : ToSet(Append(u, x)) = ToSet(u) \cup {x} /\ Append(u, x) \in Seq(T)
  <2> TAKE u \in Seq(T), x \in T
  <2> DEFINE w == Append(u, x)
  <2>1. w \in Seq(T) /\ DOMAIN w = 1 .. Len(u) + 1 /\ w[Len(u) + 1] = x /\ \A k \in 1 .. Len(u) : w[k] = u[k]
    OBVIOUS
  <2>2. DOMAIN u = 1 .. Len(u) /\ Len(u) \in Nat
    OBVIOUS
  <2> HIDE DEF w
  <2>3. \A k \in 1 .. Len(u) + 1 : k \in 1 .. Len(u) \/ k = Len(u) + 1
    BY <2>2
  <2>4. \A k \in 1 .. Len(u) : k \in 1 .. Len(u) + 1
    BY <2>2
  <2>5. Len(u) + 1 \in 1 .. Len(u) + 1
    BY <2>2
  <2>6. {w[k] : k \in DOMAIN w} = {u[k] : k \in DOMAIN u} \cup {x}
    BY <2>1, <2>2, <2>3, <2>4, <2>5
  <2> QED
    BY <2>1, <2>6 DEF ToSet, w
<1>2. <<>> \in V
  <2>1. Among(<<>>, S) = <<>> /\ <<>> \in Seq(T) /\ ToSet(<<>>) = {}
    BY AmongGrows DEF ToSet
  <2> QED
    BY <2>1
<1>3. ASSUME NEW u \in Seq(T), NEW x \in T, u \in V PROVE Append(u, x) \in V
  <2>1. /\ Among(u, S) \in Seq(T)
        /\ Among(Append(u, x), S) = IF x \in S THEN Append(Among(u, S), x) ELSE Among(u, S)
    BY AmongGrows
  <2>2. ToSet(Append(Among(u, S), x)) = ToSet(Among(u, S)) \cup {x}
    <3> DEFINE a == Among(u, S)
    <3>1. a \in Seq(T)
      BY <2>1
    <3> HIDE DEF a
    <3>2. ToSet(Append(a, x)) = ToSet(a) \cup {x}
      BY <1>1, <3>1
    <3> QED
      BY <3>2 DEF a
  <2>3. ToSet(Append(u, x)) = ToSet(u) \cup {x} /\ Append(u, x) \in Seq(T)
    BY <1>1
  <2>4. ToSet(Among(u, S)) = ToSet(u) \cap S
    BY <1>3
  <2>5. CASE x \in S
    BY <2>1, <2>2, <2>3, <2>4, <2>5
  <2>6. CASE x \notin S
    BY <2>1, <2>3, <2>4, <2>6
  <2> QED
    BY <2>5, <2>6
<1>4. Seq(T) \subseteq V
  <2> HIDE DEF V
  <2> QED
    BY <1>2, <1>3, SequenceInduction
<1> QED
  BY <1>4

(* What Ordered lists: every member once, in the order.                      *)
LEMMA OrderedIs ==
  ASSUME NEW S, IsFiniteSet(S), NEW R,
         \A a \in S : <<a, a>> \notin R,
         \A a, b, c \in S : <<a, b>> \in R /\ <<b, c>> \in R => <<a, c>> \in R,
         \A a, b \in S : a # b => <<a, b>> \in R \/ <<b, a>> \in R
  PROVE  /\ Ordered(S, R) \in Seq(S) /\ Len(Ordered(S, R)) = Cardinality(S) /\ Cardinality(S) \in Nat
         /\ ToSet(Ordered(S, R)) = S
         /\ \A m, n \in 1 .. Cardinality(S) : m < n => <<Ordered(S, R)[m], Ordered(S, R)[n]>> \in R
<1> DEFINE N == Cardinality(S)
           Below(r) == {s \in S : <<s, r>> \in R}
           rank == [r \in S |-> Cardinality(Below(r))]
           f == [n \in 1 .. N |-> CHOOSE r \in S : Cardinality(Below(r)) = n - 1]
<1>1. N \in Nat
  BY FS_CardinalityType
<1>2. \A r \in S : IsFiniteSet(Below(r)) /\ Cardinality(Below(r)) \in 0 .. N - 1
  <2> TAKE r \in S
  <2>1. Below(r) \subseteq S \ {r}
    OBVIOUS
  <2>2. IsFiniteSet(S \ {r}) /\ Cardinality(S \ {r}) = N - 1
    BY FS_RemoveElement
  <2> HIDE DEF Below, N
  <2>3. IsFiniteSet(Below(r)) /\ Cardinality(Below(r)) <= N - 1
    BY <2>1, <2>2, FS_Subset
  <2>4. Cardinality(Below(r)) \in Nat
    BY <2>3, FS_CardinalityType
  <2> QED
    BY <1>1, <2>3, <2>4
<1>3. \A a, b \in S : <<a, b>> \in R => Cardinality(Below(a)) < Cardinality(Below(b))
  <2> SUFFICES ASSUME NEW a \in S, NEW b \in S, <<a, b>> \in R PROVE Cardinality(Below(a)) < Cardinality(Below(b))
    OBVIOUS
  <2>1. Below(a) \subseteq Below(b) /\ a \in Below(b) /\ a \notin Below(a)
    OBVIOUS
  <2> HIDE DEF Below, N
  <2>2. IsFiniteSet(Below(b)) /\ Cardinality(Below(a)) \in Nat /\ Cardinality(Below(b)) \in Nat
    BY <1>2
  <2>3. Cardinality(Below(a)) <= Cardinality(Below(b)) /\ Cardinality(Below(a)) # Cardinality(Below(b))
    BY <2>1, <2>2, FS_Subset
  <2> QED
    BY <2>2, <2>3
<1> HIDE DEF Below
<1>4. rank \in Injection(S, 0 .. N - 1)
  <2>1. rank \in [S -> 0 .. N - 1]
    BY <1>2
  <2>2. ASSUME NEW a \in S, NEW b \in S, a # b PROVE rank[a] # rank[b]
    <3>1. <<a, b>> \in R \/ <<b, a>> \in R
      BY <2>2
    <3>2. Cardinality(Below(a)) # Cardinality(Below(b))
      BY <1>1, <1>2, <1>3, <3>1
    <3> QED
      BY <3>2
  <2> HIDE DEF rank
  <2> QED
    BY <2>1, <2>2 DEF Injection, IsInjective
<1>5. rank \in Surjection(S, 0 .. N - 1)
  <2>1. IsFiniteSet(0 .. N - 1) /\ Cardinality(0 .. N - 1) = N
    <3> HIDE DEF N
    <3>1. 0 \in Int /\ N - 1 \in Int
      BY <1>1
    <3>2. IsFiniteSet(0 .. N - 1) /\ Cardinality(0 .. N - 1) = IF 0 > N - 1 THEN 0 ELSE (N - 1) - 0 + 1
      BY <3>1, FS_Interval
    <3> QED
      BY <1>1, <3>2
  <2> HIDE DEF rank
  <2> QED
    BY <1>4, <2>1, FS_Injection
<1>6. \A n \in 1 .. N : \E r \in S : Cardinality(Below(r)) = n - 1
  <2> TAKE n \in 1 .. N
  <2>1. n - 1 \in 0 .. N - 1
    BY <1>1
  <2>2. \E r \in S : rank[r] = n - 1
    <3> HIDE DEF rank
    <3> QED
      BY <1>5, <2>1 DEF Surjection
  <2> QED
    BY <2>2
<1>7. \A n \in 1 .. N : f[n] \in S /\ Cardinality(Below(f[n])) = n - 1
  BY <1>6
<1>8. f = Ordered(S, R)
  BY DEF Ordered, Below
<1>9. f \in Seq(S) /\ Len(f) = N
  <2> HIDE DEF N
  <2> QED
    BY <1>1, <1>7
<1> HIDE DEF f
<1>10. \A r \in S : \E n \in 1 .. N : f[n] = r
  <2> TAKE r \in S
  <2> DEFINE n == Cardinality(Below(r)) + 1
  <2>1. n \in 1 .. N /\ n - 1 = Cardinality(Below(r))
    BY <1>1, <1>2
  <2>2. f[n] \in S /\ Cardinality(Below(f[n])) = Cardinality(Below(r))
    BY <1>7, <2>1
  <2> HIDE DEF n
  <2>3. rank[f[n]] = rank[r]
    BY <2>2
  <2>4. f[n] = r
    <3> HIDE DEF rank, N
    <3> QED
      BY <1>4, <2>2, <2>3 DEF Injection, IsInjective
  <2> QED
    BY <2>1, <2>4
<1>11. ToSet(f) = S
  BY <1>7, <1>9, <1>10 DEF ToSet
<1>12. ASSUME NEW m \in 1 .. N, NEW n \in 1 .. N, m < n PROVE <<f[m], f[n]>> \in R
  <2>1. f[m] \in S /\ f[n] \in S /\ Cardinality(Below(f[m])) = m - 1 /\ Cardinality(Below(f[n])) = n - 1
    BY <1>7
  <2>2. Cardinality(Below(f[m])) < Cardinality(Below(f[n]))
    BY <1>1, <1>12, <2>1
  <2>3. f[m] # f[n] /\ <<f[n], f[m]>> \notin R
    BY <1>1, <1>2, <1>3, <2>1, <2>2
  <2> QED
    BY <2>1, <2>3
<1> QED
  BY <1>1, <1>8, <1>9, <1>11, <1>12

(* A finite set of integers has a greatest member.                           *)
LEMMA FiniteMax ==
  ASSUME NEW S \in SUBSET Int, IsFiniteSet(S), S # {}
  PROVE  Max(S) \in S /\ \A x \in S : x <= Max(S)
<1> DEFINE R == {p \in S \X S : p[1] > p[2]}
           f == Ordered(S, R)
<1>1. \A a, b \in S : <<a, b>> \in R <=> a > b
  OBVIOUS
<1> HIDE DEF R
<1>2. /\ f \in Seq(S) /\ Len(f) = Cardinality(S) /\ Cardinality(S) \in Nat /\ ToSet(f) = S
      /\ \A m, n \in 1 .. Cardinality(S) : m < n => <<f[m], f[n]>> \in R
  <2>1. /\ \A a \in S : <<a, a>> \notin R
        /\ \A a, b, c \in S : <<a, b>> \in R /\ <<b, c>> \in R => <<a, c>> \in R
        /\ \A a, b \in S : a # b => <<a, b>> \in R \/ <<b, a>> \in R
    BY <1>1
  <2> QED
    BY <2>1, OrderedIs
<1> HIDE DEF f
<1>3. \A x \in S : \E n \in 1 .. Cardinality(S) : f[n] = x
  BY <1>2 DEF ToSet
<1>4. 1 \in 1 .. Cardinality(S) /\ f[1] \in S
  <2>1. PICK n \in 1 .. Cardinality(S) : f[n] \in S
    BY <1>3
  <2>2. 1 \in 1 .. Cardinality(S)
    BY <1>2, <2>1
  <2> QED
    BY <1>2, <2>2
<1>5. ASSUME NEW x \in S PROVE x <= f[1]
  <2>1. PICK n \in 1 .. Cardinality(S) : f[n] = x
    BY <1>3
  <2>2. CASE n = 1
    BY <1>4, <2>1, <2>2
  <2>3. CASE n # 1 /\ n > 1
    <3>1. <<f[1], f[n]>> \in R
      BY <1>2, <1>4, <2>3
    <3>2. f[1] > x
      BY <1>1, <1>4, <2>1, <3>1
    <3>3. f[1] \in Int /\ x \in Int
      BY <1>4
    <3> QED
      BY <3>2, <3>3
  <2> QED
    BY <1>2, <2>1, <2>2, <2>3
<1>6. \E x \in S : \A y \in S : x >= y
  BY <1>4, <1>5
<1> QED
  BY <1>6 DEF Max

(* What is selected from rows without repetition has none.                   *)
LEMMA AmongOnce ==
  ASSUME NEW T, NEW S, NEW rows \in Seq(T), \A m, n \in 1 .. Len(rows) : rows[m] = rows[n] => m = n
  PROVE  \A m, n \in 1 .. Len(Among(rows, S)) : Among(rows, S)[m] = Among(rows, S)[n] => m = n
<1> DEFINE Once(u) == \A m, n \in 1 .. Len(u) : u[m] = u[n] => m = n
           V == {u \in Seq(T) : Once(u) => Once(Among(u, S))}
<1>1. <<>> \in V
  BY AmongGrows
<1>2. ASSUME NEW u \in Seq(T), NEW x \in T, u \in V PROVE Append(u, x) \in V
  <2> SUFFICES ASSUME Once(Append(u, x)) PROVE Once(Among(Append(u, x), S))
    <3> HIDE DEF Once
    <3>1. Append(u, x) \in Seq(T)
      OBVIOUS
    <3> QED
      BY <3>1
  <2>1. \A n \in 1 .. Len(u) : Append(u, x)[n] = u[n] /\ Append(u, x)[Len(u) + 1] = x
    OBVIOUS
  <2>2. Len(Append(u, x)) = Len(u) + 1 /\ Len(u) \in Nat
    OBVIOUS
  <2>3. Once(u) /\ \A n \in 1 .. Len(u) : u[n] # x
    <3>1. \A n \in 1 .. Len(u) : n \in 1 .. Len(Append(u, x)) /\ Len(u) + 1 \in 1 .. Len(Append(u, x)) /\ n # Len(u) + 1
      BY <2>2
    <3> QED
      BY <2>1, <3>1
  <2>4. Once(Among(u, S)) /\ Among(u, S) \in Seq(T)
    BY <1>2, <2>3, AmongGrows
  <2>5. \A n \in 1 .. Len(Among(u, S)) : Among(u, S)[n] # x
    <3>1. ToSet(Among(u, S)) = ToSet(u) \cap S
      BY AmongMembers
    <3>2. x \notin ToSet(u)
      BY <2>3 DEF ToSet
    <3> DEFINE w == Among(u, S)
    <3> HIDE DEF w
    <3>3. w \in Seq(T) /\ x \notin ToSet(w)
      BY <2>4, <3>1, <3>2 DEF w
    <3>4. \A n \in 1 .. Len(w) : w[n] # x
      BY <3>3 DEF ToSet
    <3> QED
      BY <3>4 DEF w
  <2>6. Among(Append(u, x), S) = IF x \in S THEN Append(Among(u, S), x) ELSE Among(u, S)
    BY AmongGrows
  <2>7. Once(Append(Among(u, S), x))
    <3> DEFINE w == Among(u, S)
    <3> HIDE DEF w
    <3>1. w \in Seq(T) /\ Once(w) /\ \A n \in 1 .. Len(w) : w[n] # x
      BY <2>4, <2>5 DEF w
    <3>2. Once(Append(w, x))
      BY <3>1
    <3> QED
      BY <3>2 DEF w
  <2> QED
    BY <2>4, <2>6, <2>7, Zenon
<1> HIDE DEF V
<1>3. Seq(T) \subseteq V
  BY <1>1, <1>2, SequenceInduction
<1> QED
  BY <1>3 DEF V

(* A sequence without repetition is as long as the set of its elements.      *)
LEMMA LengthOnce ==
  ASSUME NEW T, NEW u \in Seq(T), \A m, n \in 1 .. Len(u) : u[m] = u[n] => m = n
  PROVE  IsFiniteSet(ToSet(u)) /\ Cardinality(ToSet(u)) = Len(u)
<1>1. Len(u) \in Nat /\ IsFiniteSet(1 .. Len(u)) /\ Cardinality(1 .. Len(u)) = Len(u)
  BY FS_Interval
<1>2. u \in Bijection(1 .. Len(u), ToSet(u))
  <2>1. u \in [1 .. Len(u) -> ToSet(u)] /\ \A x \in ToSet(u) : \E n \in 1 .. Len(u) : u[n] = x
    BY DEF ToSet
  <2> QED
    BY <2>1, Zenon DEF Bijection, Injection, Surjection, IsInjective
<1> QED
  BY <1>1, <1>2, FS_Bijection DEF ExistsBijection

(* A finite set has finitely many images.                                    *)
LEMMA FiniteImage ==
  ASSUME NEW S, IsFiniteSet(S), NEW f
  PROVE  IsFiniteSet({f[x] : x \in S})
<1> DEFINE T == {f[x] : x \in S}
           g == [x \in S |-> f[x]]
<1>1. g \in Surjection(S, T)
  BY DEF Surjection
<1> HIDE DEF g, T
<1>2. IsFiniteSet(T)
  BY <1>1, FS_Surjection
<1> QED
  BY <1>2 DEF T

(* The members of a sequence.                                                *)
LEMMA FiniteRows ==
  ASSUME NEW T, NEW rows \in Seq(T)
  PROVE  IsFiniteSet(ToSet(rows)) /\ ToSet(rows) \subseteq T
<1>1. IsFiniteSet(1 .. Len(rows))
  BY FS_Interval
<1>2. IsFiniteSet({rows[x] : x \in 1 .. Len(rows)})
  BY <1>1, FiniteImage
<1>3. DOMAIN rows = 1 .. Len(rows) /\ \A n \in 1 .. Len(rows) : rows[n] \in T
  OBVIOUS
<1>4. ToSet(rows) = {rows[x] : x \in 1 .. Len(rows)}
  BY <1>3, Zenon DEF ToSet
<1> QED
  BY <1>2, <1>3, <1>4

(* The members of two sequences, one after the other.                        *)
LEMMA MembersOfBoth ==
  ASSUME NEW T, NEW s \in Seq(T), NEW t \in Seq(T)
  PROVE  ToSet(s \o t) = ToSet(s) \cup ToSet(t)
<1>1. /\ s \o t \in Seq(T) /\ Len(s \o t) = Len(s) + Len(t)
      /\ \A n \in 1 .. Len(s) + Len(t) : (s \o t)[n] = IF n <= Len(s) THEN s[n] ELSE t[n - Len(s)]
  BY ConcatProperties
<1>2. DOMAIN s = 1 .. Len(s) /\ DOMAIN t = 1 .. Len(t) /\ DOMAIN (s \o t) = 1 .. Len(s) + Len(t)
      /\ Len(s) \in Nat /\ Len(t) \in Nat
  BY <1>1
<1> DEFINE u == s \o t
<1> HIDE DEF u
<1>3. \A n \in 1 .. Len(s) + Len(t) : u[n] \in ToSet(s) \cup ToSet(t)
  <2> TAKE n \in 1 .. Len(s) + Len(t)
  <2>1. CASE n <= Len(s)
    BY <1>1, <1>2, <2>1 DEF u, ToSet
  <2>2. CASE ~(n <= Len(s))
    <3>1. n - Len(s) \in 1 .. Len(t)
      BY <1>2, <2>2
    <3>2. u[n] = t[n - Len(s)]
      BY <1>1, <2>2, Zenon DEF u
    <3> QED
      BY <1>2, <3>1, <3>2 DEF ToSet
  <2> QED
    BY <2>1, <2>2
<1>4. \A n \in 1 .. Len(s) : n \in 1 .. Len(s) + Len(t) /\ u[n] = s[n]
  BY <1>1, <1>2 DEF u
<1>5. \A n \in 1 .. Len(t) : n + Len(s) \in 1 .. Len(s) + Len(t) /\ u[n + Len(s)] = t[n]
  <2> TAKE n \in 1 .. Len(t)
  <2>1. n + Len(s) \in 1 .. Len(s) + Len(t) /\ ~(n + Len(s) <= Len(s)) /\ (n + Len(s)) - Len(s) = n
    BY <1>2
  <2> QED
    BY <1>1, <2>1, Zenon DEF u
<1>6. ToSet(u) \subseteq ToSet(s) \cup ToSet(t)
  BY <1>2, <1>3 DEF ToSet, u
<1>7. ToSet(s) \subseteq ToSet(u) /\ ToSet(t) \subseteq ToSet(u)
  <2>1. \A n \in DOMAIN s : s[n] \in ToSet(u)
    BY <1>2, <1>4, Zenon DEF ToSet, u
  <2>2. \A n \in DOMAIN t : t[n] \in ToSet(u)
    BY <1>2, <1>5, Zenon DEF ToSet, u
  <2> QED
    BY <2>1, <2>2 DEF ToSet
<1> QED
  BY <1>6, <1>7 DEF u

(* A finite set in some order has the members of the set.                    *)
LEMMA SetInOrder ==
  ASSUME NEW S, IsFiniteSet(S)
  PROVE  SetToSeq(S) \in Seq(S) /\ ToSet(SetToSeq(S)) = S
<1> DEFINE N == Cardinality(S)
           f == SetToSeq(S)
<1>1. N \in Nat /\ ExistsBijection(1 .. N, S)
  BY FS_CardinalityType
<1>2. \E g \in [1 .. N -> S] : IsInjective(g)
  <2> HIDE DEF N
  <2>1. PICK g : g \in Bijection(1 .. N, S)
    BY <1>1 DEF ExistsBijection
  <2>2. g \in [1 .. N -> S] /\ IsInjective(g)
    BY <2>1 DEF Bijection, Injection, IsInjective
  <2> QED
    BY <2>2
<1>3. f \in [1 .. N -> S] /\ IsInjective(f)
  <2>1. f = CHOOSE g \in [1 .. N -> S] : IsInjective(g)
    BY DEF SetToSeq
  <2> HIDE DEF f, N
  <2> QED
    BY <1>2, <2>1
<1> HIDE DEF f
<1>4. f \in Surjection(1 .. N, S)
  <2>1. f \in Injection(1 .. N, S)
    BY <1>3, Zenon DEF Injection, IsInjective
  <2>2. Cardinality(1 .. N) = N
    <3> HIDE DEF N
    <3> QED
      BY <1>1, FS_Interval
  <2> QED
    BY <2>1, <2>2, FS_Injection
<1>5. f \in Seq(S) /\ DOMAIN f = 1 .. N
  <2> HIDE DEF N
  <2> QED
    BY <1>1, <1>3
<1>6. ToSet(f) = S
  <2>1. \A s \in S : \E n \in 1 .. N : f[n] = s
    BY <1>4 DEF Surjection
  <2>2. \A n \in 1 .. N : f[n] \in S
    BY <1>3
  <2> QED
    BY <1>5, <2>1, <2>2, Zenon DEF ToSet
<1> QED
  BY <1>5, <1>6 DEF f

(* What is selected keeps the order of the rows.                             *)
LEMMA AmongInOrder ==
  ASSUME NEW T, NEW S, NEW R, NEW rows \in Seq(T), \A m, n \in 1 .. Len(rows) : m < n => <<rows[m], rows[n]>> \in R
  PROVE  \A m, n \in 1 .. Len(Among(rows, S)) : m < n => <<Among(rows, S)[m], Among(rows, S)[n]>> \in R
<1> DEFINE Follow(u) == \A m, n \in 1 .. Len(u) : m < n => <<u[m], u[n]>> \in R
           V == {u \in Seq(T) : Follow(u) => Follow(Among(u, S))}
<1>1. <<>> \in V
  BY AmongGrows
<1>2. ASSUME NEW u \in Seq(T), NEW x \in T, u \in V PROVE Append(u, x) \in V
  <2> SUFFICES ASSUME Follow(Append(u, x)) PROVE Follow(Among(Append(u, x), S))
    <3> HIDE DEF Follow
    <3>1. Append(u, x) \in Seq(T)
      OBVIOUS
    <3> QED
      BY <3>1
  <2>1. \A n \in 1 .. Len(u) : Append(u, x)[n] = u[n] /\ Append(u, x)[Len(u) + 1] = x
    OBVIOUS
  <2>2. Len(Append(u, x)) = Len(u) + 1 /\ Len(u) \in Nat
    OBVIOUS
  <2>3. Follow(u) /\ \A n \in 1 .. Len(u) : <<u[n], x>> \in R
    <3>1. \A n \in 1 .. Len(u) : n \in 1 .. Len(Append(u, x)) /\ Len(u) + 1 \in 1 .. Len(Append(u, x)) /\ n < Len(u) + 1
      BY <2>2
    <3> QED
      BY <2>1, <3>1
  <2>4. Follow(Among(u, S)) /\ Among(u, S) \in Seq(T) /\ ToSet(Among(u, S)) = ToSet(u) \cap S
    BY <1>2, <2>3, AmongGrows, AmongMembers
  <2>5. Among(Append(u, x), S) = IF x \in S THEN Append(Among(u, S), x) ELSE Among(u, S)
    BY AmongGrows
  <2>6. Follow(Append(Among(u, S), x))
    <3> DEFINE w == Among(u, S)
    <3>1. \A y \in ToSet(u) : <<y, x>> \in R
      BY <2>3 DEF ToSet
    <3> HIDE DEF w
    <3>2. w \in Seq(T) /\ Follow(w) /\ \A y \in ToSet(w) : <<y, x>> \in R
      BY <2>4, <3>1 DEF w
    <3>3. \A n \in 1 .. Len(w) : <<w[n], x>> \in R
      BY <3>2 DEF ToSet
    <3>4. /\ Len(Append(w, x)) = Len(w) + 1 /\ Len(w) \in Nat /\ Append(w, x)[Len(w) + 1] = x
          /\ \A n \in 1 .. Len(w) : Append(w, x)[n] = w[n]
      BY <3>2
    <3>5. ASSUME NEW m \in 1 .. Len(Append(w, x)), NEW n \in 1 .. Len(Append(w, x)), m < n
          PROVE  <<Append(w, x)[m], Append(w, x)[n]>> \in R
      <4>1. m \in 1 .. Len(w) /\ (n \in 1 .. Len(w) \/ n = Len(w) + 1)
        BY <3>4, <3>5
      <4> QED
        BY <3>2, <3>3, <3>4, <3>5, <4>1
    <3>6. Follow(Append(w, x))
      BY <3>5
    <3> QED
      BY <3>6 DEF w
  <2> QED
    BY <2>4, <2>5, <2>6, Zenon
<1> HIDE DEF V
<1>3. Seq(T) \subseteq V
  BY <1>1, <1>2, SequenceInduction
<1> QED
  BY <1>3 DEF V
=============================================================================
