------------------------- MODULE GraphServingProofs -------------------------
(***************************************************************************)
(* Theorems about GraphServing: for any number of threads, of graphs and   *)
(* of registries, and for any sequence of activations, outages,            *)
(* replacements, exits and kills.                                          *)
(***************************************************************************)
EXTENDS GraphServing, FiniteSetTheorems, TLAPS

Steps == {"quiet", "handle", "wait", "locked", "first", "verify", "verified", "read", "answer",
          "error"}
Request ==
  [pc : Steps, reg : Versions \cup {None}, n : DOMAIN Order, mine : 1..Bolts \cup {None},
   data : SUBSET (Versions \cup {None}), disturbed : BOOLEAN]

(* Every client is one of 1..Bolts: whoever makes one finds one that is not
   open, so TypeOK needs the invariants below.                               *)
TypeOK ==
  /\ file \in Versions
  /\ backend \in [Graphs -> Versions \cup {None}]
  /\ pinned \in Versions \cup {None}
  /\ handles \subseteq Graphs
  /\ client \in [Graphs -> 1..Bolts \cup {None}]
  /\ lock \in [Graphs -> Threads \cup {None}]
  /\ open \subseteq 1..Bolts
  /\ thread \in [Threads -> Request]

(* A handle's lock is held by the one thread that is inside of
   _ensure_client for that handle.                                           *)
Inside(t) == thread[t].pc \in {"locked", "first"}
LockInv ==
  /\ \A t \in Threads : Inside(t) => lock[GraphOf(t)] = t
  /\ \A g \in Graphs : lock[g] # None => Inside(lock[g]) /\ GraphOf(lock[g]) = g

(* The client a handle accounts for: its own, or that of the thread which is
   verifying it under the lock.                                              *)
Verifying(g) == lock[g] # None /\ thread[lock[g]].pc = "first"
Holding(g) ==
  IF client[g] # None THEN client[g] ELSE IF Verifying(g) THEN thread[lock[g]].mine ELSE None

HoldingInv ==
  /\ \A b \in open : \E g \in Graphs : Holding(g) = b
  /\ \A g \in Graphs : Holding(g) # None => Holding(g) \in open
  /\ \A g, h \in Graphs : Holding(g) = Holding(h) /\ Holding(g) # None => g = h
  /\ \A t \in Threads : thread[t].pc = "first" => client[GraphOf(t)] = None /\ thread[t].mine # None

(* Exit closes what the handles have: a graph with a client has a handle.    *)
HandlesInv ==
  /\ \A t \in Threads : thread[t].pc = "wait" \/ Inside(t) => GraphOf(t) \in handles
  /\ \A g \in Graphs : client[g] # None => g \in handles

(* What a request that nothing disturbed knows of the backends: those before
   the current one were verified, the current one once it is past _verify;
   and a client that appeared while it waited for the lock was verified, by
   another thread, against the same registry.                                *)
Earlier(t) == {Order[m] : m \in 1 .. thread[t].n - 1}
Current(t) ==
  \/ thread[t].pc \in {"verified", "read"}
  \/ thread[t].pc \in {"wait", "locked"} /\ client[GraphOf(t)] # None
Verified(t) == Earlier(t) \cup (IF Current(t) THEN {GraphOf(t)} ELSE {})
Knows(t) ==
  /\ thread[t].pc # "quiet" => thread[t].reg = pinned /\ pinned # None
  /\ thread[t].pc \notin {"quiet", "answer", "error"} /\ ~thread[t].disturbed =>
       \A g \in Verified(t) : backend[g] = pinned
  /\ thread[t].pc = "read" => thread[t].n = Len(Order)
  /\ thread[t].pc = "answer" /\ ~thread[t].disturbed => thread[t].data = {pinned}
PinnedInv == \A t \in Threads : Knows(t)

ServingInv == TypeOK /\ LockInv /\ HoldingInv /\ HandlesInv /\ PinnedInv

-----------------------------------------------------------------------------
LEMMA OrderIs ==
  /\ Order \in Seq(Graphs) /\ Len(Order) \in Nat \ {0} /\ DOMAIN Order = 1 .. Len(Order)
  /\ \A n \in DOMAIN Order : Order[n] \in Graphs
  /\ Graphs # {}
<1>1. Order \in Seq(Graphs) /\ Order # <<>>
  BY ServingAssumption
<1>2. Len(Order) \in Nat \ {0} /\ DOMAIN Order = 1 .. Len(Order)
  BY <1>1
<1> QED
  BY <1>1, <1>2 DEF Graphs

LEMMA GraphOfType ==
  ASSUME TypeOK, NEW t \in Threads
  PROVE  GraphOf(t) \in Graphs /\ thread[t] \in Request /\ thread[t].n \in 1 .. Len(Order)
BY OrderIs DEF TypeOK, Request, GraphOf

LEMMA QuietType == Quiet \in Request /\ Quiet.pc = "quiet" /\ Quiet.reg = None /\ Quiet.n = 1
                   /\ Quiet.mine = None /\ Quiet.data = {} /\ Quiet.disturbed = FALSE
BY OrderIs DEF Quiet, Request, Steps

LEMMA ServingInit == Init => ServingInv
<1> SUFFICES ASSUME Init PROVE ServingInv
  OBVIOUS
<1>1. TypeOK
  BY QuietType DEF Init, TypeOK
<1>2. \A t \in Threads : thread[t].pc = "quiet"
  BY QuietType DEF Init
<1>3. \A g \in Graphs : lock[g] = None /\ client[g] = None /\ Holding(g) = None
  BY DEF Init, Holding, Verifying
<1>4. LockInv /\ HandlesInv
  BY <1>2, <1>3 DEF LockInv, HandlesInv, Inside
<1>5. HoldingInv
  BY <1>2, <1>3 DEF HoldingInv, Init
<1>6. PinnedInv
  BY <1>2 DEF PinnedInv, Knows
<1> QED
  BY <1>1, <1>4, <1>5, <1>6 DEF ServingInv

(* Who creates a client finds one that is not open: fewer than all handles
   account for one, so fewer than Bolts are open.                            *)
LEMMA GraphsFinite == IsFiniteSet(Graphs) /\ Cardinality(Graphs) \in Nat
<1>1. Order \in Surjection(1 .. Len(Order), Graphs)
  <2>1. Order \in [1 .. Len(Order) -> Graphs]
    BY OrderIs
  <2>2. \A g \in Graphs : \E n \in 1 .. Len(Order) : Order[n] = g
    BY OrderIs DEF Graphs
  <2> QED
    BY <2>1, <2>2 DEF Surjection
<1>2. IsFiniteSet(1 .. Len(Order))
  BY OrderIs, FS_Interval
<1> QED
  BY <1>1, <1>2, FS_Surjection, FS_CardinalityType

LEMMA FreeBolt ==
  ASSUME TypeOK, LockInv, HoldingInv, NEW t \in Threads, thread[t].pc = "locked",
         client[GraphOf(t)] = None
  PROVE  \E b \in 1..Bolts : b \notin open
<1> DEFINE others == Graphs \ {GraphOf(t)}
<1>1. GraphOf(t) \in Graphs /\ lock[GraphOf(t)] = t
  BY GraphOfType DEF LockInv, Inside
<1>2. Holding(GraphOf(t)) = None
  BY <1>1 DEF Holding, Verifying
<1>3. IsFiniteSet(others) /\ Cardinality(others) < Cardinality(Graphs)
  <2>1. IsFiniteSet(others) /\ Cardinality(others) = Cardinality(Graphs) - 1
    BY <1>1, GraphsFinite, FS_RemoveElement
  <2> HIDE DEF others
  <2> QED
    BY <2>1, GraphsFinite
<1>4. IsFiniteSet(1..Bolts) /\ Cardinality(1..Bolts) = Bolts
  BY ServingAssumption, FS_Interval
<1>5. Cardinality(others) < Cardinality(1..Bolts)
  BY <1>3, <1>4, GraphsFinite, FS_CardinalityType, ServingAssumption
<1>6. SUFFICES ASSUME 1..Bolts \subseteq open PROVE FALSE
  OBVIOUS
<1> DEFINE of == [b \in 1..Bolts |-> CHOOSE g \in others : Holding(g) = b]
<1>7. \A b \in 1..Bolts : of[b] \in others /\ Holding(of[b]) = b
  <2> SUFFICES ASSUME NEW b \in 1..Bolts PROVE \E g \in others : Holding(g) = b
    OBVIOUS
  <2>1. PICK g \in Graphs : Holding(g) = b
    BY <1>6 DEF HoldingInv
  <2>2. b # None
    BY ServingAssumption
  <2> QED
    BY <2>1, <2>2, <1>2
<1>8. of \in [1..Bolts -> others]
  BY <1>7
<1>9. \E x, y \in 1..Bolts : x # y /\ of[x] = of[y]
  <2> HIDE DEF of, others
  <2>1. PICK bolts : bolts = 1..Bolts
    OBVIOUS
  <2>2. /\ IsFiniteSet(bolts) /\ IsFiniteSet(others)
        /\ Cardinality(others) < Cardinality(bolts) /\ of \in [bolts -> others]
    BY <2>1, <1>3, <1>4, <1>5, <1>8
  <2>3. \E x, y \in bolts : x # y /\ of[x] = of[y]
    BY <2>2, FS_PigeonHole
  <2> QED
    BY <2>1, <2>3
<1> HIDE DEF of
<1> QED
  BY <1>7, <1>9

-----------------------------------------------------------------------------
(* A request stays well formed, whatever field an action sets.               *)
LEMMA RequestStep ==
  ASSUME TypeOK, NEW t \in Threads
  PROVE  /\ \A pc \in Steps : [thread EXCEPT ![t].pc = pc] \in [Threads -> Request]
         /\ \A pc \in Steps, b \in 1..Bolts \cup {None} :
              [thread EXCEPT ![t].pc = pc, ![t].mine = b] \in [Threads -> Request]
         /\ \A pc \in Steps, n \in DOMAIN Order :
              [thread EXCEPT ![t].pc = pc, ![t].n = n] \in [Threads -> Request]
         /\ \A pc \in Steps, data \in SUBSET (Versions \cup {None}) :
              [thread EXCEPT ![t].pc = pc, ![t].data = data] \in [Threads -> Request]
<1>1. ASSUME NEW f \in [Threads -> Request], NEW pc \in Steps
      PROVE  [f EXCEPT ![t].pc = pc] \in [Threads -> Request]
  BY DEF Request
<1>2. ASSUME NEW f \in [Threads -> Request], NEW b \in 1..Bolts \cup {None}
      PROVE  [f EXCEPT ![t].mine = b] \in [Threads -> Request]
  BY DEF Request
<1>3. ASSUME NEW f \in [Threads -> Request], NEW n \in DOMAIN Order
      PROVE  [f EXCEPT ![t].n = n] \in [Threads -> Request]
  BY DEF Request
<1>4. ASSUME NEW f \in [Threads -> Request], NEW data \in SUBSET (Versions \cup {None})
      PROVE  [f EXCEPT ![t].data = data] \in [Threads -> Request]
  BY DEF Request
<1>5. thread \in [Threads -> Request]
  BY DEF TypeOK
<1>6. ASSUME NEW pc \in Steps
      PROVE  [thread EXCEPT ![t].pc = pc] \in [Threads -> Request]
  BY <1>1, <1>5
<1>7. ASSUME NEW pc \in Steps, NEW b \in 1..Bolts \cup {None}
      PROVE  [thread EXCEPT ![t].pc = pc, ![t].mine = b] \in [Threads -> Request]
  BY <1>6, <1>2, Zenon
<1>8. ASSUME NEW pc \in Steps, NEW n \in DOMAIN Order
      PROVE  [thread EXCEPT ![t].pc = pc, ![t].n = n] \in [Threads -> Request]
  BY <1>6, <1>3
<1>9. ASSUME NEW pc \in Steps, NEW data \in SUBSET (Versions \cup {None})
      PROVE  [thread EXCEPT ![t].pc = pc, ![t].data = data] \in [Threads -> Request]
  BY <1>6, <1>4
<1> QED
  BY <1>6, <1>7, <1>8, <1>9

LEMMA TypeStep == TypeOK /\ LockInv /\ HoldingInv /\ [Next]_vars => TypeOK'
<1> SUFFICES ASSUME TypeOK, LockInv, HoldingInv, [Next]_vars PROVE TypeOK'
  OBVIOUS
<1> USE DEF TypeOK
<1>1. ASSUME NEW t \in Threads, Begin(t) PROVE TypeOK'
  <2>1. pinned' \in Versions
    BY <1>1 DEF Begin
  <2>2. [Quiet EXCEPT !.pc = "handle", !.reg = pinned'] \in Request
    BY <2>1, QuietType DEF Request, Steps
  <2> QED
    BY <1>1, <2>1, <2>2 DEF Begin
<1>2. ASSUME NEW t \in Threads, GetHandle(t) \/ Lock(t) \/ Found(t) \/ Verify(t) PROVE TypeOK'
  <2>1. "wait" \in Steps /\ "locked" \in Steps /\ "verify" \in Steps
        /\ "verified" \in Steps /\ "error" \in Steps
    BY DEF Steps
  <2>2. PICK pc \in Steps : Goto(t, pc)
    BY <1>2, <2>1 DEF GetHandle, Lock, Found, Verify
  <2>3. thread' \in [Threads -> Request]
    <3>1. [thread EXCEPT ![t].pc = pc] \in [Threads -> Request]
      BY RequestStep, Zenon
    <3> QED
      BY <2>2, <3>1 DEF Goto
  <2>4. GraphOf(t) \in Graphs
    BY GraphOfType
  <2> QED
    BY <1>2, <2>3, <2>4 DEF GetHandle, Lock, Found, Verify, shared
<1>3. ASSUME NEW t \in Threads, Create(t) PROVE TypeOK'
  <2>1. PICK b : /\ b = CHOOSE c \in 1 .. Bolts : c \notin open
                 /\ open' = open \cup {b}
                 /\ thread' = [thread EXCEPT ![t].pc = "first", ![t].mine = b]
    BY <1>3 DEF Create
  <2>2. b \in 1..Bolts
    BY <1>3, <2>1, FreeBolt DEF Create
  <2>3. thread' \in [Threads -> Request]
    <3>1. "first" \in Steps /\ b \in 1..Bolts \cup {None}
      BY <2>2 DEF Steps
    <3>2. [thread EXCEPT ![t].pc = "first", ![t].mine = b] \in [Threads -> Request]
      BY <3>1, RequestStep, Zenon
    <3>3. thread' = [thread EXCEPT ![t].pc = "first", ![t].mine = b]
      BY <2>1
    <3> QED
      BY <3>2, <3>3
  <2> QED
    BY <1>3, <2>1, <2>2, <2>3 DEF Create
<1>4. ASSUME NEW t \in Threads, FirstVerified(t) \/ FirstRefused(t) PROVE TypeOK'
  <2>1. thread' \in [Threads -> Request]
    <3>1. "verified" \in Steps /\ "error" \in Steps /\ None \in 1..Bolts \cup {None}
      BY DEF Steps
    <3>2. /\ [thread EXCEPT ![t].pc = "verified", ![t].mine = None] \in [Threads -> Request]
          /\ [thread EXCEPT ![t].pc = "error", ![t].mine = None] \in [Threads -> Request]
      BY <3>1, RequestStep, Zenon
    <3> QED
      BY <1>4, <3>2 DEF FirstVerified, FirstRefused
  <2>2. GraphOf(t) \in Graphs /\ thread[t].mine \in 1..Bolts \cup {None}
    BY GraphOfType DEF Request
  <2> QED
    BY <1>4, <2>1, <2>2 DEF FirstVerified, FirstRefused
<1>5. ASSUME NEW t \in Threads, NextHandle(t) PROVE TypeOK'
  <2>1. thread[t].n \in 1 .. Len(Order) /\ DOMAIN Order = 1 .. Len(Order) /\ Len(Order) \in Nat
    BY GraphOfType, OrderIs
  <2>2. CASE thread[t].n = Len(Order)
    BY <1>5, <2>2, RequestStep DEF NextHandle, shared, Steps
  <2>3. CASE thread[t].n # Len(Order)
    <3>1. thread[t].n + 1 \in DOMAIN Order
      BY <2>1, <2>3
    <3>2. thread' = [thread EXCEPT ![t].pc = "handle", ![t].n = thread[t].n + 1]
      BY <1>5, <2>3 DEF NextHandle
    <3>3. "handle" \in Steps
      BY DEF Steps
    <3>4. thread' \in [Threads -> Request]
      BY <3>1, <3>2, <3>3, RequestStep, Zenon
    <3> QED
      BY <1>5, <3>4 DEF NextHandle, shared
  <2> QED
    BY <2>2, <2>3
<1>6. ASSUME NEW t \in Threads, Read(t) PROVE TypeOK'
  <2>1. {backend[g] : g \in Graphs} \in SUBSET (Versions \cup {None})
    OBVIOUS
  <2>2. "answer" \in Steps /\ "error" \in Steps
    BY DEF Steps
  <2>3. \/ thread' = [thread EXCEPT ![t].pc = "answer", ![t].data = {backend[g] : g \in Graphs}]
        \/ thread' = [thread EXCEPT ![t].pc = "error"]
    BY <1>6 DEF Read
  <2> DEFINE held == {backend[g] : g \in Graphs}
  <2> HIDE DEF held
  <2>4. thread' \in [Threads -> Request]
    <3>1. \/ thread' = [thread EXCEPT ![t].pc = "answer", ![t].data = held]
          \/ thread' = [thread EXCEPT ![t].pc = "error"]
      BY <2>3 DEF held
    <3>2. held \in SUBSET (Versions \cup {None})
      BY <2>1 DEF held
    <3>3. /\ [thread EXCEPT ![t].pc = "answer", ![t].data = held] \in [Threads -> Request]
          /\ [thread EXCEPT ![t].pc = "error"] \in [Threads -> Request]
      BY <3>2, <2>2, RequestStep, Zenon
    <3> QED
      BY <3>1, <3>3
  <2> QED
    BY <1>6, <2>4 DEF Read, shared
<1>7. ASSUME NEW t \in Threads, Return(t) PROVE TypeOK'
  BY <1>7, QuietType DEF Return, shared
<1>8. ASSUME NEW v \in Versions, Activate(v) PROVE TypeOK'
  BY <1>8 DEF Activate
<1>9. ASSUME NEW g \in Graphs, NEW v \in Versions \cup {None}, Replace(g, v) PROVE TypeOK'
  <2>1. ASSUME NEW t \in Threads
        PROVE  [thread[t] EXCEPT !.disturbed = thread[t].pc # "quiet"] \in Request
    BY DEF Request
  <2> QED
    BY <1>9, <2>1 DEF Replace
<1>10. CASE Exit \/ KillServer
  BY <1>10, QuietType DEF Exit, KillServer
<1>11. CASE UNCHANGED vars
  BY <1>11 DEF vars
<1> QED
  BY <1>1, <1>2, <1>3, <1>4, <1>5, <1>6, <1>7, <1>8, <1>9, <1>10, <1>11 DEF Next, Step

-----------------------------------------------------------------------------
(* What each action does to the requests, field by field.                    *)
Same(t, u) == t # u => thread'[u] = thread[u]
Moved(t, pc) ==
  /\ \A u \in Threads : Same(t, u)
  /\ thread'[t].pc = pc /\ thread'[t].reg = thread[t].reg /\ thread'[t].disturbed = thread[t].disturbed
Stays(t) == thread'[t].n = thread[t].n

LEMMA StepMoves ==
  ASSUME TypeOK, NEW t \in Threads
  PROVE  /\ GetHandle(t) => Stays(t) /\ Moved(t, IF client[GraphOf(t)] = None THEN "wait" ELSE "verify")
         /\ Lock(t) => Stays(t) /\ Moved(t, "locked")
         /\ Create(t) => Stays(t) /\ Moved(t, "first") /\ open' = open \cup {thread'[t].mine}
                         /\ thread'[t].mine = CHOOSE b \in 1..Bolts : b \notin open
         /\ Found(t) \/ FirstVerified(t) => Stays(t) /\ Moved(t, "verified")
         /\ FirstRefused(t) => Stays(t) /\ Moved(t, "error")
         /\ Verify(t) =>
              \/ Stays(t) /\ Moved(t, "verified") /\ Matches(t)
              \/ Stays(t) /\ Moved(t, "error")
         /\ NextHandle(t) =>
              \/ Stays(t) /\ thread[t].n = Len(Order) /\ Moved(t, "read")
              \/ thread[t].n # Len(Order) /\ thread'[t].n = thread[t].n + 1 /\ Moved(t, "handle")
         /\ Read(t) =>
              \/ Stays(t) /\ Moved(t, "answer") /\ thread'[t].data = {backend[g] : g \in Graphs}
              \/ Stays(t) /\ Moved(t, "error")
<1> USE DEF TypeOK, Request, Same, Moved, Stays
<1>1. \A pc \in Steps : Goto(t, pc) => Stays(t) /\ Moved(t, pc)
  BY DEF Goto
<1>2. {"wait", "verify", "locked", "verified", "error"} \subseteq Steps
  BY DEF Steps
<1>3. GetHandle(t) => Stays(t) /\ Moved(t, IF client[GraphOf(t)] = None THEN "wait" ELSE "verify")
  BY <1>1, <1>2 DEF GetHandle
<1>4. Lock(t) => Stays(t) /\ Moved(t, "locked")
  BY <1>1, <1>2 DEF Lock
<1>5. Create(t) => Stays(t) /\ Moved(t, "first") /\ open' = open \cup {thread'[t].mine}
                  /\ thread'[t].mine = CHOOSE b \in 1..Bolts : b \notin open
  <2> DEFINE bolt == CHOOSE b \in 1..Bolts : b \notin open
  <2>1. Create(t) => /\ open' = open \cup {bolt}
                     /\ thread' = [thread EXCEPT ![t].pc = "first", ![t].mine = bolt]
    BY DEF Create
  <2> HIDE DEF bolt
  <2>2. Create(t) => /\ Stays(t) /\ Moved(t, "first") /\ open' = open \cup {thread'[t].mine}
                     /\ thread'[t].mine = bolt
    BY <2>1
  <2> QED
    BY <2>2 DEF bolt
<1>6. Found(t) \/ FirstVerified(t) => Stays(t) /\ Moved(t, "verified")
  BY <1>1, <1>2 DEF Found, FirstVerified
<1>7. FirstRefused(t) => Stays(t) /\ Moved(t, "error")
  BY DEF FirstRefused
<1>8. Verify(t) =>
        \/ Stays(t) /\ Moved(t, "verified") /\ Matches(t)
        \/ Stays(t) /\ Moved(t, "error")
  BY <1>1, <1>2 DEF Verify
<1>9. NextHandle(t) =>
        \/ Stays(t) /\ thread[t].n = Len(Order) /\ Moved(t, "read")
        \/ thread[t].n # Len(Order) /\ thread'[t].n = thread[t].n + 1 /\ Moved(t, "handle")
  BY DEF NextHandle
<1>10. Read(t) =>
         \/ Stays(t) /\ Moved(t, "answer") /\ thread'[t].data = {backend[g] : g \in Graphs}
         \/ Stays(t) /\ Moved(t, "error")
  <2> DEFINE held == {backend[g] : g \in Graphs}
  <2>1. Read(t) => \/ thread' = [thread EXCEPT ![t].pc = "answer", ![t].data = held]
                   \/ thread' = [thread EXCEPT ![t].pc = "error"]
    BY DEF Read
  <2> HIDE DEF held
  <2>2. Read(t) => \/ Stays(t) /\ Moved(t, "answer") /\ thread'[t].data = held
                   \/ Stays(t) /\ Moved(t, "error")
    BY <2>1
  <2> QED
    BY <2>2 DEF held
<1> QED
  BY <1>3, <1>4, <1>5, <1>6, <1>7, <1>8, <1>9, <1>10

LEMMA BeginMoves ==
  ASSUME TypeOK, NEW t \in Threads
  PROVE  /\ Begin(t) => /\ \A u \in Threads : Same(t, u)
                        /\ thread'[t].pc = "handle" /\ thread'[t].n = 1
                        /\ thread'[t].reg = pinned' /\ ~thread'[t].disturbed
         /\ Return(t) => (\A u \in Threads : Same(t, u)) /\ thread'[t] = Quiet
BY QuietType DEF TypeOK, Begin, Return, Same, Quiet

LEMMA LockStep == TypeOK /\ LockInv /\ [Next]_vars => LockInv'
<1> SUFFICES ASSUME TypeOK, LockInv, [Next]_vars PROVE LockInv'
  OBVIOUS
<1>0. /\ \A t \in Threads : GraphOf(t) \in Graphs /\ t # None
      /\ \A g \in Graphs : lock[g] \in Threads \cup {None}
  BY GraphOfType, ServingAssumption DEF TypeOK
(* A step outside of _ensure_client, and one that stays inside.              *)
<1>a. ASSUME NEW t \in Threads, lock' = lock, \A u \in Threads : Same(t, u),
             ~Inside(t), ~Inside(t)'
      PROVE  LockInv'
  BY <1>0, <1>a DEF LockInv, Inside, GraphOf, Same
<1>b. ASSUME NEW t \in Threads, lock[GraphOf(t)] = t, Stays(t), \A u \in Threads : Same(t, u),
             lock' = [lock EXCEPT ![GraphOf(t)] = None], ~Inside(t)'
      PROVE  LockInv'
  BY <1>0, <1>b DEF LockInv, Inside, GraphOf, Same, TypeOK, Stays
<1>1. ASSUME NEW t \in Threads,
             Begin(t) \/ GetHandle(t) \/ Verify(t) \/ NextHandle(t) \/ Read(t) \/ Return(t)
      PROVE  LockInv'
  <2>1. lock' = lock /\ ~Inside(t)
    BY <1>1 DEF Begin, GetHandle, Verify, NextHandle, Read, Return, shared, Inside
  <2>2. (\A u \in Threads : Same(t, u)) /\ ~Inside(t)'
    BY <1>1, StepMoves, BeginMoves, QuietType DEF Moved, Inside
  <2> QED
    BY <2>1, <2>2, <1>a
<1>2. ASSUME NEW t \in Threads, Lock(t) PROVE LockInv'
  <2>1. Stays(t) /\ Moved(t, "locked")
    BY <1>2, StepMoves
  <2>2. lock[GraphOf(t)] = None /\ lock' = [lock EXCEPT ![GraphOf(t)] = t] /\ GraphOf(t)' = GraphOf(t)
    BY <1>2, <2>1 DEF Lock, GraphOf, Stays
  <2>3. \A u \in Threads : u # t => GraphOf(u)' = GraphOf(u) /\ (Inside(u)' <=> Inside(u))
    BY <2>1 DEF Moved, Same, GraphOf, Inside
  <2>4. Inside(t)'
    BY <2>1 DEF Moved, Inside
  <2>5. \A g \in Graphs : lock'[g] = IF g = GraphOf(t) THEN t ELSE lock[g]
    BY <2>2 DEF TypeOK
  <2> QED
    BY <1>0, <2>2, <2>3, <2>4, <2>5 DEF LockInv, Inside, GraphOf
<1>3. ASSUME NEW t \in Threads, Create(t) PROVE LockInv'
  <2>1. Stays(t) /\ Moved(t, "first") /\ lock' = lock /\ Inside(t)
    BY <1>3, StepMoves DEF Create, Inside
  <2>2. \A u \in Threads : GraphOf(u)' = GraphOf(u) /\ (Inside(u)' <=> Inside(u))
    BY <2>1 DEF Moved, Same, Stays, GraphOf, Inside
  <2> QED
    BY <1>0, <2>1, <2>2 DEF LockInv, Inside, GraphOf
<1>4. ASSUME NEW t \in Threads, Found(t) \/ FirstVerified(t) \/ FirstRefused(t) PROVE LockInv'
  <2>1. Inside(t) /\ lock' = [lock EXCEPT ![GraphOf(t)] = None]
    BY <1>4 DEF Found, FirstVerified, FirstRefused, Inside
  <2>2. Stays(t) /\ (\A u \in Threads : Same(t, u)) /\ ~Inside(t)'
    BY <1>4, StepMoves DEF Moved, Inside
  <2>3. lock[GraphOf(t)] = t
    BY <2>1 DEF LockInv
  <2> QED
    BY <2>1, <2>2, <2>3, <1>b
<1>5. ASSUME NEW v, Activate(v) PROVE LockInv'
  BY <1>5 DEF Activate, LockInv, Inside, GraphOf
<1>6. ASSUME NEW g, NEW v, Replace(g, v) PROVE LockInv'
  <2>1. \A u \in Threads : thread'[u].pc = thread[u].pc /\ thread'[u].n = thread[u].n
    BY <1>6 DEF Replace, TypeOK, Request
  <2> QED
    BY <1>0, <1>6, <2>1 DEF Replace, LockInv, Inside, GraphOf
<1>7. CASE Exit
  BY <1>7 DEF Exit, LockInv, Inside, GraphOf
<1>8. CASE KillServer
  BY <1>8, QuietType DEF KillServer, LockInv, Inside
<1>9. CASE UNCHANGED vars
  BY <1>9 DEF vars, LockInv, Inside, GraphOf
<1> QED
  BY <1>1, <1>2, <1>3, <1>4, <1>5, <1>6, <1>7, <1>8, <1>9 DEF Next, Step

-----------------------------------------------------------------------------
(* A thread that is verifying is the one its graph is verified by.           *)
LEMMA VerifyingIs ==
  ASSUME TypeOK, LockInv
  PROVE  /\ \A t \in Threads : thread[t].pc = "first" =>
              Verifying(GraphOf(t)) /\ lock[GraphOf(t)] = t
         /\ \A g \in Graphs : Verifying(g) =>
              /\ lock[g] \in Threads /\ GraphOf(lock[g]) = g /\ thread[lock[g]].pc = "first"
BY ServingAssumption DEF TypeOK, LockInv, Inside, Verifying

LEMMA HoldingStep == TypeOK /\ LockInv /\ HoldingInv /\ HandlesInv /\ [Next]_vars => HoldingInv'
<1> SUFFICES ASSUME TypeOK, LockInv, HoldingInv, HandlesInv, [Next]_vars PROVE HoldingInv'
  OBVIOUS
<1>0. /\ \A t \in Threads : GraphOf(t) \in Graphs /\ t # None
      /\ \A g \in Graphs : lock[g] \in Threads \cup {None}
      /\ \A g \in Graphs : client[g] \in 1..Bolts \cup {None}
  BY GraphOfType, ServingAssumption DEF TypeOK
<1>i. LockInv' /\ TypeOK'
  BY LockStep, TypeStep
(* Nobody begins or ends to verify.                                          *)
<1>a. ASSUME \A g \in Graphs : Holding(g)' = Holding(g), open' = open,
             \A t \in Threads : thread'[t].pc = "first" => /\ thread[t].pc = "first"
                                                          /\ thread'[t].mine = thread[t].mine
                                                          /\ client'[GraphOf(t)'] = client[GraphOf(t)]
      PROVE  HoldingInv'
  BY <1>a DEF HoldingInv
<1>b. ASSUME NEW t \in Threads, open' = open, client' = client, \A u \in Threads : Same(t, u),
             lock' = lock, ~Inside(t), ~Inside(t)'
      PROVE  HoldingInv'
  <2>1. ASSUME NEW g \in Graphs PROVE Holding(g)' = Holding(g)
    <3>1. lock[g] # t
      BY <1>0, <1>b DEF LockInv
    <3>2. lock[g] # None => thread'[lock[g]] = thread[lock[g]]
      BY <3>1, <1>0, <1>b DEF Same
    <3> QED
      BY <3>2, <1>b DEF Holding, Verifying
  <2>2. \A u \in Threads : thread'[u].pc = "first" => u # t /\ thread'[u] = thread[u]
    BY <1>b DEF Inside, Same
  <2> QED
    BY <2>1, <2>2, <1>a, <1>b DEF GraphOf
<1>1. ASSUME NEW t \in Threads,
             Begin(t) \/ GetHandle(t) \/ Verify(t) \/ NextHandle(t) \/ Read(t) \/ Return(t)
      PROVE  HoldingInv'
  <2>1. lock' = lock /\ ~Inside(t) /\ open' = open /\ client' = client
    BY <1>1 DEF Begin, GetHandle, Verify, NextHandle, Read, Return, shared, Inside
  <2>2. (\A u \in Threads : Same(t, u)) /\ ~Inside(t)'
    BY <1>1, StepMoves, BeginMoves, QuietType DEF Moved, Inside
  <2> QED
    BY <2>1, <2>2, <1>b
<1>2. ASSUME NEW t \in Threads, Lock(t) PROVE HoldingInv'
  <2>1. Moved(t, "locked") /\ open' = open /\ client' = client
    BY <1>2, StepMoves DEF Lock
  <2>2. \A g \in Graphs : lock'[g] = IF g = GraphOf(t) THEN t ELSE lock[g]
    BY <1>2 DEF Lock, TypeOK
  <2>3. lock[GraphOf(t)] = None /\ ~Inside(t)
    BY <1>2 DEF Lock, Inside
  <2>4. ASSUME NEW g \in Graphs PROVE Holding(g)' = Holding(g)
    <3>1. CASE g = GraphOf(t)
      BY <3>1, <2>1, <2>2, <2>3 DEF Holding, Verifying, Moved
    <3>2. CASE g # GraphOf(t)
      <4>1. lock'[g] = lock[g] /\ lock[g] # t
        BY <3>2, <2>2, <2>3, <1>0 DEF LockInv
      <4>2. lock[g] # None => thread'[lock[g]] = thread[lock[g]]
        BY <4>1, <2>1, <1>0 DEF Moved, Same
      <4> QED
        BY <4>1, <4>2, <2>1 DEF Holding, Verifying
    <3> QED
      BY <3>1, <3>2
  <2>5. \A u \in Threads : thread'[u].pc = "first" => u # t /\ thread'[u] = thread[u]
    BY <2>1 DEF Moved, Same
  <2> QED
    BY <2>1, <2>4, <2>5, <1>a DEF GraphOf
(* The three steps that end in another state of the lock or of the client.
   Outside of the graph at hand nothing changes.                             *)
<1>c. ASSUME NEW t \in Threads, Inside(t), \A u \in Threads : Same(t, u), Stays(t),
             \A g \in Graphs : g # GraphOf(t) => lock'[g] = lock[g] /\ client'[g] = client[g]
      PROVE  /\ \A g \in Graphs : g # GraphOf(t) => Holding(g)' = Holding(g)
             /\ \A u \in Threads : u # t /\ thread'[u].pc = "first" =>
                  /\ thread[u].pc = "first" /\ thread'[u].mine = thread[u].mine
                  /\ client'[GraphOf(u)'] = client[GraphOf(u)]
  <2>1. ASSUME NEW g \in Graphs, g # GraphOf(t) PROVE Holding(g)' = Holding(g)
    <3>1. lock[g] # t
      BY <2>1, <1>0 DEF LockInv
    <3>2. lock[g] # None => thread'[lock[g]] = thread[lock[g]]
      BY <3>1, <1>0, <1>c DEF Same
    <3> QED
      BY <3>2, <1>c, <2>1 DEF Holding, Verifying
  <2>2. ASSUME NEW u \in Threads, u # t, thread'[u].pc = "first"
        PROVE  /\ thread[u].pc = "first" /\ thread'[u].mine = thread[u].mine
               /\ client'[GraphOf(u)'] = client[GraphOf(u)]
    <3>1. thread'[u] = thread[u]
      BY <1>c, <2>2 DEF Same
    <3>2. GraphOf(u) # GraphOf(t)
      BY <1>c, <2>2, <3>1 DEF LockInv, Inside
    <3> QED
      BY <3>1, <3>2, <1>c, <1>0, <2>2 DEF GraphOf
  <2> QED
    BY <2>1, <2>2
<1>3. ASSUME NEW t \in Threads, Create(t) PROVE HoldingInv'
  <2>1. Moved(t, "first") /\ Stays(t) /\ client' = client /\ lock' = lock
    BY <1>3, StepMoves DEF Create
  <2>2. Inside(t) /\ client[GraphOf(t)] = None /\ thread[t].pc = "locked"
    BY <1>3 DEF Create, Inside
  <2>3. PICK b : /\ b = CHOOSE c \in 1..Bolts : c \notin open
                 /\ open' = open \cup {b} /\ thread'[t].mine = b
    BY <1>3, StepMoves
  <2>4. b \in 1..Bolts /\ b \notin open /\ b # None
    <3>1. \E c \in 1..Bolts : c \notin open
      BY <2>2, FreeBolt
    <3> QED
      BY <2>3, <3>1, ServingAssumption
  <2>5. /\ Holding(GraphOf(t)) = None
        /\ \A g \in Graphs : g = GraphOf(t) => Holding(g)' = b
    <3>1. lock[GraphOf(t)] = t
      BY <2>2 DEF LockInv
    <3>2. Holding(GraphOf(t)) = None
      BY <3>1, <2>2, <1>0 DEF Holding, Verifying
    <3>3. ASSUME NEW g \in Graphs, g = GraphOf(t) PROVE Holding(g)' = b
      BY <3>1, <3>3, <2>1, <2>2, <2>3, <1>0 DEF Holding, Verifying, Moved
    <3> QED
      BY <3>2, <3>3
  <2>6. /\ \A g \in Graphs : g # GraphOf(t) => Holding(g)' = Holding(g)
        /\ \A u \in Threads : u # t /\ thread'[u].pc = "first" =>
             /\ thread[u].pc = "first" /\ thread'[u].mine = thread[u].mine
             /\ client'[GraphOf(u)'] = client[GraphOf(u)]
    BY <1>c, <2>1, <2>2 DEF Moved
  <2>7. GraphOf(t)' = GraphOf(t)
    BY <2>1 DEF Stays, GraphOf
  <2>8. \A g \in Graphs : Holding(g)' = IF g = GraphOf(t) THEN b ELSE Holding(g)
    BY <2>5, <2>6
  <2>9. \A c \in open' : \E g \in Graphs : Holding(g)' = c
    <3> SUFFICES ASSUME NEW c \in open' PROVE \E g \in Graphs : Holding(g)' = c
      OBVIOUS
    <3>1. CASE c = b
      BY <3>1, <2>8, <1>0
    <3>2. CASE c # b
      <4>1. PICK g \in Graphs : Holding(g) = c
        BY <3>2, <2>3 DEF HoldingInv
      <4>2. g # GraphOf(t)
        <5>1. c \in 1..Bolts
          BY <3>2, <2>3 DEF TypeOK
        <5>2. c # None
          BY <5>1, ServingAssumption
        <5> QED
          BY <4>1, <5>2, <2>5
      <4> QED
        BY <4>1, <4>2, <2>8
    <3> QED
      BY <3>1, <3>2
  <2>10. \A g \in Graphs : Holding(g)' # None => Holding(g)' \in open'
    BY <2>3, <2>8 DEF HoldingInv
  <2>11. \A g, h \in Graphs : Holding(g)' = Holding(h)' /\ Holding(g)' # None => g = h
    BY <2>4, <2>8 DEF HoldingInv
  <2>12. \A u \in Threads : thread'[u].pc = "first" =>
           client'[GraphOf(u)'] = None /\ thread'[u].mine # None
    BY <2>1, <2>2, <2>3, <2>4, <2>6, <2>7 DEF HoldingInv
  <2> QED
    BY <2>9, <2>10, <2>11, <2>12 DEF HoldingInv
<1>4. ASSUME NEW t \in Threads, Found(t) PROVE HoldingInv'
  <2>1. Moved(t, "verified") /\ Stays(t) /\ client' = client /\ open' = open
    BY <1>4, StepMoves DEF Found
  <2>2. Inside(t) /\ client[GraphOf(t)] # None
    BY <1>4 DEF Found, Inside
  <2>3. \A g \in Graphs : g # GraphOf(t) => lock'[g] = lock[g] /\ client'[g] = client[g]
    BY <1>4, <2>1 DEF Found, TypeOK
  <2>4. /\ \A g \in Graphs : g # GraphOf(t) => Holding(g)' = Holding(g)
        /\ \A u \in Threads : u # t /\ thread'[u].pc = "first" =>
             /\ thread[u].pc = "first" /\ thread'[u].mine = thread[u].mine
             /\ client'[GraphOf(u)'] = client[GraphOf(u)]
    BY <1>c, <2>1, <2>2, <2>3 DEF Moved
  <2>5. Holding(GraphOf(t))' = Holding(GraphOf(t))
    BY <2>1, <2>2 DEF Holding, GraphOf, Stays
  <2>6. thread'[t].pc # "first"
    BY <2>1 DEF Moved
  <2>7. \A g \in Graphs : Holding(g)' = Holding(g)
    <3> SUFFICES ASSUME NEW g \in Graphs, g = GraphOf(t) PROVE Holding(g)' = Holding(g)
      BY <2>4
    <3>1. client'[g] = client[g] /\ client[g] # None
      BY <2>1, <2>2
    <3> QED
      BY <3>1 DEF Holding
  <2> QED
    BY <2>1, <2>4, <2>6, <2>7, <1>a
<1>5. ASSUME NEW t \in Threads, FirstVerified(t) PROVE HoldingInv'
  <2>1. Moved(t, "verified") /\ Stays(t) /\ open' = open
    BY <1>5, StepMoves DEF FirstVerified
  <2>2. Inside(t) /\ thread[t].pc = "first"
    BY <1>5 DEF FirstVerified, Inside
  <2>3. /\ \A g \in Graphs : g # GraphOf(t) => lock'[g] = lock[g] /\ client'[g] = client[g]
        /\ client'[GraphOf(t)] = thread[t].mine
    BY <1>5, <1>0 DEF FirstVerified, TypeOK
  <2>4. /\ \A g \in Graphs : g # GraphOf(t) => Holding(g)' = Holding(g)
        /\ \A u \in Threads : u # t /\ thread'[u].pc = "first" =>
             /\ thread[u].pc = "first" /\ thread'[u].mine = thread[u].mine
             /\ client'[GraphOf(u)'] = client[GraphOf(u)]
    BY <1>c, <2>1, <2>2, <2>3 DEF Moved
  <2>5. thread[t].mine # None /\ client[GraphOf(t)] = None
    BY <2>2 DEF HoldingInv
  <2>6. Holding(GraphOf(t)) = thread[t].mine
    BY <2>2, <2>5, VerifyingIs DEF Holding
  <2>7. \A g \in Graphs : Holding(g)' = Holding(g)
    <3> SUFFICES ASSUME NEW g \in Graphs, g = GraphOf(t) PROVE Holding(g)' = Holding(g)
      BY <2>4
    <3>1. client'[g] = thread[t].mine /\ client'[g] # None
      BY <2>3, <2>5
    <3> QED
      BY <3>1, <2>6 DEF Holding
  <2>8. thread'[t].pc # "first"
    BY <2>1 DEF Moved
  <2> QED
    BY <2>1, <2>4, <2>7, <2>8, <1>a
<1>6. ASSUME NEW t \in Threads, FirstRefused(t) PROVE HoldingInv'
  <2>1. Moved(t, "error") /\ Stays(t) /\ client' = client /\ open' = open \ {thread[t].mine}
    BY <1>6, StepMoves DEF FirstRefused
  <2>2. Inside(t) /\ thread[t].pc = "first"
    BY <1>6 DEF FirstRefused, Inside
  <2>3. /\ \A g \in Graphs : g # GraphOf(t) => lock'[g] = lock[g] /\ client'[g] = client[g]
        /\ lock'[GraphOf(t)] = None
    BY <1>6, <1>0, <2>1 DEF FirstRefused, TypeOK
  <2>4. /\ \A g \in Graphs : g # GraphOf(t) => Holding(g)' = Holding(g)
        /\ \A u \in Threads : u # t /\ thread'[u].pc = "first" =>
             /\ thread[u].pc = "first" /\ thread'[u].mine = thread[u].mine
             /\ client'[GraphOf(u)'] = client[GraphOf(u)]
    BY <1>c, <2>1, <2>2, <2>3 DEF Moved
  <2>5. thread[t].mine # None /\ client[GraphOf(t)] = None
    BY <2>2 DEF HoldingInv
  <2>6. Holding(GraphOf(t)) = thread[t].mine
    BY <2>2, <2>5, VerifyingIs DEF Holding
  <2>7. \A g \in Graphs : Holding(g)' = IF g = GraphOf(t) THEN None ELSE Holding(g)
    <3> SUFFICES ASSUME NEW g \in Graphs, g = GraphOf(t) PROVE Holding(g)' = None
      BY <2>4
    <3>1. client'[g] = None /\ lock'[g] = None
      BY <2>1, <2>3, <2>5
    <3> QED
      BY <3>1 DEF Holding, Verifying
  <2>8. \A c \in open' : \E g \in Graphs : Holding(g)' = c
    BY <2>1, <2>6, <2>7 DEF HoldingInv
  <2>9. \A g \in Graphs : Holding(g)' # None => Holding(g)' \in open'
    BY <2>1, <2>6, <2>7, <1>0 DEF HoldingInv
  <2>10. \A g, h \in Graphs : Holding(g)' = Holding(h)' /\ Holding(g)' # None => g = h
    BY <2>7 DEF HoldingInv
  <2>11. \A u \in Threads : thread'[u].pc = "first" =>
           client'[GraphOf(u)'] = None /\ thread'[u].mine # None
    <3>1. thread'[t].pc # "first"
      BY <2>1 DEF Moved
    <3> QED
      BY <3>1, <2>4 DEF HoldingInv
  <2> QED
    BY <2>8, <2>9, <2>10, <2>11 DEF HoldingInv
<1>7. ASSUME NEW v, Activate(v) PROVE HoldingInv'
  BY <1>7 DEF Activate, HoldingInv, Holding, Verifying, GraphOf
<1>8. ASSUME NEW g, NEW v, Replace(g, v) PROVE HoldingInv'
  <2>1. \A u \in Threads : /\ thread'[u].pc = thread[u].pc /\ thread'[u].n = thread[u].n
                          /\ thread'[u].mine = thread[u].mine
    BY <1>8 DEF Replace, TypeOK, Request
  <2>2. lock' = lock /\ client' = client /\ open' = open
    BY <1>8 DEF Replace
  <2>3. \A h \in Graphs : Holding(h)' = Holding(h)
    BY <2>1, <2>2, <1>0 DEF Holding, Verifying
  <2> QED
    BY <2>1, <2>2, <2>3, <1>a DEF GraphOf
<1>9. CASE Exit
  <2>1. \A t \in Threads : thread[t].pc = "quiet" /\ thread' = thread
    BY <1>9 DEF Exit
  <2>2. \A g \in Graphs : ~Verifying(g) /\ ~Verifying(g)' /\ client'[g] = None
    BY <2>1, <1>0, <1>9 DEF Verifying, Exit
  <2>3. \A g \in Graphs : Holding(g)' = None /\ Holding(g) = client[g]
    BY <2>2 DEF Holding
  <2>4. open' = {}
    <3> SUFFICES ASSUME NEW b \in open PROVE b \in {client[g] : g \in handles}
      BY <1>9 DEF Exit
    <3>1. PICK g \in Graphs : client[g] = b
      BY <2>3 DEF HoldingInv
    <3>2. b # None
      BY ServingAssumption DEF TypeOK
    <3> QED
      BY <3>1, <3>2 DEF HandlesInv
  <2>5. \A t \in Threads : thread'[t].pc # "first"
    BY <2>1
  <2> QED
    BY <2>3, <2>4, <2>5 DEF HoldingInv
<1>10. CASE KillServer
  <2>1. \A t \in Threads : thread'[t].pc = "quiet"
    BY <1>10, QuietType DEF KillServer
  <2>2. \A g \in Graphs : Holding(g)' = None
    BY <1>10 DEF KillServer, Holding, Verifying
  <2>3. open' = {}
    BY <1>10 DEF KillServer
  <2> QED
    BY <2>1, <2>2, <2>3 DEF HoldingInv
<1>11. CASE UNCHANGED vars
  BY <1>11 DEF vars, HoldingInv, Holding, Verifying, GraphOf
<1> QED
  BY <1>1, <1>2, <1>3, <1>4, <1>5, <1>6, <1>7, <1>8, <1>9, <1>10, <1>11 DEF Next, Step

-----------------------------------------------------------------------------
LEMMA HandlesStep == TypeOK /\ LockInv /\ HandlesInv /\ [Next]_vars => HandlesInv'
<1> SUFFICES ASSUME TypeOK, LockInv, HandlesInv, [Next]_vars PROVE HandlesInv'
  OBVIOUS
<1>0. \A t \in Threads : GraphOf(t) \in Graphs
  BY GraphOfType
<1>1. ASSUME NEW t \in Threads, GetHandle(t) PROVE HandlesInv'
  <2>1. Stays(t) /\ \A u \in Threads : Same(t, u)
    BY <1>1, StepMoves DEF Moved
  <2>2. \A u \in Threads : GraphOf(u)' = GraphOf(u)
    BY <2>1 DEF Same, Stays, GraphOf
  <2> QED
    BY <1>1, <2>1, <2>2 DEF GetHandle, HandlesInv, Inside, Same
<1>2. ASSUME NEW t \in Threads, Step(t), ~GetHandle(t) PROVE HandlesInv'
  <2>1. handles' = handles /\ \A u \in Threads : Same(t, u)
    BY <1>2, StepMoves
       DEF Step, Lock, Create, Found, FirstVerified, FirstRefused, Verify, NextHandle, Read, shared, Moved
  <2>2. thread'[t].pc = "wait" \/ Inside(t)' => /\ thread[t].pc = "wait" \/ Inside(t)
                                              /\ GraphOf(t)' = GraphOf(t)
    BY <1>2, StepMoves DEF Step, Lock, Create, Moved, Stays, Inside, GraphOf
  <2>3. \A g \in Graphs : client'[g] = client[g] \/ (Inside(t) /\ g = GraphOf(t))
    BY <1>2, <1>0 DEF Step, Lock, Create, Found, FirstVerified, FirstRefused, Verify, NextHandle, Read,
                      shared, Inside, TypeOK
  <2> QED
    BY <2>1, <2>2, <2>3 DEF HandlesInv, Same, Inside, GraphOf
<1>3. ASSUME NEW t \in Threads, Begin(t) \/ Return(t) PROVE HandlesInv'
  <2>1. handles' = handles /\ client' = client
    BY <1>3 DEF Begin, Return, shared
  <2>2. (\A u \in Threads : Same(t, u)) /\ thread'[t].pc \in {"handle", "quiet"}
    BY <1>3, BeginMoves, QuietType
  <2> QED
    BY <2>1, <2>2 DEF HandlesInv, Same, Inside, GraphOf
<1>4. ASSUME NEW v, Activate(v) PROVE HandlesInv'
  BY <1>4 DEF Activate, HandlesInv, Inside, GraphOf
<1>5. ASSUME NEW g, NEW v, Replace(g, v) PROVE HandlesInv'
  <2>1. \A u \in Threads : thread'[u].pc = thread[u].pc /\ thread'[u].n = thread[u].n
    BY <1>5 DEF Replace, TypeOK, Request
  <2>2. handles' = handles /\ client' = client
    BY <1>5 DEF Replace
  <2>3. \A u \in Threads : GraphOf(u)' = GraphOf(u) /\ (Inside(u)' <=> Inside(u))
    BY <2>1 DEF GraphOf, Inside
  <2> QED
    BY <2>1, <2>2, <2>3 DEF HandlesInv
<1>6. CASE Exit \/ KillServer
  BY <1>6, QuietType DEF Exit, KillServer, HandlesInv, Inside
<1>7. CASE UNCHANGED vars
  BY <1>7 DEF vars, HandlesInv, Inside, GraphOf
<1> QED
  BY <1>1, <1>2, <1>3, <1>4, <1>5, <1>6, <1>7 DEF Next

LEMMA PinnedStep == TypeOK /\ LockInv /\ HoldingInv /\ PinnedInv /\ [Next]_vars => PinnedInv'
<1> SUFFICES ASSUME TypeOK, LockInv, HoldingInv, PinnedInv, [Next]_vars PROVE PinnedInv'
  OBVIOUS
<1>0. \A t \in Threads : GraphOf(t) \in Graphs /\ thread[t].n \in 1 .. Len(Order)
  BY GraphOfType
<1>d. DOMAIN Order = 1 .. Len(Order) /\ Len(Order) \in Nat /\ Graphs # {}
  BY OrderIs
(* The requests of the other threads, while no backend and no client moves.  *)
<1>a. ASSUME NEW u \in Threads, thread'[u] = thread[u], backend' = backend, client' = client,
             pinned # None => pinned' = pinned
      PROVE  Knows(u)'
  BY <1>a DEF PinnedInv, Knows, Verified, Earlier, Current, GraphOf
(* A request that goes on and learns nothing.                                *)
<1>b. ASSUME NEW t \in Threads, NEW pc, thread[t].pc # "quiet", Stays(t), Moved(t, pc),
             pc \notin {"quiet", "read", "answer"}, pinned' = pinned, backend' = backend,
             pc # "error" => /\ thread[t].pc \notin {"answer", "error"}
                             /\ Verified(t)' \subseteq Verified(t)
      PROVE  Knows(t)'
  BY <1>b DEF PinnedInv, Knows, Moved
<1>1. ASSUME NEW t \in Threads, Begin(t) PROVE PinnedInv'
  <2>1. backend' = backend /\ client' = client /\ (pinned # None => pinned' = pinned)
    BY <1>1 DEF Begin
  <2>2. pinned' # None
    BY <1>1, ServingAssumption DEF Begin, TypeOK
  <2>3. /\ \A u \in Threads : Same(t, u)
        /\ thread'[t].pc = "handle" /\ thread'[t].n = 1 /\ thread'[t].reg = pinned'
    BY <1>1, BeginMoves
  <2>4. Verified(t)' = {}
    BY <2>3 DEF Verified, Earlier, Current
  <2>5. Knows(t)'
    BY <2>2, <2>3, <2>4 DEF Knows
  <2> QED
    BY <2>1, <2>3, <2>5, <1>a DEF PinnedInv, Same
<1>2. ASSUME NEW t \in Threads, GetHandle(t) \/ Lock(t) \/ Create(t) \/ Found(t) \/ FirstRefused(t)
      PROVE  PinnedInv'
  <2>1. backend' = backend /\ client' = client /\ pinned' = pinned
    BY <1>2 DEF GetHandle, Lock, Create, Found, FirstRefused
  <2>2. Stays(t) /\ \A u \in Threads : Same(t, u)
    BY <1>2, StepMoves DEF Moved
  <2>3. PICK pc : /\ Moved(t, pc) /\ pc \notin {"quiet", "read", "answer"}
                  /\ pc \in {"verified", "locked"} => thread[t].pc \in {"wait", "locked"}
                  /\ pc = "verified" => client[GraphOf(t)] # None
                  /\ pc = "wait" => client[GraphOf(t)] = None
    BY <1>2, StepMoves DEF Found, Lock
  <2>4. thread[t].pc \in {"handle", "wait", "locked", "first"}
    BY <1>2 DEF GetHandle, Lock, Create, Found, FirstRefused
  <2>5. thread'[t].pc = pc /\ thread'[t].n = thread[t].n /\ GraphOf(t)' = GraphOf(t)
    BY <2>2, <2>3 DEF Moved, Stays, GraphOf
  <2>6. Verified(t)' \subseteq Verified(t)
    <3>1. Earlier(t)' = Earlier(t)
      BY <2>5 DEF Earlier
    <3>2. client'[GraphOf(t)'] = client[GraphOf(t)]
      BY <2>1, <2>5
    <3>3. Current(t)' => Current(t)
      BY <3>2, <2>3, <2>5 DEF Current
    <3> QED
      BY <3>1, <3>3, <2>5 DEF Verified
  <2>7. Knows(t)'
    BY <2>1, <2>2, <2>3, <2>4, <2>6, <1>b
  <2> QED
    BY <2>1, <2>2, <2>7, <1>a DEF PinnedInv, Same
<1>3. ASSUME NEW t \in Threads, FirstVerified(t) PROVE PinnedInv'
  <2>1. /\ backend' = backend /\ pinned' = pinned /\ thread[t].pc = "first"
        /\ client' = [client EXCEPT ![GraphOf(t)] = thread[t].mine]
        /\ backend[GraphOf(t)] = thread[t].reg
    BY <1>3 DEF FirstVerified, Matches
  <2>2. Stays(t) /\ Moved(t, "verified")
    BY <1>3, StepMoves
  <2>3. thread[t].reg = pinned /\ pinned # None
    BY <2>1 DEF PinnedInv, Knows
  <2>4. GraphOf(t)' = GraphOf(t)
    BY <2>2 DEF Stays, GraphOf
  <2>5. Knows(t)'
    <3>1. Verified(t)' \subseteq Verified(t) \cup {GraphOf(t)}
      BY <2>2, <2>4 DEF Verified, Earlier, Current, Stays
    <3>2. ~thread[t].disturbed => \A g \in Verified(t)' : backend[g] = pinned
      BY <3>1, <2>1, <2>3 DEF PinnedInv, Knows
    <3> QED
      BY <3>2, <2>1, <2>2, <2>3 DEF Knows, Moved
  <2>6. ASSUME NEW u \in Threads, u # t PROVE Knows(u)'
    <3>1. thread'[u] = thread[u] /\ GraphOf(u)' = GraphOf(u)
      BY <2>2, <2>6 DEF Moved, Same, GraphOf
    <3>2. \A g \in Graphs : g # GraphOf(t) => client'[g] = client[g]
      BY <2>1 DEF TypeOK
    <3>3. Verified(u)' \subseteq Verified(u) \cup {GraphOf(t)}
      BY <3>1, <3>2, <1>0 DEF Verified, Earlier, Current
    <3> QED
      BY <3>1, <3>3, <2>1, <2>3 DEF PinnedInv, Knows
  <2> QED
    BY <2>5, <2>6 DEF PinnedInv
<1>4. ASSUME NEW t \in Threads, Verify(t) PROVE PinnedInv'
  <2>1. backend' = backend /\ client' = client /\ pinned' = pinned /\ thread[t].pc = "verify"
    BY <1>4 DEF Verify, shared
  <2>2. Stays(t) /\ \A u \in Threads : Same(t, u)
    BY <1>4, StepMoves DEF Moved
  <2>3. Knows(t)'
    <3>1. CASE Moved(t, "error")
      BY <3>1, <2>1, <2>2, <1>b
    <3>2. CASE Moved(t, "verified") /\ Matches(t)
      <4>1. Verified(t)' \subseteq Verified(t) \cup {GraphOf(t)}
        BY <3>2, <2>1, <2>2 DEF Verified, Earlier, Current, Stays, GraphOf
      <4>2. thread[t].reg = pinned /\ pinned # None /\ backend[GraphOf(t)] = pinned
        BY <3>2, <2>1 DEF PinnedInv, Knows, Matches
      <4>3. ~thread[t].disturbed => \A g \in Verified(t)' : backend[g] = pinned
        BY <4>1, <4>2, <2>1 DEF PinnedInv, Knows
      <4> QED
        BY <4>2, <4>3, <3>2, <2>1 DEF Knows, Moved
    <3> QED
      BY <3>1, <3>2, <1>4, StepMoves
  <2> QED
    BY <2>1, <2>2, <2>3, <1>a DEF PinnedInv, Same
<1>5. ASSUME NEW t \in Threads, NextHandle(t) PROVE PinnedInv'
  <2>1. backend' = backend /\ client' = client /\ pinned' = pinned /\ thread[t].pc = "verified"
    BY <1>5 DEF NextHandle, shared
  <2>2. Verified(t) = {Order[m] : m \in 1 .. thread[t].n}
    BY <2>1, <1>0 DEF Verified, Earlier, Current, GraphOf
  <2>3. thread[t].reg = pinned /\ pinned # None
        /\ (~thread[t].disturbed => \A g \in Verified(t) : backend[g] = pinned)
    BY <2>1 DEF PinnedInv, Knows
  <2>4. CASE Stays(t) /\ thread[t].n = Len(Order) /\ Moved(t, "read")
    <3>1. Verified(t)' = Verified(t)
      BY <2>1, <2>4 DEF Verified, Earlier, Current, Moved, Stays, GraphOf
    <3>2. Knows(t)'
      BY <3>1, <2>1, <2>3, <2>4 DEF Knows, Moved, Stays
    <3> QED
      BY <3>2, <2>1, <2>4, <1>a DEF PinnedInv, Moved, Same
  <2>5. CASE thread'[t].n = thread[t].n + 1 /\ Moved(t, "handle")
    <3>1. Verified(t)' = {Order[m] : m \in 1 .. thread[t].n}
      BY <2>5, <1>0 DEF Verified, Earlier, Current, Moved
    <3>2. Knows(t)'
      BY <3>1, <2>1, <2>2, <2>3, <2>5 DEF Knows, Moved
    <3> QED
      BY <3>2, <2>1, <2>5, <1>a DEF PinnedInv, Moved, Same
  <2> QED
    BY <2>4, <2>5, <1>5, StepMoves
<1>6. ASSUME NEW t \in Threads, Read(t) PROVE PinnedInv'
  <2>1. backend' = backend /\ client' = client /\ pinned' = pinned /\ thread[t].pc = "read"
    BY <1>6 DEF Read, shared
  <2>2. thread[t].reg = pinned /\ pinned # None /\ thread[t].n = Len(Order)
        /\ (~thread[t].disturbed => \A g \in Verified(t) : backend[g] = pinned)
    BY <2>1 DEF PinnedInv, Knows
  <2>3. Verified(t) = Graphs
    BY <2>1, <2>2, <1>0, <1>d DEF Verified, Earlier, Current, GraphOf, Graphs
  <2>4. CASE Stays(t) /\ Moved(t, "answer") /\ thread'[t].data = {backend[g] : g \in Graphs}
    <3>1. ~thread[t].disturbed => thread'[t].data = {pinned}
      BY <2>2, <2>3, <2>4, <1>d
    <3>2. Knows(t)'
      BY <3>1, <2>1, <2>2, <2>4 DEF Knows, Moved
    <3> QED
      BY <3>2, <2>1, <2>4, <1>a DEF PinnedInv, Moved, Same
  <2>5. CASE Stays(t) /\ Moved(t, "error")
    <3>1. Knows(t)'
      BY <2>1, <2>5, <1>b
    <3> QED
      BY <3>1, <2>1, <2>5, <1>a DEF PinnedInv, Moved, Same
  <2> QED
    BY <2>4, <2>5, <1>6, StepMoves
<1>7. ASSUME NEW t \in Threads, Return(t) PROVE PinnedInv'
  <2>1. backend' = backend /\ client' = client /\ pinned' = pinned
    BY <1>7 DEF Return, shared
  <2>2. (\A u \in Threads : Same(t, u)) /\ thread'[t].pc = "quiet"
    BY <1>7, BeginMoves, QuietType
  <2>3. Knows(t)'
    BY <2>2 DEF Knows
  <2> QED
    BY <2>1, <2>2, <2>3, <1>a DEF PinnedInv, Same
<1>8. ASSUME NEW v, Activate(v) PROVE PinnedInv'
  BY <1>8, <1>a DEF Activate, PinnedInv
<1>9. ASSUME NEW g, NEW v, Replace(g, v) PROVE PinnedInv'
  <2> SUFFICES ASSUME NEW t \in Threads PROVE Knows(t)'
    BY DEF PinnedInv
  <2>1. /\ thread'[t].pc = thread[t].pc /\ thread'[t].reg = thread[t].reg
        /\ thread'[t].n = thread[t].n /\ thread'[t].disturbed = (thread[t].pc # "quiet")
    BY <1>9 DEF Replace, TypeOK, Request
  <2>2. pinned' = pinned
    BY <1>9 DEF Replace
  <2> QED
    BY <2>1, <2>2 DEF PinnedInv, Knows
<1>10. CASE Exit \/ KillServer
  <2>1. \A t \in Threads : thread'[t].pc = "quiet"
    BY <1>10, QuietType DEF Exit, KillServer
  <2> QED
    BY <2>1 DEF PinnedInv, Knows
<1>11. CASE UNCHANGED vars
  BY <1>11, <1>a DEF vars, PinnedInv
<1> QED
  BY <1>1, <1>2, <1>3, <1>4, <1>5, <1>6, <1>7, <1>8, <1>9, <1>10, <1>11 DEF Next, Step

-----------------------------------------------------------------------------
LEMMA ServingStep == ServingInv /\ [Next]_vars => ServingInv'
BY TypeStep, LockStep, HoldingStep, HandlesStep, PinnedStep DEF ServingInv

LEMMA ServingInvariant == Spec => []ServingInv
BY ServingInit, ServingStep, PTL DEF Spec

(* The state of the server stays well formed; above all, who makes a client
   under the lock of a handle always finds one that nobody has open
   (graph_registry.py:91-99).                                                *)
THEOREM TypeCorrect == Spec => []TypeOK
<1>1. ServingInv => TypeOK
  BY DEF ServingInv
<1> QED
  BY <1>1, ServingInvariant, PTL

(* However many threads, graphs and registries there are: every request that
   is under way has the registry that the process pinned, and an answer which
   no replacement overtook is of that registry's generations, also when the
   client was made and verified by another thread while this one waited for
   the lock (federation.py:37-55, graph_registry.py:82-133).                 *)
THEOREM PinnedAnswers == Spec => []AnswersFromPinnedRegistry
<1>1. ServingInv => AnswersFromPinnedRegistry
  BY DEF ServingInv, PinnedInv, Knows, AnswersFromPinnedRegistry
<1> QED
  BY <1>1, ServingInvariant, PTL

(* No interleaving of the unlocked first tests, the locked second tests, the
   failures, exits and kills leaves a client open that no handle has and no
   thread is verifying (graph_registry.py:82-105).                           *)
THEOREM NoClientLost == Spec => []OneClientPerHandle
<1>1. ServingInv => OneClientPerHandle
  <2> SUFFICES ASSUME ServingInv, NEW b \in open
               PROVE  \/ Owner(b) # {}
                      \/ \E t \in Threads : /\ thread[t].pc = "first" /\ thread[t].mine = b
                                            /\ lock[GraphOf(t)] = t /\ client[GraphOf(t)] = None
    BY DEF OneClientPerHandle
  <2>1. PICK g \in Graphs : Holding(g) = b
    BY DEF ServingInv, HoldingInv
  <2>2. b # None
    BY ServingAssumption DEF ServingInv, TypeOK
  <2>3. CASE client[g] # None
    BY <2>1, <2>3 DEF Holding, Owner
  <2>4. CASE client[g] = None
    <3>1. Verifying(g) /\ thread[lock[g]].mine = b
      BY <2>1, <2>2, <2>4 DEF Holding
    <3>2. lock[g] \in Threads /\ GraphOf(lock[g]) = g /\ thread[lock[g]].pc = "first"
      BY <3>1, VerifyingIs DEF ServingInv
    <3> QED
      BY <3>1, <3>2, <2>4
  <2> QED
    BY <2>3, <2>4
<1> QED
  BY <1>1, ServingInvariant, PTL

(* A handle's client is open and its own, and one thread is inside a handle.  *)
ClientsUsable ==
  /\ \A g \in Graphs : client[g] # None => client[g] \in open
  /\ \A g, h \in Graphs : client[g] = client[h] /\ client[g] # None => g = h
  /\ \A t, u \in Threads : Inside(t) /\ Inside(u) /\ GraphOf(t) = GraphOf(u) => t = u

(* What a handle has is usable: no thread that fails closes a client which a
   handle already gave out, no two handles share one, and of the threads that
   reach _ensure_client for one handle only one at a time is inside
   (graph_registry.py:86-105).                                               *)
THEOREM ClientsStayUsable == Spec => []ClientsUsable
<1>1. ServingInv => ClientsUsable
  <2> SUFFICES ASSUME ServingInv PROVE ClientsUsable
    OBVIOUS
  <2>1. \A g \in Graphs : client[g] # None => Holding(g) = client[g]
    BY DEF Holding
  <2>2. \A t, u \in Threads : Inside(t) /\ Inside(u) /\ GraphOf(t) = GraphOf(u) => t = u
    BY DEF ServingInv, LockInv
  <2> QED
    BY <2>1, <2>2 DEF ServingInv, HoldingInv, ClientsUsable
<1> QED
  BY <1>1, ServingInvariant, PTL

(* However often handles are made, refused and closed, a process has at most
   one connection pool per graph open (graph_registry.py:65-146).            *)
THEOREM ClientsBounded == Spec => [](IsFiniteSet(open) /\ Cardinality(open) <= Cardinality(Graphs))
<1>1. ServingInv => IsFiniteSet(open) /\ Cardinality(open) <= Cardinality(Graphs)
  <2> SUFFICES ASSUME ServingInv
               PROVE  IsFiniteSet(open) /\ Cardinality(open) <= Cardinality(Graphs)
    OBVIOUS
  <2> DEFINE of == [b \in open |-> CHOOSE g \in Graphs : Holding(g) = b]
  <2>1. \A b \in open : of[b] \in Graphs /\ Holding(of[b]) = b
    BY DEF ServingInv, HoldingInv
  <2>2. of \in [open -> Graphs] /\ \A a, b \in open : of[a] = of[b] => a = b
    BY <2>1
  <2>3. of \in Injection(open, Graphs)
    <3> HIDE DEF of
    <3> QED
      BY <2>2 DEF Injection, IsInjective
  <2> HIDE DEF of
  <2> QED
    BY <2>3, GraphsFinite, FS_Injection
<1> QED
  BY <1>1, ServingInvariant, PTL
=============================================================================
