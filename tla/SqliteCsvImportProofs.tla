----------------------- MODULE SqliteCsvImportProofs -----------------------
(***************************************************************************)
(* Theorems about SqliteCsvImport, for any tables, rows and damage to the  *)
(* dump: what the three actors may rely on, for which the rows do not      *)
(* matter and of the stage nothing is said but that it is some value; then *)
(* what becomes of the rows, and that the import is atomic.                *)
(***************************************************************************)
EXTENDS SqliteCsvImport, DataProofs

ChildSteps == {"none", "import", "loaded", "read", "transaction", "committed", "printed",
               "exited"}

Shape ==
  /\ parent \in [pc : ParentSteps, answer : {"none", "ok", "failed"}]
  /\ child \in [pc : ChildSteps, ok : BOOLEAN, stage : {child.stage}, trailer : BOOLEAN,
                clean : BOOLEAN, committed : BOOLEAN]
  /\ monitor \in Monitor
  /\ stdout \in Seq(Markers)
  /\ stderr \in BOOLEAN

(* The child is there from StartSqlite until it exits, and does not come
   back; whoever is past the stopping has seen it exit.                     *)
ChildInv ==
  /\ Shape
  /\ parent.pc \in {"open", "sort", "start"} => child.pc = "none" /\ control = "none"
  /\ parent.pc \in {"watch", "wait", "send", "drain"} => child.pc # "none"
  /\ parent.pc \in {"close", "done"} => ~Alive

LEMMA ChildInit == Init => ChildInv
<1> SUFFICES ASSUME Init PROVE ChildInv
  OBVIOUS
<1>1. child.stage = <<>> /\ stdout = <<>> /\ <<>> \in Seq(Markers)
  BY DEF Init
<1>2. Shape
  BY <1>1 DEF Init, Shape, ParentSteps, ChildSteps, Monitor
<1> QED
  BY <1>2 DEF Init, ChildInv, Alive

(* The calling thread, and what it does to the child.                       *)
Calling ==
  (\E r \in Row : Write(r)) \/ Finish \/ AbortOpen \/ Finishing \/ Fail \/ ParentKilled

LEMMA CallingMoves ==
  ASSUME Shape, Calling
  PROVE  Shape' /\ UNCHANGED Output
<1>1. (\E pc \in ParentSteps : Goto(pc)) \/ UNCHANGED parent \/ End("ok") \/ End("failed")
  BY DEF Calling, Write, Finish, AbortOpen, Finishing, Fail, ParentKilled, SortDump,
         StartSqlite, StartMonitor, AwaitReady, SendSql, Drain, StopChild, Terminated, KillChild, CloseAll,
         ParentSteps
<1>2. parent' \in [pc : ParentSteps, answer : {"none", "ok", "failed"}]
  BY <1>1 DEF Shape, Goto, End, ParentSteps
<1>3. /\ UNCHANGED Output
      /\ UNCHANGED child \/ StartSqlite \/ KillChild
      /\ UNCHANGED monitor \/ StartMonitor \/ ParentKilled
  BY DEF Calling, Write, Finish, AbortOpen, Finishing, Fail, ParentKilled, SortDump,
         StartSqlite, StartMonitor, AwaitReady, SendSql, Drain, StopChild, Terminated, KillChild, CloseAll
<1>4. child' \in [pc : ChildSteps, ok : BOOLEAN, stage : {child'.stage}, trailer : BOOLEAN,
                  clean : BOOLEAN, committed : BOOLEAN]
  BY <1>3 DEF Shape, StartSqlite, KillChild, ChildSteps
<1>5. monitor' \in Monitor
  BY <1>3 DEF Shape, StartMonitor, ParentKilled, Monitor
<1> QED
  BY <1>2, <1>3, <1>4, <1>5 DEF Shape, Output

LEMMA SqliteMoves ==
  ASSUME Shape, Sqlite \/ ChildFails \/ ChildWarns
  PROVE  /\ Shape'
         /\ child.pc \notin {"none", "exited"}
         /\ child'.clean = child.clean \/ child.pc = "loaded"
         /\ child'.pc \notin {"none", "import"} \/ child' = child
         /\ UNCHANGED <<parent, control, monitor>>
<1>1. UNCHANGED <<parent, control, monitor>>
  BY DEF Sqlite, Import, PrintMarker, ReadSql, Transaction, Rollback, Exit, ChildFails, ChildWarns
<1>2. /\ child' \in [pc : ChildSteps, ok : BOOLEAN, stage : {child'.stage}, trailer : BOOLEAN,
                     clean : BOOLEAN, committed : BOOLEAN]
      /\ child.pc \notin {"none", "exited"}
      /\ child'.clean = child.clean \/ child.pc = "loaded"
      /\ child'.pc \notin {"none", "import"} \/ child' = child
  <2>1. CASE Import
    BY <2>1 DEF Shape, Import, ChildSteps
  <2>2. CASE PrintMarker \/ ReadSql
    BY <2>2 DEF Shape, PrintMarker, ReadSql, ChildGoto, ChildSteps
  <2>3. CASE Transaction \/ Rollback \/ Exit \/ ChildFails \/ ChildWarns
    BY <2>3 DEF Shape, Transaction, Rollback, Exit, ChildFails, ChildWarns, ChildSteps, Alive
  <2> QED
    BY <2>1, <2>2, <2>3 DEF Sqlite
<1>3. stdout' \in Seq(Markers) /\ stderr' \in BOOLEAN
  <2>1. stdout' \in {stdout, Append(stdout, "READY"), Append(stdout, "SUCCESS")}
    BY DEF Sqlite, Import, PrintMarker, ReadSql, Transaction, Rollback, Exit, ChildFails,
           ChildWarns, Output
  <2>2. stderr' \in {stderr, TRUE}
    BY DEF Sqlite, Import, PrintMarker, ReadSql, Transaction, Rollback, Exit, ChildFails,
           ChildWarns, Output
  <2>3. \A l \in Markers : Append(stdout, l) \in Seq(Markers)
    BY DEF Shape
  <2>4. stdout' \in Seq(Markers)
    BY <2>1, <2>3 DEF Shape, Markers
  <2> QED
    BY <2>2, <2>4 DEF Shape
<1> QED
  BY <1>1, <1>2, <1>3 DEF Shape

LEMMA WatchingMoves ==
  ASSUME Shape, Watching \/ MonitorFails
  PROVE  Shape' /\ UNCHANGED <<parent, child, control, Output>>
<1>1. UNCHANGED <<parent, child, control, Output>>
  BY DEF Watching, AcceptReady, EndOfOutput, MonitorFails
<1>2. monitor' \in Monitor
  <2>1. (stdout # <<"READY">> \/ stderr) \in BOOLEAN
    BY DEF Shape
  <2> QED
    BY <2>1 DEF Shape, Watching, AcceptReady, EndOfOutput, MonitorFails, Monitor
<1> QED
  BY <1>1, <1>2 DEF Shape, Output

LEMMA ChildStep == ChildInv /\ [Next]_vars => ChildInv'
<1> SUFFICES ASSUME ChildInv, [Next]_vars PROVE ChildInv'
  OBVIOUS
<1>0. Shape
  BY DEF ChildInv
<1>1. CASE Calling
  <2>1. Shape'
    BY <1>0, <1>1, CallingMoves
  <2>2. CASE (\E r \in Row : Write(r)) \/ Finish \/ AbortOpen \/ Fail \/ ParentKilled
    BY <2>1, <2>2 DEF ChildInv, Shape, Alive, Write, Finish, AbortOpen, Fail, ParentKilled,
                      Goto, End, Hangup
  <2>3. CASE SortDump \/ StartSqlite \/ StartMonitor \/ AwaitReady \/ SendSql \/ Drain
    BY <2>1, <2>3 DEF ChildInv, Shape, Alive, SortDump, StartSqlite, StartMonitor, AwaitReady, SendSql, Drain,
                      Goto, End
  <2>4. CASE StopChild
    BY <2>1, <2>4 DEF ChildInv, Shape, Alive, StopChild, Goto
  <2>5. CASE Terminated \/ CloseAll
    BY <2>1, <2>5 DEF ChildInv, Shape, Alive, Terminated, CloseAll, Goto, End
  <2>6. CASE KillChild
    <3>1. child'.pc = "exited" /\ parent'.pc = "close"
      BY <1>0, <2>6 DEF KillChild, Shape, Goto
    <3> QED
      BY <2>1, <3>1 DEF ChildInv, Alive
  <2> QED
    BY <1>1, <2>2, <2>3, <2>4, <2>5, <2>6 DEF Calling, Finishing
<1>2. CASE Sqlite \/ ChildFails \/ ChildWarns
  BY <1>0, <1>2, SqliteMoves DEF ChildInv, Alive
<1>3. CASE Watching \/ MonitorFails
  BY <1>0, <1>3, WatchingMoves DEF ChildInv, Alive
<1>4. CASE UNCHANGED vars
  BY <1>4 DEF vars, ChildInv, Shape, Alive
<1> QED
  BY <1>1, <1>2, <1>3, <1>4 DEF Next, Calling

(* When finish or abort is over, the child is over.                         *)
THEOREM NoChild == Spec => []NoChildLeft
<1>1. ChildInv => NoChildLeft
  BY DEF ChildInv, NoChildLeft
<1> QED
  BY <1>1, ChildInit, ChildStep, PTL DEF Spec

-----------------------------------------------------------------------------
(***************************************************************************)
(* The barrier.  SQL is sent on the monitor's word; its word is good       *)
(* because a child that complained before READY has done so on stderr by   *)
(* the time READY can be read, and what is on stderr stays there.          *)
(***************************************************************************)

BarrierInv ==
  /\ ChildInv
  /\ child.pc \in {"none", "import", "loaded"} => stdout = <<>>
  /\ child.pc \in {"read", "transaction", "committed", "printed"} => child.clean \/ stderr
  /\ stdout # <<>> => child.clean \/ stderr
  /\ child.clean => stdout # <<>>
  /\ monitor.ready /\ ~monitor.error => child.clean
  /\ SqlAfterBarrier

LEMMA BarrierInit == Init => BarrierInv
BY ChildInit DEF Init, BarrierInv, SqlAfterBarrier

LEMMA BarrierStep == BarrierInv /\ [Next]_vars => BarrierInv'
<1> SUFFICES ASSUME BarrierInv, [Next]_vars PROVE BarrierInv'
  OBVIOUS
<1>0. ChildInv /\ ChildInv' /\ Shape /\ Shape'
  BY ChildStep DEF BarrierInv, ChildInv
<1>1. CASE Calling
  <2>1. stdout' = stdout /\ stderr' = stderr
    BY <1>0, <1>1, CallingMoves DEF Output
  <2>2. CASE (\E r \in Row : Write(r)) \/ Finish \/ AbortOpen \/ Fail \/ ParentKilled
    BY <1>0, <2>1, <2>2 DEF BarrierInv, SqlAfterBarrier, Shape, Monitor, Write, Finish,
       AbortOpen, Fail, ParentKilled, Goto, End, Hangup
  <2>3. CASE SortDump \/ AwaitReady \/ SendSql \/ Drain
    BY <1>0, <2>1, <2>3 DEF BarrierInv, SqlAfterBarrier, Shape, Monitor, SortDump, AwaitReady,
       SendSql, Drain, Goto, End
  <2>4. CASE StartSqlite \/ StartMonitor
    BY <1>0, <2>1, <2>4 DEF BarrierInv, ChildInv, SqlAfterBarrier, Shape, Monitor, StartSqlite,
       StartMonitor, Goto
  <2>5. CASE StopChild \/ Terminated \/ KillChild \/ CloseAll
    <3>1. /\ parent'.pc # "send"
          /\ control' \in {"partial", "whole"} => control' = control
          /\ monitor' = monitor
      BY <1>0, <2>5 DEF Shape, StopChild, Terminated, KillChild, CloseAll, Goto, End, Hangup
    <3>2. child' = child \/ (child'.pc = "exited" /\ child'.clean = child.clean)
      BY <1>0, <2>5 DEF Shape, StopChild, Terminated, KillChild, CloseAll
    <3> QED
      BY <1>0, <2>1, <3>1, <3>2 DEF BarrierInv, SqlAfterBarrier
  <2> QED
    BY <1>1, <2>2, <2>3, <2>4, <2>5 DEF Calling, Finishing
<1>2. CASE Sqlite \/ ChildFails \/ ChildWarns
  <2>1. UNCHANGED <<parent, control, monitor>>
    BY <1>0, <1>2, SqliteMoves
  <2>2. CASE PrintMarker
    <3>1. stdout' # <<>> /\ stderr' = stderr
      BY <1>0, <2>2 DEF PrintMarker, Shape, Markers
    <3>2. CASE child.pc = "loaded"
      <4>1. child'.pc = "read" /\ child'.clean = ~stderr /\ child.clean = FALSE
        BY <1>0, <2>2, <3>2 DEF PrintMarker, Shape, BarrierInv
      <4> QED
        BY <1>0, <2>1, <3>1, <4>1 DEF BarrierInv, SqlAfterBarrier
    <3>3. CASE child.pc = "committed"
      <4>1. child'.pc = "printed" /\ child'.clean = child.clean
        BY <1>0, <2>2, <3>3 DEF PrintMarker, Shape, ChildGoto
      <4> QED
        BY <1>0, <2>1, <3>1, <3>3, <4>1 DEF BarrierInv, SqlAfterBarrier
    <3> QED
      BY <2>2, <3>2, <3>3 DEF PrintMarker
  <2>3. CASE Import \/ ReadSql \/ Transaction \/ Rollback \/ Exit \/ ChildFails
    <3>1. stdout' = stdout /\ stderr' = stderr
      BY <2>3 DEF Import, ReadSql, Transaction, Rollback, Exit, ChildFails, Output
    <3>2. /\ child'.clean = child.clean
          /\ child'.pc \in {"none", "import", "loaded"} => child.pc \in {"import"}
          /\ child'.pc \in {"read", "transaction", "committed", "printed"} =>
               child.pc \in {"read", "transaction", "committed", "printed"}
      BY <1>0, <2>3 DEF Shape, Import, ReadSql, Transaction, Rollback, Exit, ChildFails, ChildGoto
    <3> QED
      BY <1>0, <2>1, <3>1, <3>2 DEF BarrierInv, SqlAfterBarrier
  <2>4. CASE ChildWarns
    BY <1>0, <2>1, <2>4 DEF BarrierInv, SqlAfterBarrier, ChildWarns
  <2> QED
    BY <1>2, <2>2, <2>3, <2>4 DEF Sqlite
<1>3. CASE Watching \/ MonitorFails
  <2>1. UNCHANGED <<parent, child, control, stdout, stderr>>
    BY <1>0, <1>3, WatchingMoves DEF Output
  <2>2. (monitor.ready /\ ~monitor.error)' => child.clean
    <3>1. CASE AcceptReady
      <4>1. monitor'.error = (stdout # <<"READY">> \/ stderr)
        BY <1>0, <3>1 DEF AcceptReady, Shape, Monitor
      <4>2. stdout = <<"READY">> => stdout # <<>>
        OBVIOUS
      <4> QED
        BY <4>1, <4>2 DEF BarrierInv
    <3>2. CASE EndOfOutput \/ MonitorFails
      BY <1>0, <3>2 DEF EndOfOutput, MonitorFails, Shape, Monitor, BarrierInv
    <3> QED
      BY <1>3, <3>1, <3>2 DEF Watching
  <2> QED
    BY <1>0, <2>1, <2>2 DEF BarrierInv, SqlAfterBarrier
<1>4. CASE UNCHANGED vars
  BY <1>0, <1>4 DEF vars, BarrierInv, SqlAfterBarrier
<1> QED
  BY <1>1, <1>2, <1>3, <1>4 DEF Next, Calling

(* SQL is sent only to a child whose first word was READY.                  *)
THEOREM Barrier == Spec => []SqlAfterBarrier
<1>1. BarrierInv => SqlAfterBarrier
  BY DEF BarrierInv
<1> QED
  BY <1>1, BarrierInit, BarrierStep, PTL DEF Spec

-----------------------------------------------------------------------------
(* FlattenSeq: the sequences one after the other.                            *)
FlattenIs(g, seqs) == g = [i \in 1 .. Len(seqs) |-> IF i = 1 THEN seqs[i] ELSE g[i - 1] \o seqs[i]]
Joined(f, seqs) == f[0] = <<>> /\ \A k \in 1 .. Len(seqs) : f[k] = f[k - 1] \o seqs[k]

LEMMA Flattened ==
  ASSUME NEW T, NEW seqs \in Seq(Seq(T)), seqs # <<>>
  PROVE  \E f \in [0 .. Len(seqs) -> Seq(T)] : Joined(f, seqs) /\ FlattenSeq(seqs) = f[Len(seqs)]
<1> DEFINE n == Len(seqs)
           X == Seq(T)
           Join(z) == IF z[1] \in 1 .. n THEN z[2] \o seqs[z[1]] ELSE z[2]
           step == [z \in Nat \X X |-> Join(z)]
           g == CHOOSE h : FlattenIs(h, seqs)
<1>1. n \in Nat /\ n # 0 /\ <<>> \in X /\ \A k \in 1 .. n : seqs[k] \in X
  OBVIOUS
<1>2. FlattenSeq(seqs) = g[n]
  BY <1>1 DEF FlattenSeq, FlattenIs
<1>3. step \in [Nat \X X -> X]
  <2>1. ASSUME NEW z \in Nat \X X PROVE Join(z) \in X
    <3>1. z[2] \in X
      OBVIOUS
    <3>2. CASE z[1] \in 1 .. n
      BY <1>1, <3>1, <3>2
    <3>3. CASE z[1] \notin 1 .. n
      BY <3>1, <3>3
    <3> QED
      BY <3>2, <3>3
  <2> HIDE DEF Join, X
  <2> QED
    BY <2>1
<1>4. PICK f \in [Nat -> X] : Unfolds(f, <<>>, step)
  <2> HIDE DEF X, step
  <2> QED
    BY <1>1, <1>3, Recursion, Zenon
<1>5. f[0] = <<>> /\ \A k \in 1 .. n : f[k] = f[k - 1] \o seqs[k]
  <2>1. ASSUME NEW k \in 1 .. n PROVE f[k] = f[k - 1] \o seqs[k]
    <3>1. k \in Nat \ {0} /\ k - 1 \in Nat
      BY <1>1
    <3>2. f[k] = step[<<k, f[k - 1]>>] /\ f[k - 1] \in X
      <4> HIDE DEF X, step
      <4> QED
        BY <1>4, <3>1 DEF Unfolds
    <3>3. step[<<k, f[k - 1]>>] = Join(<<k, f[k - 1]>>)
      <4> HIDE DEF Join, X
      <4> QED
        BY <3>1, <3>2
    <3> QED
      BY <3>2, <3>3
  <2> QED
    BY <1>4, <2>1 DEF Unfolds
<1>6. FlattenIs(g, seqs)
  <2> DEFINE h == [i \in 1 .. n |-> f[i]]
  <2>1. ASSUME NEW i \in 1 .. n PROVE h[i] = IF i = 1 THEN seqs[i] ELSE h[i - 1] \o seqs[i]
    <3>1. f[i] = f[i - 1] \o seqs[i]
      BY <1>5
    <3>2. CASE i = 1
      <4>1. f[i - 1] = <<>> /\ seqs[i] \in X
        BY <1>1, <1>5, <3>2
      <4>2. <<>> \o seqs[i] = seqs[i]
        BY <4>1
      <4> QED
        BY <3>1, <3>2, <4>1, <4>2
    <3>3. CASE i # 1
      <4>1. i - 1 \in 1 .. n
        BY <1>1, <3>3
      <4> QED
        BY <3>1, <3>3, <4>1
    <3> QED
      BY <3>2, <3>3
  <2>2. h = [i \in 1 .. n |-> IF i = 1 THEN seqs[i] ELSE h[i - 1] \o seqs[i]]
    BY <2>1, Zenon
  <2> HIDE DEF h
  <2>3. FlattenIs(h, seqs)
    BY <2>2 DEF FlattenIs
  <2> QED
    BY <2>3
<1> HIDE DEF g
<1> DEFINE V == {k \in Nat : k \in 1 .. n => g[k] = f[k]}
<1>7. 0 \in V
  OBVIOUS
<1>8. ASSUME NEW k \in Nat, k \in V PROVE k + 1 \in V
  <2> SUFFICES ASSUME k + 1 \in 1 .. n PROVE g[k + 1] = f[k + 1]
    OBVIOUS
  <2>1. (k + 1) - 1 = k /\ f[k + 1] = f[k] \o seqs[k + 1]
    <3>1. (k + 1) - 1 = k
      OBVIOUS
    <3>2. f[k + 1] = f[(k + 1) - 1] \o seqs[k + 1]
      BY <1>5, Zenon
    <3> QED
      BY <3>1, <3>2
  <2>2. g[k + 1] = IF k + 1 = 1 THEN seqs[k + 1] ELSE g[k] \o seqs[k + 1]
    BY <1>6, <2>1 DEF FlattenIs
  <2>3. CASE k = 0
    <3>1. seqs[k + 1] \in X /\ f[k] = <<>>
      BY <1>1, <1>5, <2>3
    <3>2. <<>> \o seqs[k + 1] = seqs[k + 1]
      BY <3>1
    <3> QED
      BY <2>1, <2>2, <2>3, <3>1, <3>2
  <2>4. CASE k # 0
    <3>1. k \in 1 .. n /\ k + 1 # 1
      BY <1>1, <2>4
    <3>2. g[k] = f[k]
      BY <1>8, <3>1
    <3> QED
      BY <2>1, <2>2, <3>1, <3>2
  <2> QED
    BY <2>3, <2>4
<1>9. Nat \subseteq V
  <2> HIDE DEF V
  <2> QED
    BY <1>7, <1>8, Induction
<1>10. g[n] = f[n]
  BY <1>1, <1>9
<1> DEFINE h == [k \in 0 .. n |-> f[k]]
<1>11. h \in [0 .. n -> X] /\ h[n] = f[n]
  <2> HIDE DEF X
  <2> QED
    BY <1>1, <1>4
<1>12. Joined(h, seqs)
  <2>1. ASSUME NEW k \in 1 .. n PROVE h[k] = h[k - 1] \o seqs[k]
    <3>1. k \in 0 .. n /\ k - 1 \in 0 .. n
      BY <1>1
    <3>2. h[k] = f[k] /\ h[k - 1] = f[k - 1]
      BY <3>1
    <3>3. f[k] = f[k - 1] \o seqs[k]
      BY <1>5
    <3> QED
      BY <3>2, <3>3
  <2>2. h[0] = <<>>
    BY <1>1, <1>5
  <2> HIDE DEF h
  <2> QED
    BY <2>1, <2>2 DEF Joined
<1> QED
  BY <1>2, <1>10, <1>11, <1>12

(* Grouped: each table's rows in their order, table after table.             *)
RowsOf(t) == [table : {t}, key : Keys, value : Values]

LEMMA GroupsAre ==
  ASSUME NEW rows \in Seq(Row)
  PROVE  /\ Grouped(rows) \in Seq(Row)
         /\ \A t \in Tables : \A S \in SUBSET RowsOf(t) : Among(Grouped(rows), S) = Among(rows, S)
<1> DEFINE seqs == [i \in DOMAIN TableOrder |-> OfTable(rows, TableOrder[i])]
<1>1. DOMAIN TableOrder = 1 .. Len(TableOrder) /\ Len(TableOrder) \in Nat
  BY ImportAssumption
<1>2. \A t : OfTable(rows, t) = Among(rows, RowsOf(t)) /\ OfTable(rows, t) \in Seq(Row)
  BY AmongGrows DEF OfTable, RowsOf
<1>3. seqs \in Seq(Seq(Row)) /\ Len(seqs) = Len(TableOrder)
        /\ \A i \in 1 .. Len(TableOrder) : seqs[i] = Among(rows, RowsOf(TableOrder[i]))
  BY <1>1, <1>2
<1>4. Grouped(rows) = FlattenSeq(seqs)
  BY DEF Grouped
<1> HIDE DEF seqs
<1>5. CASE Len(TableOrder) = 0
  <2>1. Grouped(rows) = seqs /\ seqs = <<>>
    BY <1>3, <1>4, <1>5 DEF FlattenSeq
  <2>2. Tables = {}
    BY <1>1, <1>5, ImportAssumption
  <2> QED
    BY <2>1, <2>2
<1>6. CASE Len(TableOrder) # 0
  <2> DEFINE n == Len(TableOrder)
  <2>1. PICK f \in [0 .. n -> Seq(Row)] : Joined(f, seqs) /\ FlattenSeq(seqs) = f[n]
    <3>1. seqs # <<>>
      BY <1>3, <1>6
    <3>2. \E f \in [0 .. Len(seqs) -> Seq(Row)] : Joined(f, seqs) /\ FlattenSeq(seqs) = f[Len(seqs)]
      BY <1>3, <3>1, Flattened
    <3> QED
      BY <1>3, <3>2
  <2>2. ASSUME NEW t \in Tables, NEW S \in SUBSET RowsOf(t)
        PROVE  Among(f[n], S) = Among(rows, S)
    <3>1. PICK p \in 1 .. n : TableOrder[p] = t
      BY <1>1, ImportAssumption
    <3>2. \A q \in 1 .. n : q # p => TableOrder[q] # t
      BY <1>1, <3>1, ImportAssumption
    <3>3. \A q \in 1 .. n : Among(seqs[q], S) = IF q = p THEN Among(rows, S) ELSE <<>>
      <4> TAKE q \in 1 .. n
      <4>1. Among(seqs[q], S) = Among(rows, RowsOf(TableOrder[q]) \cap S)
        BY <1>3, AmongAmong
      <4>2. CASE q = p
        <5>1. RowsOf(TableOrder[q]) \cap S = S
          BY <3>1, <4>2
        <5> QED
          BY <4>1, <4>2, <5>1
      <4>3. CASE q # p
        <5>1. RowsOf(TableOrder[q]) \cap S = {}
          BY <3>2, <4>3 DEF RowsOf
        <5> QED
          BY <4>1, <4>3, <5>1, AmongNone
      <4> QED
        BY <4>2, <4>3
    <3> DEFINE V == {k \in Nat : k <= n => Among(f[k], S) = IF k < p THEN <<>> ELSE Among(rows, S)}
    <3>4. 0 \in V
      BY <1>1, <2>1, <3>1, AmongGrows DEF Joined
    <3>5. ASSUME NEW k \in Nat, k \in V PROVE k + 1 \in V
      <4> SUFFICES ASSUME k + 1 <= n
                   PROVE  Among(f[k + 1], S) = IF k + 1 < p THEN <<>> ELSE Among(rows, S)
        OBVIOUS
      <4>1. k + 1 \in 1 .. n /\ k \in 0 .. n /\ (k + 1) - 1 = k
        BY <1>1
      <4>2. f[k + 1] = f[k] \o seqs[k + 1] /\ f[k] \in Seq(Row) /\ seqs[k + 1] \in Seq(Row)
        <5>1. f[k + 1] = f[(k + 1) - 1] \o seqs[k + 1]
          BY <1>3, <2>1, <4>1, Zenon DEF Joined
        <5>2. f[k] \in Seq(Row)
          BY <2>1, <4>1
        <5>3. seqs[k + 1] \in Seq(Row)
          BY <1>3, <4>1, AmongGrows
        <5> QED
          BY <4>1, <5>1, <5>2, <5>3
      <4>3. Among(f[k + 1], S) = Among(f[k], S) \o Among(seqs[k + 1], S)
        <5> DEFINE a == f[k]
                   b == seqs[k + 1]
        <5>1. a \in Seq(Row) /\ b \in Seq(Row) /\ f[k + 1] = a \o b
          BY <4>2
        <5> HIDE DEF a, b
        <5>2. Among(a \o b, S) = Among(a, S) \o Among(b, S)
          BY <5>1, AmongBoth
        <5>3. Among(f[k + 1], S) = Among(a, S) \o Among(b, S)
          BY <5>1, <5>2
        <5> QED
          BY <5>3 DEF a, b
      <4>4. Among(f[k], S) = IF k < p THEN <<>> ELSE Among(rows, S)
        BY <3>5, <4>1
      <4>5. Among(seqs[k + 1], S) = IF k + 1 = p THEN Among(rows, S) ELSE <<>>
        BY <3>3, <4>1
      <4>6. Among(rows, S) \in Seq(Row)
        BY AmongGrows
      <4>7. <<>> \o <<>> = <<>> /\ <<>> \o Among(rows, S) = Among(rows, S) /\ Among(rows, S) \o <<>> = Among(rows, S)
        BY <4>6
      <4>8. CASE k + 1 < p
        <5>1. k < p /\ k + 1 # p
          BY <4>8
        <5>2. Among(f[k], S) = <<>> /\ Among(seqs[k + 1], S) = <<>>
          BY <4>4, <4>5, <5>1
        <5> QED
          BY <4>3, <4>7, <4>8, <5>2
      <4>9. CASE k + 1 = p
        <5>1. k < p /\ ~(k + 1 < p)
          BY <4>9
        <5>2. Among(f[k], S) = <<>> /\ Among(seqs[k + 1], S) = Among(rows, S)
          BY <4>4, <4>5, <4>9, <5>1
        <5> QED
          BY <4>3, <4>7, <5>1, <5>2
      <4>10. CASE k + 1 > p
        <5>1. ~(k < p) /\ k + 1 # p /\ ~(k + 1 < p)
          BY <4>10
        <5>2. Among(f[k], S) = Among(rows, S) /\ Among(seqs[k + 1], S) = <<>>
          BY <4>4, <4>5, <5>1
        <5> QED
          BY <4>3, <4>7, <5>1, <5>2
      <4> QED
        BY <3>1, <4>8, <4>9, <4>10
    <3>6. Nat \subseteq V
      <4> HIDE DEF V
      <4> QED
        BY <3>4, <3>5, Induction
    <3> QED
      BY <1>1, <3>1, <3>6
  <2> QED
    BY <1>1, <1>4, <2>1, <2>2
<1> QED
  BY <1>1, <1>5, <1>6

-----------------------------------------------------------------------------
(***************************************************************************)
(* Load: row after row, and of every cell only the rows of that cell.      *)
(***************************************************************************)
LoadIter(iter, n, database, rows) ==
  iter = [s \in SUBSET (1 .. n) |-> IF s = {} THEN database ELSE Put(iter[s \ {Max(s)}], rows[Max(s)])]
LoadRun(f, n, database, rows) == f[0] = database /\ \A k \in 1 .. n : f[k] = Put(f[k - 1], rows[k])

LEMMA PutIs ==
  ASSUME NEW database \in Database, NEW r \in Row
  PROVE  /\ Put(database, r) \in Database /\ Cell(r) \in Tables \X Keys
         /\ \A c \in Tables \X Keys : c # Cell(r) => Put(database, r)[c] = database[c]
         /\ Put(database, r)[Cell(r)] = IF ConflictMode[r.table] = "ignore" /\ database[Cell(r)] # NoValue
                                        THEN database[Cell(r)] ELSE r.value
<1>1. Cell(r) \in Tables \X Keys /\ r.value \in Values
  BY DEF Cell, Row
<1> QED
  BY <1>1 DEF Put, Database

LEMMA LoadRuns ==
  ASSUME NEW rows \in Seq(Row), NEW database \in Database
  PROVE  \E f \in [0 .. Len(rows) -> Database] :
           LoadRun(f, Len(rows), database, rows) /\ Load(database, rows) = f[Len(rows)]
<1> DEFINE n == Len(rows)
           X == Database
           Take(loaded, k) == Put(loaded, rows[k])
           step == [z \in (1 .. n) \X X |-> Take(z[2], z[1])]
           c == CHOOSE iter : LoadIter(iter, n, database, rows)
<1>1. n \in Nat /\ DOMAIN rows = 1 .. n /\ \A k \in 1 .. n : rows[k] \in Row
  OBVIOUS
<1>2. Load(database, rows) = c[1 .. n]
  <2>1. Load(database, rows) = (CHOOSE iter : LoadIter(iter, n, database, rows))[DOMAIN rows]
    BY <1>1 DEF Load, FoldLeft, MapThenFoldSet, LoadIter
  <2> QED
    BY <1>1, <2>1
<1>4. \A k \in 1 .. n, loaded \in X : Take(loaded, k) \in X
  <2> HIDE DEF n
  <2> QED
    BY <1>1, PutIs
<1>5. step \in [(1 .. n) \X X -> X] /\ \A k \in 1 .. n, loaded \in X : step[<<k, loaded>>] = Take(loaded, k)
  <2> HIDE DEF Take, n, X
  <2> QED
    BY <1>4
<1>6. PICK iter \in [SUBSET (1 .. n) -> X] : FoldIs(iter, n, database, step)
  <2>1. database \in X
    OBVIOUS
  <2> HIDE DEF step, n, X
  <2> QED
    BY <1>1, <1>5, <2>1, FoldExists
<1>7. LoadIter(iter, n, database, rows)
  <2>1. ASSUME NEW s \in SUBSET (1 .. n), s # {}
        PROVE  step[<<Max(s), iter[s \ {Max(s)}]>>] = Take(iter[s \ {Max(s)}], Max(s))
    <3>1. Max(s) \in 1 .. n /\ iter[s \ {Max(s)}] \in X
      <4> HIDE DEF n, X
      <4> QED
        BY <1>1, <1>6, <2>1, GreatestMember
    <3> HIDE DEF step, n, X, Take
    <3> QED
      BY <1>5, <3>1
  <2>2. iter = [s \in SUBSET (1 .. n) |-> IF s = {} THEN database ELSE step[<<Max(s), iter[s \ {Max(s)}]>>]]
    <3> HIDE DEF step, n, X, Take
    <3> QED
      BY <1>6 DEF FoldIs
  <2>3. iter = [s \in SUBSET (1 .. n) |-> IF s = {} THEN database ELSE Take(iter[s \ {Max(s)}], Max(s))]
    <3> HIDE DEF step, n, X, Take
    <3> QED
      BY <2>1, <2>2
  <2> QED
    BY <2>3 DEF LoadIter
<1>8. LoadIter(c, n, database, rows)
  <2> HIDE DEF n
  <2> QED
    BY <1>7
<1> DEFINE f == [k \in 0 .. n |-> c[1 .. k]]
<1> HIDE DEF c
<1>9. c[1 .. 0] = database
  <2>1. 1 .. 0 = {} /\ {} \in SUBSET (1 .. n)
    OBVIOUS
  <2> QED
    BY <1>8, <2>1 DEF LoadIter
<1>10. ASSUME NEW k \in 1 .. n PROVE c[1 .. k] = Take(c[1 .. k - 1], k)
  <2>1. k - 1 \in Nat /\ (k - 1) + 1 = k
    OBVIOUS
  <2>2. Max(1 .. k) = k /\ (1 .. k) \ {Max(1 .. k)} = 1 .. k - 1
    BY <2>1, GreatestOf
  <2>3. 1 .. k \in SUBSET (1 .. n) /\ 1 .. k # {}
    OBVIOUS
  <2> QED
    BY <1>8, <2>2, <2>3 DEF LoadIter
<1>11. LoadRun(f, n, database, rows) /\ Load(database, rows) = f[n]
  BY <1>1, <1>2, <1>9, <1>10 DEF LoadRun
<1> DEFINE V == {k \in Nat : k <= n => f[k] \in X}
<1>12. 0 \in V
  <2>1. f[0] = database
    BY <1>1, <1>9
  <2> HIDE DEF f
  <2> QED
    BY <2>1
<1>13. ASSUME NEW k \in Nat, k \in V PROVE k + 1 \in V
  <2> SUFFICES ASSUME k + 1 <= n PROVE f[k + 1] \in X
    OBVIOUS
  <2>1. k + 1 \in 1 .. n /\ (k + 1) - 1 = k /\ f[k] \in X
    BY <1>13
  <2>2. f[k + 1] = Take(f[k], k + 1)
    BY <1>10, <2>1
  <2> HIDE DEF f, Take, n, X
  <2> QED
    BY <1>4, <2>1, <2>2
<1>14. Nat \subseteq V
  <2> HIDE DEF V
  <2> QED
    BY <1>12, <1>13, Induction
<1>15. f \in [0 .. n -> X]
  <2>1. \A k \in 0 .. n : f[k] \in X
    <3> HIDE DEF f, X
    <3>1. \A k \in 0 .. n : k \in Nat /\ k <= n
      BY <1>1
    <3> QED
      BY <1>14, <3>1
  <2> QED
    BY <2>1
<1> QED
  BY <1>11, <1>15

LEMMA LoadGrows ==
  ASSUME NEW database \in Database
  PROVE  /\ Load(database, <<>>) = database
         /\ \A rows \in Seq(Row) :
              /\ Load(database, rows) \in Database
              /\ \A r \in Row : Load(database, Append(rows, r)) = Put(Load(database, rows), r)
<1>1. Load(database, <<>>) = database
  <2>1. <<>> \in Seq(Row) /\ Len(<<>>) = 0
    OBVIOUS
  <2>2. PICK f \in [0 .. Len(<<>>) -> Database] :
          LoadRun(f, Len(<<>>), database, <<>>) /\ Load(database, <<>>) = f[Len(<<>>)]
    BY <2>1, LoadRuns, Zenon
  <2> QED
    BY <2>1, <2>2 DEF LoadRun
<1>2. ASSUME NEW rows \in Seq(Row)
      PROVE  /\ Load(database, rows) \in Database
             /\ \A r \in Row : Load(database, Append(rows, r)) = Put(Load(database, rows), r)
  <2> DEFINE n == Len(rows)
  <2>1. PICK f \in [0 .. n -> Database] : LoadRun(f, n, database, rows) /\ Load(database, rows) = f[n]
    BY LoadRuns
  <2>2. n \in Nat
    OBVIOUS
  <2>3. ASSUME NEW x \in Row
        PROVE  Load(database, Append(rows, x)) = Put(f[n], x)
    <3> DEFINE longer == Append(rows, x)
    <3>1. longer \in Seq(Row) /\ Len(longer) = n + 1 /\ longer[n + 1] = x /\ \A k \in 1 .. n : longer[k] = rows[k]
      OBVIOUS
    <3> HIDE DEF longer
    <3>2. PICK h \in [0 .. n + 1 -> Database] :
            LoadRun(h, n + 1, database, longer) /\ Load(database, longer) = h[n + 1]
      <4>1. \E h \in [0 .. Len(longer) -> Database] : /\ LoadRun(h, Len(longer), database, longer)
                                                      /\ Load(database, longer) = h[Len(longer)]
        BY <3>1, LoadRuns, Zenon
      <4> QED
        BY <3>1, <4>1
    <3> HIDE DEF n
    <3> DEFINE V == {k \in Nat : k <= n => h[k] = f[k]}
    <3>3. 0 \in V
      BY <2>1, <3>2 DEF LoadRun
    <3>4. ASSUME NEW k \in Nat, k \in V PROVE k + 1 \in V
      <4> SUFFICES ASSUME k + 1 <= n PROVE h[k + 1] = f[k + 1]
        OBVIOUS
      <4>1. k + 1 \in 1 .. n /\ k + 1 \in 1 .. n + 1 /\ (k + 1) - 1 = k /\ h[k] = f[k]
        BY <2>2, <3>4
      <4> QED
        BY <2>1, <3>1, <3>2, <4>1 DEF LoadRun
    <3>5. Nat \subseteq V
      <4> HIDE DEF V
      <4> QED
        BY <3>3, <3>4, Induction
    <3>6. h[n] = f[n] /\ n + 1 \in 1 .. n + 1 /\ (n + 1) - 1 = n
      BY <2>2, <3>5
    <3>7. h[n + 1] = Put(h[n], x)
      BY <3>1, <3>2, <3>6 DEF LoadRun
    <3> QED
      BY <3>2, <3>6, <3>7 DEF longer
  <2> QED
    BY <2>1, <2>2, <2>3
<1> QED
  BY <1>1, <1>2

OfCell(c) == {r \in Row : Cell(r) = c}
SameCells(s, t) == \A c \in Tables \X Keys : Among(s, OfCell(c)) = Among(t, OfCell(c))

LEMMA LoadOfCell ==
  ASSUME NEW database \in Database, NEW c \in Tables \X Keys
  PROVE  \A rows \in Seq(Row) : Load(database, rows)[c] = Load(database, Among(rows, OfCell(c)))[c]
<1> DEFINE V == {u \in Seq(Row) : Load(database, u)[c] = Load(database, Among(u, OfCell(c)))[c]}
<1>1. <<>> \in V
  BY AmongGrows
<1>2. ASSUME NEW u \in Seq(Row), NEW r \in Row, u \in V PROVE Append(u, r) \in V
  <2> DEFINE a == Among(u, OfCell(c))
  <2>1. a \in Seq(Row) /\ Append(u, r) \in Seq(Row) /\ Load(database, u)[c] = Load(database, a)[c]
    BY <1>2, AmongGrows
  <2>2. Among(Append(u, r), OfCell(c)) = IF r \in OfCell(c) THEN Append(a, r) ELSE a
    BY AmongGrows
  <2> HIDE DEF a
  <2>3. /\ Load(database, Append(u, r)) = Put(Load(database, u), r)
        /\ Load(database, Append(a, r)) = Put(Load(database, a), r)
        /\ Load(database, u) \in Database /\ Load(database, a) \in Database
    BY <2>1, LoadGrows
  <2>4. CASE r \in OfCell(c)
    <3>1. Cell(r) = c
      BY <2>4 DEF OfCell
    <3>2. Put(Load(database, u), r)[c] = Put(Load(database, a), r)[c]
      <4> DEFINE x == Load(database, u)
                 y == Load(database, a)
      <4>1. x \in Database /\ y \in Database /\ x[c] = y[c]
        BY <2>1, <2>3
      <4> HIDE DEF x, y
      <4>2. /\ Put(x, r)[Cell(r)] = IF ConflictMode[r.table] = "ignore" /\ x[Cell(r)] # NoValue
                                    THEN x[Cell(r)] ELSE r.value
            /\ Put(y, r)[Cell(r)] = IF ConflictMode[r.table] = "ignore" /\ y[Cell(r)] # NoValue
                                    THEN y[Cell(r)] ELSE r.value
        BY <4>1, PutIs
      <4>3. Put(x, r)[c] = Put(y, r)[c]
        BY <3>1, <4>1, <4>2
      <4> QED
        BY <4>3 DEF x, y
    <3> QED
      BY <2>1, <2>2, <2>3, <2>4, <3>2
  <2>5. CASE r \notin OfCell(c)
    <3>1. Cell(r) # c
      BY <2>5 DEF OfCell
    <3>2. Put(Load(database, u), r)[c] = Load(database, u)[c]
      BY <2>3, <3>1, PutIs
    <3> QED
      BY <2>1, <2>2, <2>3, <2>5, <3>2
  <2> QED
    BY <2>4, <2>5
<1>3. Seq(Row) \subseteq V
  <2> HIDE DEF V
  <2> QED
    BY <1>1, <1>2, SequenceInduction
<1> QED
  BY <1>3

LEMMA LoadSame ==
  ASSUME NEW s \in Seq(Row), NEW t \in Seq(Row), SameCells(s, t), NEW database \in Database
  PROVE  Load(database, s) = Load(database, t)
<1>1. Load(database, s) \in Database /\ Load(database, t) \in Database
  BY LoadGrows
<1>2. \A c \in Tables \X Keys : Load(database, s)[c] = Load(database, t)[c]
  BY LoadOfCell DEF SameCells
<1> QED
  BY <1>1, <1>2 DEF Database

-----------------------------------------------------------------------------
(* Clashes: a clash is one of the rows of some cell.                         *)
Taken(database, rows, r) ==
  ConflictMode[r.table] = "plain" /\ (database[Cell(r)] # NoValue \/ \E j \in DOMAIN rows : Cell(rows[j]) = Cell(r))

LEMMA ClashesGrow ==
  ASSUME NEW database
  PROVE  /\ ~Clashes(database, <<>>)
         /\ \A rows \in Seq(Row), r \in Row :
              Clashes(database, Append(rows, r)) <=> Clashes(database, rows) \/ Taken(database, rows, r)
<1>1. ~Clashes(database, <<>>)
  BY DEF Clashes
<1>2. ASSUME NEW rows \in Seq(Row), NEW r \in Row
      PROVE  Clashes(database, Append(rows, r)) <=> Clashes(database, rows) \/ Taken(database, rows, r)
  <2> DEFINE n == Len(rows)
             longer == Append(rows, r)
             Bad(s, i) == /\ ConflictMode[s[i].table] = "plain"
                          /\ \/ database[Cell(s[i])] # NoValue
                             \/ \E j \in 1 .. i - 1 : Cell(s[j]) = Cell(s[i])
  <2>1. /\ n \in Nat /\ DOMAIN rows = 1 .. n /\ DOMAIN longer = 1 .. n + 1
        /\ longer[n + 1] = r /\ \A i \in 1 .. n : longer[i] = rows[i]
    OBVIOUS
  <2>2. Clashes(database, rows) <=> \E i \in 1 .. n : Bad(rows, i)
    BY <2>1 DEF Clashes
  <2>3. Clashes(database, longer) <=> \E i \in 1 .. n + 1 : Bad(longer, i)
    BY <2>1 DEF Clashes
  <2> HIDE DEF n, longer
  <2>4. ASSUME NEW i \in 1 .. n PROVE Bad(longer, i) <=> Bad(rows, i)
    <3>1. longer[i] = rows[i] /\ \A j \in 1 .. i - 1 : longer[j] = rows[j]
      BY <2>1
    <3> QED
      BY <3>1
  <2>5. Bad(longer, n + 1) <=> Taken(database, rows, r)
    <3>1. (n + 1) - 1 = n /\ \A j \in 1 .. n : longer[j] = rows[j]
      BY <2>1
    <3>2. longer[n + 1] = r
      BY <2>1
    <3>3. (\E j \in 1 .. (n + 1) - 1 : Cell(longer[j]) = Cell(longer[n + 1]))
             <=> \E j \in DOMAIN rows : Cell(rows[j]) = Cell(r)
      BY <2>1, <3>1, <3>2
    <3> QED
      BY <3>2, <3>3 DEF Taken
  <2>6. \A i : i \in 1 .. n + 1 <=> i \in 1 .. n \/ i = n + 1
    BY <2>1
  <2> HIDE DEF Bad
  <2> QED
    BY <2>2, <2>3, <2>4, <2>5, <2>6 DEF longer
<1> QED
  BY <1>1, <1>2

LEMMA CellsOccupied ==
  ASSUME NEW c \in Tables \X Keys
  PROVE  \A rows \in Seq(Row) : (\E j \in DOMAIN rows : Cell(rows[j]) = c) <=> Among(rows, OfCell(c)) # <<>>
<1> DEFINE V == {u \in Seq(Row) : (\E j \in DOMAIN u : Cell(u[j]) = c) <=> Among(u, OfCell(c)) # <<>>}
<1>1. <<>> \in V
  BY AmongGrows
<1>2. ASSUME NEW u \in Seq(Row), NEW r \in Row, u \in V PROVE Append(u, r) \in V
  <2>1. Among(Append(u, r), OfCell(c)) = IF r \in OfCell(c) THEN Append(Among(u, OfCell(c)), r)
                                         ELSE Among(u, OfCell(c))
    BY AmongGrows
  <2>2. Among(u, OfCell(c)) \in Seq(Row) /\ Append(u, r) \in Seq(Row)
    BY AmongGrows
  <2>3. (\E j \in DOMAIN Append(u, r) : Cell(Append(u, r)[j]) = c)
          <=> (\E j \in DOMAIN u : Cell(u[j]) = c) \/ Cell(r) = c
    <3> DEFINE n == Len(u)
               longer == Append(u, r)
    <3>1. /\ n \in Nat /\ DOMAIN u = 1 .. n /\ DOMAIN longer = 1 .. n + 1
          /\ longer[n + 1] = r /\ \A i \in 1 .. n : longer[i] = u[i]
      OBVIOUS
    <3>2. \A i : i \in 1 .. n + 1 <=> i \in 1 .. n \/ i = n + 1
      BY <3>1
    <3> HIDE DEF n, longer
    <3>3. (\E j \in DOMAIN longer : Cell(longer[j]) = c) <=> (\E j \in DOMAIN u : Cell(u[j]) = c) \/ Cell(r) = c
      BY <3>1, <3>2
    <3> QED
      BY <3>3 DEF longer
  <2>4. r \in OfCell(c) <=> Cell(r) = c
    BY DEF OfCell
  <2>5. Append(Among(u, OfCell(c)), r) # <<>>
    BY <2>2, AppendProperties
  <2>6. (\E j \in DOMAIN u : Cell(u[j]) = c) <=> Among(u, OfCell(c)) # <<>>
    BY <1>2
  <2> QED
    BY <2>1, <2>2, <2>3, <2>4, <2>5, <2>6
<1>3. Seq(Row) \subseteq V
  <2> HIDE DEF V
  <2> QED
    BY <1>1, <1>2, SequenceInduction
<1> QED
  BY <1>3

LEMMA ClashOfCell ==
  ASSUME NEW database
  PROVE  \A rows \in Seq(Row) :
           Clashes(database, rows) <=> \E c \in Tables \X Keys : Clashes(database, Among(rows, OfCell(c)))
<1> DEFINE A(u, c) == Among(u, OfCell(c))
           V == {u \in Seq(Row) : Clashes(database, u) <=> \E c \in Tables \X Keys : Clashes(database, A(u, c))}
<1>1. <<>> \in V
  <2>1. \A c : A(<<>>, c) = <<>>
    BY AmongGrows
  <2>2. ~Clashes(database, <<>>) /\ <<>> \in Seq(Row)
    BY ClashesGrow
  <2> QED
    BY <2>1, <2>2
<1>2. ASSUME NEW u \in Seq(Row), NEW r \in Row, u \in V PROVE Append(u, r) \in V
  <2> DEFINE o == Cell(r)
             longer == Append(u, r)
  <2>1. o \in Tables \X Keys /\ longer \in Seq(Row) /\ \A c : A(u, c) \in Seq(Row)
    <3>1. o \in Tables \X Keys /\ longer \in Seq(Row)
      BY DEF Cell, Row
    <3> QED
      BY <3>1, AmongGrows
  <2>2. \A c \in Tables \X Keys : A(longer, c) = IF c = o THEN Append(A(u, c), r) ELSE A(u, c)
    BY AmongGrows DEF OfCell
  <2>3. Clashes(database, longer) <=> Clashes(database, u) \/ Taken(database, u, r)
    BY ClashesGrow
  <2>4. Clashes(database, Append(A(u, o), r)) <=> Clashes(database, A(u, o)) \/ Taken(database, A(u, o), r)
    <3> DEFINE a == A(u, o)
    <3>1. a \in Seq(Row)
      BY <2>1
    <3> HIDE DEF a
    <3>2. Clashes(database, Append(a, r)) <=> Clashes(database, a) \/ Taken(database, a, r)
      BY <3>1, ClashesGrow
    <3> QED
      BY <3>2 DEF a
  <2>5. Taken(database, u, r) <=> Taken(database, A(u, o), r)
    <3>1. (\E j \in DOMAIN u : Cell(u[j]) = o) <=> A(u, o) # <<>>
      BY <2>1, CellsOccupied
    <3>2. (\E j \in DOMAIN A(u, o) : Cell(A(u, o)[j]) = o) <=> A(A(u, o), o) # <<>>
      <4> HIDE DEF o
      <4> QED
        BY <2>1, CellsOccupied
    <3>3. A(A(u, o), o) = A(u, o)
      <4>1. OfCell(o) \cap OfCell(o) = OfCell(o)
        OBVIOUS
      <4>2. A(A(u, o), o) = Among(u, OfCell(o) \cap OfCell(o))
        BY AmongAmong
      <4> QED
        BY <4>1, <4>2
    <3> QED
      BY <3>1, <3>2, <3>3 DEF Taken
  <2>6. Clashes(database, u) <=> \E c \in Tables \X Keys : Clashes(database, A(u, c))
    BY <1>2
  <2> HIDE DEF A, o, longer
  <2>7. Clashes(database, longer) <=> \E c \in Tables \X Keys : Clashes(database, A(longer, c))
    BY <2>1, <2>2, <2>3, <2>4, <2>5, <2>6
  <2> QED
    BY <2>1, <2>7 DEF longer
<1>3. Seq(Row) \subseteq V
  <2> HIDE DEF V
  <2> QED
    BY <1>1, <1>2, SequenceInduction
<1> QED
  BY <1>3

LEMMA ClashesSame ==
  ASSUME NEW s \in Seq(Row), NEW t \in Seq(Row), SameCells(s, t), NEW database
  PROVE  Clashes(database, s) <=> Clashes(database, t)
BY ClashOfCell DEF SameCells

(* What is inserted after the checks is what was written, cell by cell, if the
   stage is the sorted dump or the sorted dump without one row.              *)
Staged(stage, rows) == stage = Grouped(rows) \/ \E i \in 1 .. Len(Grouped(rows)) : stage = RemoveAt(Grouped(rows), i)
Counted(stage, rows) == \A t \in Tables : Len(OfTable(stage, t)) = Len(OfTable(rows, t))

LEMMA StageIsSound ==
  ASSUME NEW rows \in Seq(Row), NEW stage, Staged(stage, rows)
  PROVE  /\ stage \in Seq(Row) /\ Grouped(stage) \in Seq(Row)
         /\ Counted(stage, rows) => SameCells(Grouped(stage), rows)
<1>1. Grouped(rows) \in Seq(Row)
        /\ \A t \in Tables : \A S \in SUBSET RowsOf(t) : Among(Grouped(rows), S) = Among(rows, S)
  BY GroupsAre
<1> DEFINE dump == Grouped(rows)
<1>2. dump \in Seq(Row)
  BY <1>1
<1>3. \A c \in Tables \X Keys : OfCell(c) \in SUBSET RowsOf(c[1])
  BY DEF OfCell, RowsOf, Row, Cell
<1>4. CASE stage = dump
  <2>1. \A t \in Tables : \A S \in SUBSET RowsOf(t) : Among(Grouped(dump), S) = Among(dump, S)
    BY <1>2, GroupsAre
  <2>2. Grouped(dump) \in Seq(Row)
    BY <1>2, GroupsAre
  <2>3. ASSUME NEW c \in Tables \X Keys PROVE Among(Grouped(dump), OfCell(c)) = Among(rows, OfCell(c))
    <3>1. c[1] \in Tables /\ OfCell(c) \in SUBSET RowsOf(c[1])
      BY <1>3
    <3> QED
      BY <1>1, <2>1, <3>1
  <2> QED
    BY <1>2, <1>4, <2>2, <2>3 DEF SameCells
<1>5. CASE \E i \in 1 .. Len(dump) : stage = RemoveAt(dump, i)
  <2>1. PICK i \in 1 .. Len(dump) : stage = RemoveAt(dump, i)
    BY <1>5
  <2> DEFINE x == dump[i]
             t == x.table
  <2>2. x \in Row /\ t \in Tables /\ x \in RowsOf(t)
    <3>1. x \in Row
      BY <1>2
    <3> QED
      BY <3>1 DEF Row, RowsOf
  <2> HIDE DEF dump
  <2>3. Len(Among(stage, RowsOf(t))) = Len(Among(dump, RowsOf(t))) - 1 /\ stage \in Seq(Row)
    BY <1>2, <2>1, <2>2, AmongWithout
  <2>4. Among(dump, RowsOf(t)) = Among(rows, RowsOf(t)) /\ Len(Among(rows, RowsOf(t))) \in Nat
    BY <1>1, <2>2, AmongGrows DEF dump
  <2>5. ~Counted(stage, rows)
    <3> HIDE DEF t
    <3>1. OfTable(stage, t) = Among(stage, RowsOf(t)) /\ OfTable(rows, t) = Among(rows, RowsOf(t))
      BY DEF OfTable, RowsOf
    <3>2. Len(OfTable(stage, t)) # Len(OfTable(rows, t))
      BY <2>3, <2>4, <3>1
    <3> QED
      BY <2>2, <3>2 DEF Counted
  <2> QED
    BY <2>3, <2>5, GroupsAre
<1> QED
  BY <1>4, <1>5 DEF Staged

-----------------------------------------------------------------------------
(***************************************************************************)
(* What the three actors do with the rows: the stage is the sorted dump or *)
(* misses one of its rows, and whoever has committed has checked it.       *)
(***************************************************************************)
RowsInv ==
  /\ ChildInv
  /\ written \in Seq(Row) /\ target \in Database /\ child.stage \in Seq(Row)
  /\ control \in {"none", "open", "partial", "whole", "hangup"}
  /\ child.pc = "none" => monitor.pc = "none"
  /\ child.pc \in {"loaded", "read", "transaction"} => Staged(child.stage, written)
  /\ child.committed => child.pc \in {"committed", "printed", "exited"}
  /\ child.pc \in {"committed", "printed"} => child.committed
  /\ child.ok => child.committed /\ child.pc = "exited"
  /\ parent.answer = "none" <=> parent.pc # "done"

LEMMA RowsInitial == Init => RowsInv
<1> SUFFICES ASSUME Init PROVE RowsInv
  OBVIOUS
<1>1. ChildInv
  BY ChildInit
<1>2. <<>> \in Seq(Row) /\ target \in Database
  BY ImportAssumption DEF Init
<1> QED
  BY <1>1, <1>2 DEF Init, RowsInv

LEMMA RowsCalling == RowsInv /\ Calling => RowsInv'
<1> SUFFICES ASSUME RowsInv, Calling PROVE RowsInv'
  OBVIOUS
<1>0. Shape /\ ChildInv'
  BY ChildStep DEF RowsInv, ChildInv, Calling, Next
<1>1. CASE \E r \in Row : Write(r)
  <2>1. PICK r \in Row : Write(r)
    BY <1>1
  <2>2. written' \in Seq(Row) /\ child.pc = "none"
    BY <2>1 DEF Write, RowsInv, ChildInv
  <2> QED
    BY <1>0, <2>1, <2>2 DEF Write, RowsInv
<1>2. CASE ~\E r \in Row : Write(r)
  <2>1. written' = written /\ target' = target
    BY <1>2 DEF Calling, Finish, AbortOpen, Finishing, Fail, ParentKilled, SortDump,
         StartSqlite, StartMonitor, AwaitReady, SendSql, Drain, StopChild, Terminated, KillChild, CloseAll
  <2>2. /\ child'.stage = child.stage /\ child'.committed = child.committed
        /\ child'.pc = child.pc \/ (child.pc = "none" /\ child'.pc = "import") \/ child'.pc = "exited"
        /\ child'.ok => child.ok /\ child'.pc = "exited"
        /\ child'.pc = "none" => monitor'.pc = "none"
    <3>1. CASE UNCHANGED <<child, monitor>>
      BY <1>0, <3>1 DEF RowsInv, Shape
    <3>2. CASE StartSqlite \/ StartMonitor
      BY <1>0, <3>2 DEF RowsInv, ChildInv, Shape, StartSqlite, StartMonitor, Monitor
    <3>3. CASE KillChild
      BY <1>0, <3>3 DEF RowsInv, Shape, KillChild, Alive
    <3>4. CASE ParentKilled
      BY <1>0, <3>4 DEF RowsInv, Shape, ParentKilled, Monitor
    <3> QED
      BY <1>2, <3>1, <3>2, <3>3, <3>4 DEF Calling, Finish, AbortOpen, Finishing, Fail, SortDump,
         AwaitReady, SendSql, Drain, StopChild, Terminated, CloseAll
  <2>3. control' \in {"none", "open", "partial", "whole", "hangup"}
    BY <1>2 DEF RowsInv, Calling, Finish, AbortOpen, Finishing, Fail, ParentKilled, SortDump,
         StartSqlite, StartMonitor, AwaitReady, SendSql, Drain, StopChild, Terminated, KillChild, CloseAll, Hangup
  <2>4. parent'.answer = "none" <=> parent'.pc # "done"
    <3>1. (\E pc \in ParentSteps \ {"done"} : Goto(pc)) \/ UNCHANGED parent \/ End("ok") \/ End("failed")
      BY <1>2 DEF Calling, Finish, AbortOpen, Finishing, Fail, ParentKilled, SortDump,
         StartSqlite, StartMonitor, AwaitReady, SendSql, Drain, StopChild, Terminated, KillChild, CloseAll,
         ParentSteps
    <3>2. parent.pc # "done" \/ UNCHANGED parent
      BY <1>2 DEF Calling, Finish, AbortOpen, Finishing, Fail, ParentKilled, SortDump,
         StartSqlite, StartMonitor, AwaitReady, SendSql, Drain, StopChild, Terminated, KillChild, CloseAll
    <3> QED
      BY <1>0, <3>1, <3>2 DEF RowsInv, Shape, Goto, End
  <2> QED
    BY <1>0, <2>1, <2>2, <2>3, <2>4 DEF RowsInv
<1> QED
  BY <1>1, <1>2

LEMMA RowsSqlite == RowsInv /\ (Sqlite \/ ChildFails \/ ChildWarns) => RowsInv'
<1> SUFFICES ASSUME RowsInv, Sqlite \/ ChildFails \/ ChildWarns PROVE RowsInv'
  OBVIOUS
<1>0. Shape /\ ChildInv' /\ UNCHANGED <<parent, control, monitor>> /\ UNCHANGED written
  <2>1. Shape /\ ChildInv'
    BY ChildStep DEF RowsInv, ChildInv, Next
  <2>2. UNCHANGED written
    BY DEF Sqlite, Import, PrintMarker, ReadSql, Transaction, Rollback, Exit, ChildFails, ChildWarns
  <2> QED
    BY <2>1, <2>2, SqliteMoves
<1>1. CASE Import
  <2>1. Staged(child'.stage, written) /\ child'.pc = "loaded" /\ child'.ok = child.ok
          /\ child'.committed = child.committed /\ target' = target
    <3>1. Grouped(written) \in Seq(Row)
      BY GroupsAre DEF RowsInv
    <3>2. DOMAIN Sorted = 1 .. Len(Grouped(written)) /\ Sorted = Grouped(written)
      BY <3>1 DEF Sorted
    <3>3. PICK stage : /\ stage = Sorted \/ \E i \in DOMAIN Sorted : stage = RemoveAt(Sorted, i)
                       /\ \/ child' = [child EXCEPT !.pc = "loaded", !.stage = stage, !.trailer = TRUE]
                          \/ child' = [child EXCEPT !.pc = "loaded", !.stage = stage]
      BY <1>1 DEF Import
    <3>4. Staged(stage, written)
      BY <3>2, <3>3 DEF Staged
    <3>5. /\ child'.stage = stage /\ child'.pc = "loaded" /\ child'.ok = child.ok
          /\ child'.committed = child.committed /\ target' = target
      <4> HIDE DEF Staged
      <4> QED
        BY <1>0, <1>1, <3>3 DEF Import, Shape
    <3> QED
      BY <3>4, <3>5
  <2>2. child'.stage \in Seq(Row)
    BY <2>1, StageIsSound DEF RowsInv
  <2> QED
    BY <1>0, <1>1, <2>1, <2>2 DEF RowsInv, Import
<1>2. CASE PrintMarker \/ ReadSql \/ Rollback \/ Exit \/ ChildFails \/ ChildWarns
  <2>1. target' = target /\ child'.stage = child.stage /\ child'.committed = child.committed
    BY <1>0, <1>2 DEF Shape, PrintMarker, ReadSql, Rollback, Exit, ChildFails, ChildWarns, ChildGoto
  <2>2. /\ child'.pc \in {"loaded", "read", "transaction"} => child.pc \in {"loaded", "read", "transaction"}
        /\ child.committed => child'.pc \in {"committed", "printed", "exited"}
        /\ child'.pc \in {"committed", "printed"} => child.committed
        /\ child'.ok => child.committed /\ child'.pc = "exited"
        /\ child'.pc # "none" /\ child.pc # "none"
    BY <1>0, <1>2 DEF RowsInv, Shape, PrintMarker, ReadSql, Rollback, Exit, ChildFails, ChildWarns,
                      ChildGoto, Alive, ChildSteps
  <2> QED
    BY <1>0, <2>1, <2>2 DEF RowsInv
<1>3. CASE Transaction
  <2>1. Grouped(child.stage) \in Seq(Row)
    BY GroupsAre DEF RowsInv
  <2>2. target' \in Database
    BY <1>3, <2>1, LoadGrows DEF Transaction, Inserted, RowsInv
  <2>3. child'.pc = "committed" /\ child'.committed /\ child'.stage = child.stage /\ child'.ok = child.ok
          /\ child.pc = "transaction"
    BY <1>0, <1>3 DEF Transaction, Shape
  <2> QED
    BY <1>0, <2>2, <2>3 DEF RowsInv
<1> QED
  BY <1>1, <1>2, <1>3 DEF Sqlite

LEMMA RowsStep == RowsInv /\ [Next]_vars => RowsInv'
<1> SUFFICES ASSUME RowsInv, [Next]_vars PROVE RowsInv'
  OBVIOUS
<1>1. CASE Watching \/ MonitorFails
  <2>1. Shape /\ ChildInv' /\ UNCHANGED <<parent, child, control>> /\ UNCHANGED <<written, target>>
    <3>1. Shape /\ ChildInv'
      BY <1>1, ChildStep DEF RowsInv, ChildInv, Next
    <3>2. UNCHANGED <<written, target>>
      BY <1>1 DEF Watching, AcceptReady, EndOfOutput, MonitorFails
    <3> QED
      BY <1>1, <3>1, <3>2, WatchingMoves
  <2>2. monitor.pc # "none" /\ monitor'.pc # "none"
    BY <1>1, <2>1 DEF Shape, Monitor, Watching, AcceptReady, EndOfOutput, MonitorFails
  <2> QED
    BY <2>1, <2>2 DEF RowsInv
<1>2. CASE UNCHANGED vars
  <2>1. ChildInv'
    BY ChildStep DEF RowsInv
  <2> QED
    BY <1>2, <2>1 DEF vars, RowsInv, Alive
<1> QED
  BY <1>1, <1>2, RowsCalling, RowsSqlite DEF Next, Calling

(* The variables have the types the module states.                          *)
THEOREM ImportTypeCorrect == Spec => []TypeOK
<1>1. RowsInv => TypeOK
  <2> SUFFICES ASSUME RowsInv PROVE TypeOK
    OBVIOUS
  <2>1. Shape
    BY DEF RowsInv, ChildInv
  <2>2. parent \in Parent
    BY <2>1 DEF Shape, Parent
  <2>3. child \in Child
    BY <2>1 DEF Shape, Child, ChildSteps, RowsInv
  <2> QED
    BY <2>1, <2>2, <2>3 DEF RowsInv, TypeOK, Shape
<1> QED
  BY <1>1, RowsInitial, RowsStep, PTL DEF Spec

-----------------------------------------------------------------------------
(***************************************************************************)
(* The refinement.  The import is committed from the transaction on, and   *)
(* until then open as long as rows are written; each step of an actor is a *)
(* step of AtomicImport or leaves what it speaks of alone.                 *)
(***************************************************************************)
Phase == IF child.committed THEN "committed" ELSE IF parent.pc = "open" THEN "open" ELSE "closed"

LEMMA AtomicLoad ==
  ASSUME NEW database, NEW rows
  PROVE  Atomic!Load(database, rows) = Load(database, rows)
BY DEF Atomic!Load, Load, Atomic!FoldLeft, FoldLeft, Atomic!MapThenFoldSet, MapThenFoldSet,
       Atomic!Put, Put, Atomic!Cell, Cell, Atomic!Max, Max

LEMMA AtomicClashes ==
  ASSUME NEW database, NEW rows
  PROVE  Atomic!Clashes(database, rows) <=> Clashes(database, rows)
BY DEF Atomic!Clashes, Clashes, Atomic!Cell, Cell

(* What the transaction does to the database is what inserting the rows in the
   order written would do.                                                  *)
LEMMA TransactionInserts ==
  ASSUME RowsInv, Transaction
  PROVE  ~Clashes(target, written) /\ target' = Load(target, written)
<1>1. /\ written \in Seq(Row) /\ target \in Database /\ Staged(child.stage, written)
      /\ Counted(child.stage, written)
  BY DEF RowsInv, Transaction, StageIsWhole, Counted
<1>2. Inserted \in Seq(Row) /\ SameCells(Inserted, written)
  BY <1>1, StageIsSound DEF Inserted
<1>3. Load(target, Inserted) = Load(target, written)
  BY <1>1, <1>2, LoadSame
<1>4. Clashes(target, Inserted) <=> Clashes(target, written)
  BY <1>1, <1>2, ClashesSame
<1> QED
  BY <1>3, <1>4 DEF Transaction

LEMMA AtomicStarts == Init => Atomic!Init
<1> SUFFICES ASSUME Init PROVE Atomic!Init
  OBVIOUS
<1>1. target \in Atomic!Database
  BY ImportAssumption DEF Init, Database, Atomic!Database
<1> QED
  BY <1>1 DEF Init, Atomic!Init

LEMMA AtomicCalling == RowsInv /\ Calling => [Atomic!Next]_(Atomic!importVars)
<1> SUFFICES ASSUME RowsInv, Calling PROVE Atomic!Next \/ UNCHANGED Atomic!importVars
  OBVIOUS
<1>0. Shape
  BY DEF RowsInv, ChildInv
<1>1. CASE \E r \in Row : Write(r)
  <2>1. PICK r \in Row : Write(r)
    BY <1>1
  <2>2. r \in Atomic!Row
    BY DEF Row, Atomic!Row
  <2>3. ~child.committed
    BY <2>1 DEF Write, RowsInv, ChildInv
  <2>4. Atomic!Accept
    BY <2>1, <2>2, <2>3 DEF Write, Atomic!Accept
  <2> QED
    BY <2>4 DEF Atomic!Next
<1>2. CASE ~\E r \in Row : Write(r)
  <2>1. /\ written' = written /\ target' = target
        /\ child' = child \/ (StartSqlite \/ KillChild)
    BY <1>2 DEF Calling, Finish, AbortOpen, Finishing, Fail, ParentKilled, SortDump,
         StartSqlite, StartMonitor, AwaitReady, SendSql, Drain, StopChild, Terminated, KillChild, CloseAll
  <2>2. child'.committed = child.committed
    BY <1>0, <2>1 DEF Shape, StartSqlite, KillChild
  <2>3. CASE AbortOpen
    <3>1. ~child.committed
      BY <2>3 DEF AbortOpen, RowsInv, ChildInv
    <3>2. Atomic!Reject
      BY <2>1, <2>2, <2>3, <3>1 DEF AbortOpen, End, Atomic!Reject
    <3> QED
      BY <3>2 DEF Atomic!Next
  <2>4. CASE Finish \/ ParentKilled
    <3>1. parent'.answer = parent.answer /\ parent'.pc # "open"
      BY <1>0, <2>4 DEF Finish, ParentKilled, Goto, Shape
    <3>2. CASE parent.pc = "open"
      <4>1. ~child.committed
        BY <3>2 DEF RowsInv, ChildInv
      <4>2. Atomic!Close
        BY <2>1, <2>2, <3>1, <3>2, <4>1 DEF Atomic!Close
      <4> QED
        BY <4>2 DEF Atomic!Next
    <3>3. CASE parent.pc # "open"
      BY <2>1, <2>2, <3>1, <3>3 DEF Atomic!importVars
    <3> QED
      BY <3>2, <3>3
  <2>5. CASE Fail \/ Finishing
    <3>1. parent.pc \notin {"open", "done"}
      BY <2>5 DEF Finishing, Fail, SortDump, StartSqlite, StartMonitor, AwaitReady, SendSql, Drain, StopChild,
                  Terminated, KillChild, CloseAll
    <3>2. /\ \/ parent'.answer = parent.answer
             \/ parent'.answer = "failed"
             \/ parent'.answer = "ok" /\ child.ok
          /\ parent'.pc # "open"
      <4>1. CASE Fail \/ SortDump \/ StartSqlite \/ StartMonitor \/ AwaitReady \/ SendSql \/ StopChild \/ Terminated \/ KillChild
        BY <1>0, <3>1, <4>1 DEF Fail, SortDump, StartSqlite, StartMonitor, AwaitReady, SendSql, StopChild, Terminated,
                         KillChild, Goto, Shape
      <4>2. CASE Drain \/ CloseAll
        BY <1>0, <4>2 DEF Drain, CloseAll, Goto, End, Shape
      <4> QED
        BY <2>5, <4>1, <4>2 DEF Finishing
    <3>3. parent.answer = "none" /\ (child.ok => child.committed)
      BY <3>1 DEF RowsInv
    <3>4. CASE parent'.answer = parent.answer
      BY <2>1, <2>2, <3>1, <3>2, <3>4 DEF Atomic!importVars
    <3>5. CASE parent'.answer \in {"ok", "failed"}
      <4>1. parent'.answer = "ok" => child.committed
        BY <3>2, <3>3, <3>5
      <4>2. Atomic!Answer
        BY <2>1, <2>2, <3>1, <3>2, <3>3, <3>5, <4>1 DEF Atomic!Answer
      <4> QED
        BY <4>2 DEF Atomic!Next
    <3> QED
      BY <3>2, <3>4, <3>5
  <2> QED
    BY <1>2, <2>3, <2>4, <2>5 DEF Calling
<1> QED
  BY <1>1, <1>2

LEMMA AtomicOthers ==
  RowsInv /\ (Sqlite \/ ChildFails \/ ChildWarns \/ Watching \/ MonitorFails) => [Atomic!Next]_(Atomic!importVars)
<1> SUFFICES ASSUME RowsInv, Sqlite \/ ChildFails \/ ChildWarns \/ Watching \/ MonitorFails
             PROVE  Atomic!Next \/ UNCHANGED Atomic!importVars
  OBVIOUS
<1>0. Shape
  BY DEF RowsInv, ChildInv
<1>1. CASE Transaction
  <2>1. ~Clashes(target, written) /\ target' = Load(target, written)
    BY <1>1, TransactionInserts
  <2>2. ~Atomic!Clashes(target, written) /\ target' = Atomic!Load(target, written)
    BY <2>1, AtomicLoad, AtomicClashes
  <2>3. child.pc = "transaction" /\ child'.committed /\ UNCHANGED <<written, parent>>
    BY <1>0, <1>1 DEF Transaction, Shape
  <2>4. ~child.committed /\ parent.pc # "open" /\ parent.answer = "none"
    BY <2>3 DEF RowsInv, ChildInv, Alive
  <2>5. Atomic!Commit
    BY <2>2, <2>3, <2>4 DEF Atomic!Commit
  <2> QED
    BY <2>5 DEF Atomic!Next
<1>2. CASE ~Transaction
  <2>1. UNCHANGED <<written, target, parent>>
    BY <1>2 DEF Sqlite, Import, PrintMarker, ReadSql, Rollback, Exit, ChildFails, ChildWarns,
                Watching, AcceptReady, EndOfOutput, MonitorFails
  <2>2. child'.committed = child.committed
    <3>1. CASE Sqlite \/ ChildFails
      BY <1>0, <1>2, <3>1 DEF Shape, Sqlite, Import, PrintMarker, ReadSql, Rollback, Exit, ChildFails, ChildGoto
    <3>2. CASE ChildWarns \/ Watching \/ MonitorFails
      BY <3>2 DEF ChildWarns, Watching, AcceptReady, EndOfOutput, MonitorFails
    <3> QED
      BY <3>1, <3>2
  <2> QED
    BY <2>1, <2>2 DEF Atomic!importVars
<1> QED
  BY <1>1, <1>2

(* The importer keeps the promise of AtomicImport: all of the rows or none, as
   if inserted one by one in the order written, although they travel through a
   sorted dump, a stage and one INSERT per table; "ok" only when they are in,
   nothing after an answer (sqlite_cli.py:195-293, 443-494).                 *)
THEOREM ImportIsAtomic == Spec => IsAtomic
<1>1. RowsInv /\ [Next]_vars => [Atomic!Next]_(Atomic!importVars)
  <2>1. ASSUME UNCHANGED vars PROVE UNCHANGED Atomic!importVars
    BY <2>1 DEF vars, Atomic!importVars
  <2> QED
    BY <2>1, AtomicCalling, AtomicOthers DEF Next, Calling
<1> QED
  BY <1>1, AtomicStarts, RowsInitial, RowsStep, PTL DEF Spec, IsAtomic, Atomic!Spec
=============================================================================
