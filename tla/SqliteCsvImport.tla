--------------------------- MODULE SqliteCsvImport ---------------------------
(***************************************************************************)
(* SqliteCsvImporter (src/src/codekg/sqlite_cli.py:36-503): rows of several *)
(* tables are dumped to a private CSV file, sorted by table, and loaded by *)
(* one sqlite3 child process.  A monitor thread reads what the child       *)
(* prints; the finishing thread waits for the READY line, sends the SQL of *)
(* the transaction through a pipe and waits for the child to exit.         *)
(*                                                                         *)
(* The three actors share the pipes, the READY event and the process.  The *)
(* caller may give up or be interrupted at any point, the child may fail,  *)
(* hang or print something unexpected, and the parent may be killed.       *)
(*                                                                         *)
(* A JSON payload is abstracted to a key and a value; what the child prints *)
(* to the two markers and to unexpected output on stderr.                  *)
(***************************************************************************)
EXTENDS TaggedRows

CONSTANTS
  TableOrder,     \* the tables, in the order of the mapping
  MaxRows,        \* bound: rows written
  Existing,       \* the contents the database may have before
  Corrupt         \* may sort or .import lose a record without an error?

ASSUME ImportAssumption ==
  /\ TableOrder \in Seq(Tables) /\ {TableOrder[i] : i \in DOMAIN TableOrder} = Tables
  /\ \A i, j \in DOMAIN TableOrder : TableOrder[i] = TableOrder[j] => i = j
  /\ MaxRows \in Nat
  /\ Existing \subseteq Database
  /\ Corrupt \in BOOLEAN

VARIABLES
  written,   \* the rows accepted by write
  target,    \* the database file
  parent,    \* the step of the finishing thread, and what it answered
  child,     \* the step of the sqlite3 process, its exit status, its stage
  control,   \* what went into the pipe the child reads SQL from
  stdout,    \* the lines the child has printed
  stderr,    \* has the child printed to stderr?
  monitor    \* the monitor thread and what it told the finishing thread

vars == <<written, target, parent, child, control, stdout, stderr, monitor>>

-----------------------------------------------------------------------------
ParentSteps == {"open", "sort", "start", "watch", "wait", "send", "drain", "stop", "term",
                "close", "done", "killed"}
Markers     == {"READY", "SUCCESS"}

Parent  == [pc : ParentSteps, answer : {"none", "ok", "failed"}]
Child   == [pc : {"none", "import", "loaded", "read", "transaction", "committed",
                  "printed", "exited"},
            ok : BOOLEAN, stage : Seq(Row), trailer : BOOLEAN,
            clean : BOOLEAN,      \* history: READY was the first thing it printed
            committed : BOOLEAN]  \* history: the transaction is in the database
Monitor == [pc : {"none", "watching", "ended"},
            event : BOOLEAN, ready : BOOLEAN, error : BOOLEAN, failure : BOOLEAN]

Init ==
  /\ written = <<>>
  /\ target \in Existing
  /\ parent = [pc |-> "open", answer |-> "none"]
  /\ child = [pc |-> "none", ok |-> FALSE, stage |-> <<>>, trailer |-> FALSE,
              clean |-> FALSE, committed |-> FALSE]
  /\ control = "none"
  /\ stdout = <<>>
  /\ stderr = FALSE
  /\ monitor = [pc |-> "none", event |-> FALSE, ready |-> FALSE, error |-> FALSE,
                failure |-> FALSE]

Goto(pc)   == parent' = [parent EXCEPT !.pc = pc]
End(a)     == parent' = [pc |-> "done", answer |-> a]
Alive      == child.pc \notin {"none", "exited"}
Output     == <<stdout, stderr>>

-----------------------------------------------------------------------------
(* The calling thread.                                                      *)
Write(r) ==
  /\ parent.pc = "open" /\ Len(written) < MaxRows
  /\ written' = Append(written, r)
  /\ UNCHANGED <<target, parent, child, control, Output, monitor>>

(* A row that cannot be serialized or an exception in the caller's block:
   abort, before there is a child.                                          *)
AbortOpen ==
  /\ parent.pc = "open"
  /\ End("failed")
  /\ UNCHANGED <<written, target, child, control, Output, monitor>>

(* finish: the trailer is written and the dump is closed.                   *)
Finish ==
  /\ parent.pc = "open"
  /\ Goto("sort")
  /\ UNCHANGED <<written, target, child, control, Output, monitor>>

(* _sort_dump.                                                              *)
SortDump ==
  /\ parent.pc = "sort"
  /\ Goto("start")
  /\ UNCHANGED <<written, target, child, control, Output, monitor>>

(* _start_sqlite: the child and the pipe, of which it gets the reading end. *)
StartSqlite ==
  /\ parent.pc = "start"
  /\ child' = [child EXCEPT !.pc = "import"]
  /\ control' = "open"
  /\ Goto("watch")
  /\ UNCHANGED <<written, target, Output, monitor>>

(* The thread that reads what the child, which is at work already, prints.  *)
StartMonitor ==
  /\ parent.pc = "watch"
  /\ monitor' = [monitor EXCEPT !.pc = "watching"]
  /\ Goto("wait")
  /\ UNCHANGED <<written, target, child, control, Output>>

(* _ready_event.wait(), then the monitor's verdict.  Without READY the child
   is waited for, for its diagnostics, and the import fails.                *)
AwaitReady ==
  /\ parent.pc = "wait" /\ monitor.event
  /\ IF monitor.failure THEN Goto("stop")
     ELSE IF monitor.ready THEN Goto(IF monitor.error THEN "stop" ELSE "send")
     ELSE child.pc = "exited" /\ monitor.pc = "ended" /\ Goto("stop")
  /\ UNCHANGED <<written, target, child, control, Output, monitor>>

(* The SQL, in more than one write; a dead child breaks the pipe.  The last
   write is followed by a close.                                            *)
SendSql ==
  /\ parent.pc = "send"
  /\ IF ~Alive THEN Goto("stop") /\ UNCHANGED control
     ELSE \/ control = "open" /\ control' = "partial" /\ UNCHANGED parent
          \/ control' = "whole" /\ Goto("drain")
  /\ UNCHANGED <<written, target, child, Output, monitor>>

(* process.wait(), monitor.join(), then the exit status and both outputs, of
   which a monitor that failed may have kept any part.                      *)
Drain ==
  /\ parent.pc = "drain" /\ child.pc = "exited" /\ monitor.pc = "ended"
  /\ IF child.ok /\ stdout = <<"READY", "SUCCESS">> /\ (stderr => monitor.failure)
     THEN End("ok") \/ (monitor.failure /\ Goto("stop"))
     ELSE Goto("stop")
  /\ UNCHANGED <<written, target, child, control, Output, monitor>>

(* Faulty variant: a child that is still running is left alone.             *)
StopNothing ==
  /\ parent.pc = "stop"
  /\ Goto("close")
  /\ UNCHANGED <<written, target, child, control, Output, monitor>>

(* _stop_child: SIGTERM unless the child has exited, up to two seconds of
   waiting, SIGKILL, and then the pipes are closed.  The monitor is joined
   with a timeout, so closing waits for nobody.                             *)
StopChild ==
  /\ parent.pc = "stop"
  /\ Goto(IF Alive THEN "term" ELSE "close")
  /\ UNCHANGED <<written, target, child, control, Output, monitor>>

Terminated ==
  /\ parent.pc = "term" /\ ~Alive
  /\ Goto("close")
  /\ UNCHANGED <<written, target, child, control, Output, monitor>>

KillChild ==
  /\ parent.pc = "term" /\ Alive
  /\ child' = [child EXCEPT !.pc = "exited", !.ok = FALSE]
  /\ Goto("close")
  /\ UNCHANGED <<written, target, control, Output, monitor>>

Hangup == control' = IF control \in {"open", "partial"} THEN "hangup" ELSE control

CloseAll ==
  /\ parent.pc = "close"
  /\ Hangup
  /\ End("failed")
  /\ UNCHANGED <<written, target, child, Output, monitor>>

(* An error in a step of finish, a timeout of none: KeyboardInterrupt, a
   full disk, a missing executable.                                         *)
Fail ==
  /\ parent.pc \in {"sort", "start", "watch", "wait", "send", "drain"}
  /\ Goto("stop")
  /\ UNCHANGED <<written, target, child, control, Output, monitor>>

(* Faulty variant: the child holds the writing end of the pipe as well.     *)
ParentKilledLeaking ==
  /\ parent.pc \notin {"done", "killed"}
  /\ Goto("killed")
  /\ monitor' = [monitor EXCEPT !.pc = IF @ = "watching" THEN "ended" ELSE @]
  /\ UNCHANGED <<written, target, child, control, Output>>

(* The whole parent process is killed: nobody reads or writes the pipes.    *)
ParentKilled ==
  /\ parent.pc \notin {"done", "killed"}
  /\ Goto("killed")
  /\ monitor' = [monitor EXCEPT !.pc = IF @ = "watching" THEN "ended" ELSE @]
  /\ Hangup
  /\ UNCHANGED <<written, target, child, Output>>

-----------------------------------------------------------------------------
(* The sqlite3 process.                                                     *)
ChildGoto(pc) == child' = [child EXCEPT !.pc = pc]

(* The rows table by table, each table's in their order: the sorted dump, for
   sort is stable (the order of its tags does not matter to what follows), and
   what the INSERTs select.                                                  *)
Grouped(rows) == FlattenSeq([i \in DOMAIN TableOrder |-> OfTable(rows, TableOrder[i])])
Sorted == Grouped(written)

(* .import of the dump into the stage.                                      *)
Import ==
  /\ child.pc = "import"
  /\ \/ child' = [child EXCEPT !.pc = "loaded", !.stage = Sorted, !.trailer = TRUE]
     \/ /\ Corrupt
        /\ \/ child' = [child EXCEPT !.pc = "loaded", !.stage = Sorted]
           \/ \E i \in DOMAIN Sorted :
                child' = [child EXCEPT !.pc = "loaded", !.trailer = TRUE,
                                       !.stage = RemoveAt(Sorted, i)]
  /\ UNCHANGED <<written, target, parent, control, Output, monitor>>

PrintMarker ==
  /\ \/ /\ child.pc = "loaded"
        /\ child' = [child EXCEPT !.pc = "read", !.clean = ~stderr]
        /\ stdout' = Append(stdout, "READY")
     \/ child.pc = "committed" /\ ChildGoto("printed") /\ stdout' = Append(stdout, "SUCCESS")
  /\ UNCHANGED <<written, target, parent, control, stderr, monitor>>

(* .read of the pipe: the child runs what it got once the pipe is closed.  A
   transaction cut short is rolled back when the child exits.               *)
ReadSql ==
  /\ child.pc = "read"
  /\ \/ control = "whole" /\ ChildGoto("transaction")
     \/ control = "hangup" /\ child' = [child EXCEPT !.pc = "exited"]
  /\ UNCHANGED <<written, target, parent, control, Output, monitor>>

(* Faulty variant: only the presence of the trailer is checked.             *)
StageOfAnySize(rows) == child.trailer

(* The inserted assertion: one trailer, and as many rows of every table as it
   says were written.                                                       *)
StageIsWhole(rows) ==
  /\ child.trailer
  /\ \A t \in Tables : Len(OfTable(child.stage, t)) = Len(OfTable(rows, t))

Inserted == Grouped(child.stage)

(* BEGIN IMMEDIATE ... COMMIT: an INSERT ... SELECT per table, in the order
   of the mapping, each in the order of the stage.                          *)
Transaction ==
  /\ child.pc = "transaction"
  /\ StageIsWhole(written) /\ ~Clashes(target, Inserted)
  /\ target' = Load(target, Inserted)
  /\ child' = [child EXCEPT !.pc = "committed", !.committed = TRUE]
  /\ UNCHANGED <<written, parent, control, Output, monitor>>

(* The assertion or an INSERT fails; -bail ends the child, which rolls back. *)
Rollback ==
  /\ child.pc = "transaction"
  /\ ~StageIsWhole(written) \/ Clashes(target, Inserted)
  /\ child' = [child EXCEPT !.pc = "exited"]
  /\ UNCHANGED <<written, target, parent, control, Output, monitor>>

Exit ==
  /\ child.pc = "printed"
  /\ child' = [child EXCEPT !.pc = "exited", !.ok = TRUE]
  /\ UNCHANGED <<written, target, parent, control, Output, monitor>>

(* A busy database, a full disk, a signal, a crash, a marker nobody reads.  *)
ChildFails ==
  /\ Alive
  /\ child' = [child EXCEPT !.pc = "exited", !.ok = FALSE]
  /\ UNCHANGED <<written, target, parent, control, Output, monitor>>

ChildWarns ==
  /\ Alive /\ ~stderr
  /\ stderr' = TRUE
  /\ UNCHANGED <<written, target, parent, child, control, stdout, monitor>>

-----------------------------------------------------------------------------
(* _monitor_output, with _read_stream and _maybe_accept_ready.              *)

(* Faulty variant: any output releases the finishing thread.                *)
AcceptAnything ==
  /\ monitor.pc = "watching" /\ ~monitor.ready
  /\ stdout # <<>> \/ stderr
  /\ monitor' = [monitor EXCEPT !.ready = TRUE, !.event = TRUE]
  /\ UNCHANGED <<written, target, parent, child, control, Output>>

(* READY is in what was read; everything printed before it has been drained. *)
AcceptReady ==
  /\ monitor.pc = "watching" /\ ~monitor.ready
  /\ "READY" \in {stdout[i] : i \in DOMAIN stdout}
  /\ monitor' = [monitor EXCEPT !.ready = TRUE, !.event = TRUE,
                                !.error = stdout # <<"READY">> \/ stderr]
  /\ UNCHANGED <<written, target, parent, child, control, Output>>

(* Faulty variant: the event is set by READY alone.                         *)
EndOfOutputUnannounced ==
  /\ monitor.pc = "watching" /\ child.pc = "exited"
  /\ "READY" \in {stdout[i] : i \in DOMAIN stdout} => monitor.ready
  /\ monitor' = [monitor EXCEPT !.pc = "ended", !.error = @ \/ ~monitor.ready]
  /\ UNCHANGED <<written, target, parent, child, control, Output>>

(* Both streams are at their end: without READY this is the answer.         *)
EndOfOutput ==
  /\ monitor.pc = "watching" /\ child.pc = "exited"
  /\ "READY" \in {stdout[i] : i \in DOMAIN stdout} => monitor.ready
  /\ monitor' = [monitor EXCEPT !.pc = "ended", !.event = TRUE,
                                !.error = @ \/ ~monitor.ready]
  /\ UNCHANGED <<written, target, parent, child, control, Output>>

(* An exception in the thread, closed pipes included.                       *)
MonitorFails ==
  /\ monitor.pc = "watching"
  /\ monitor' = [monitor EXCEPT !.pc = "ended", !.event = TRUE, !.error = TRUE,
                                !.failure = TRUE]
  /\ UNCHANGED <<written, target, parent, child, control, Output>>

-----------------------------------------------------------------------------
Finishing ==
  \/ SortDump \/ StartSqlite \/ StartMonitor \/ AwaitReady \/ SendSql \/ Drain
  \/ StopChild \/ Terminated \/ KillChild \/ CloseAll

Sqlite == Import \/ PrintMarker \/ ReadSql \/ Transaction \/ Rollback \/ Exit

Watching == AcceptReady \/ EndOfOutput

Next ==
  \/ \E r \in Row : Write(r)
  \/ Finish \/ AbortOpen \/ Finishing \/ Fail \/ ParentKilled
  \/ Sqlite \/ ChildFails \/ ChildWarns
  \/ Watching \/ MonitorFails

(* The two threads run.  sqlite3 makes progress as long as it is left alone;
   once it is being stopped nothing is assumed of it.                       *)
Fairness ==
  /\ WF_vars(Finishing)
  /\ WF_vars(Watching)
  /\ WF_vars(parent.pc \notin {"stop", "term"} /\ Sqlite)

Spec == Init /\ [][Next]_vars /\ Fairness

-----------------------------------------------------------------------------
TypeOK ==
  /\ written \in Seq(Row)
  /\ target \in Database
  /\ parent \in Parent
  /\ child \in Child
  /\ control \in {"none", "open", "partial", "whole", "hangup"}
  /\ stdout \in Seq(Markers)
  /\ stderr \in BOOLEAN
  /\ monitor \in Monitor
  /\ child.pc = "none" => monitor.pc = "none"

(* "READY is printed only after .import completes": no byte of SQL is sent to
   a child that is still importing, or that complained while it was importing
   (sqlite_cli.py:407-430).                                                 *)
SqlAfterBarrier ==
  parent.pc = "send" \/ control \in {"partial", "whole"} => child.clean

(* When finish or abort is over, so is the child: nothing writes to the
   database behind the caller's back (sqlite_cli.py:271-293).               *)
NoChildLeft == parent.pc = "done" => ~Alive

(* The importer keeps its promise: all of the rows or none, as if inserted in
   the order written, "ok" only when they are in, nothing after the answer. *)
Atomic == INSTANCE AtomicImport WITH
  rows     <- written,
  database <- target,
  phase    <- IF child.committed THEN "committed"
              ELSE IF parent.pc = "open" THEN "open" ELSE "closed",
  answer   <- parent.answer

IsAtomic == Atomic!Spec

(* A finish that began ends, with an answer, whatever the child and the
   monitor do: the READY event is always set in the end, and a child that
   does not react is killed (sqlite_cli.py:195-293, 361-386).               *)
FinishEnds == parent.pc \notin {"open", "done", "killed"} ~> parent.pc \in {"done", "killed"}

(* A child whose parent was killed does not stay behind, waiting for SQL with
   the database open (sqlite_cli.py:109-142: the pipe is closed in the child). *)
OrphanEnds == parent.pc = "killed" ~> ~Alive
=============================================================================
