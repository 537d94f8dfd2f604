------------------------------ MODULE Requests ------------------------------
(***************************************************************************)
(* The frame of the modules that model one request at a time: what was     *)
(* asked and answered (request: the tool, the deployment serving it, its   *)
(* status and the tool's own fields) and the local variables of the        *)
(* function that works on it (progress: where it is, pc, and the rest).    *)
(* A step is one loop iteration or one call that may fail.                 *)
(***************************************************************************)
EXTENDS Integers, Sequences

CONSTANT None  \* an absent value (SQL NULL, Python None)
VARIABLES request, progress
vars == <<request, progress>>

Idle == [pc |-> "idle"]
Asked(tool) == progress.pc = "idle" /\ request.tool = tool /\ request.status = "new"

Answer(status) ==
  /\ request' = [request EXCEPT !.status = status]
  /\ progress' = Idle

(* The seconds a request has are over: the next test of a loop sees it, or a
   call that was given the rest of the time raises.                          *)
Expire(pcs) ==
  /\ progress.pc \in pcs /\ ~progress.late
  /\ progress' = [progress EXCEPT !.late = TRUE]
  /\ UNCHANGED request
(* rows[offset : offset + limit], LIMIT and OFFSET.                          *)
Window(rows, offset, limit) ==
  SubSeq(rows, offset + 1, IF Len(rows) < offset + limit THEN Len(rows) ELSE offset + limit)

Deadline(pcs) == progress.pc \in pcs /\ Answer("deadline_exceeded")
=============================================================================
