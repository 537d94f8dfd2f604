------------------------- MODULE RegistryActivation -------------------------
(***************************************************************************)
(* `codekg graph activate` and `codekg graph rollback`                     *)
(* (src/src/codekg/graph_lifecycle.py:503-599) over the directory that     *)
(* holds the candidate, the active and the `.previous` registry TOML.      *)
(*                                                                         *)
(* Operators run the two commands as separate processes with no lock       *)
(* between them, a human edits the candidate file, any system call may     *)
(* fail, a process may be killed and the machine may lose power.           *)
(*                                                                         *)
(* Files are abstracted to what GraphRegistry.load makes of their bytes: a *)
(* member of Registries, or Malformed when load rejects them.  A directory *)
(* entry also remembers whether its bytes were fsynced; the directory is   *)
(* journalled: what is on disk is always some past state of the entries.   *)
(***************************************************************************)

CONSTANTS
  Operators,        \* concurrent invocations of the command line
  Registries,       \* the registry contents GraphRegistry.load accepts
  Malformed,        \* bytes GraphRegistry.load rejects (torn, truncated, invalid)
  NoFile,           \* the name does not exist
  RollbackSources,  \* what `rollback --previous` may name; default "previous"
  LateEdits         \* what the candidate may be rewritten to while it is being activated

Files    == {"candidate", "active", "previous"}
Contents == Registries \cup {Malformed, NoFile}
Entry    == [bytes : Contents, synced : BOOLEAN]

ASSUME RegistryAssumption ==
  /\ Malformed \notin Registries
  /\ NoFile \notin Registries
  /\ NoFile # Malformed
  /\ RollbackSources \subseteq Files
  /\ LateEdits \subseteq Contents

VARIABLES
  live,       \* the directory every process sees
  disk,       \* the directory a power failure would leave
  op,         \* the command each operator runs, or the last one it ran
  validated   \* history: registries whose backends some command has verified

vars == <<live, disk, op, validated>>

-----------------------------------------------------------------------------
(* One command.  source is the file the payload comes from, target the name
   _atomic_write is replacing, tmpSynced whether its temporary was fsynced. *)

Steps == {"idle", "loaded", "checked", "payload", "write", "sync", "replace", "syncdir"}
Kinds == {"activate", "rollback"}

Command ==
  [pc        : Steps,
   kind      : Kinds,
   source    : Files,
   loaded    : Contents,
   payload   : Contents,
   old       : Contents,
   target    : {"active", "previous"},
   tmpSynced : BOOLEAN,
   result    : {"none", "ok", "failed"}]

NoCommand ==
  [pc |-> "idle", kind |-> "activate", source |-> "candidate", loaded |-> NoFile,
   payload |-> NoFile, old |-> NoFile, target |-> "active", tmpSynced |-> FALSE,
   result |-> "none"]

Running(o) == op[o].pc # "idle"

(* What is remembered of a command that is over: how it ended and, when it
   returned normally, what it installed.                                    *)
Failed       == [NoCommand EXCEPT !.result = "failed"]
Returned(o)  == [NoCommand EXCEPT !.result = "ok", !.payload = op[o].payload]

Written(content, isSynced) == [bytes |-> content, synced |-> isSynced]

-----------------------------------------------------------------------------
(* The active registry an installation starts from counts as validated.     *)
Init ==
  /\ \E active \in Registries \cup {NoFile}, candidate \in Contents :
       /\ live = [f \in Files |-> IF f = "active"    THEN Written(active, TRUE) ELSE
                                  IF f = "candidate" THEN Written(candidate, TRUE)
                                                     ELSE Written(NoFile, TRUE)]
       /\ validated = {active} \ {NoFile}
  /\ disk = live
  /\ op = [o \in Operators |-> NoCommand]

(* A human, or a deployment tool, rewrites or removes the candidate file, at
   any time: what may come while a command has it in hand is LateEdits.     *)
EditCandidate(content, isSynced) ==
  /\ content \in LateEdits \/ \A o \in Operators : Running(o) => op[o].source # "candidate"
  /\ live' = [live EXCEPT !["candidate"] = Written(content, isSynced)]
  /\ UNCHANGED <<disk, op, validated>>

(* Faulty variants of Load: a command that skips the backend checks, a
   rollback that checks the active registry.                                *)
LoadUnchecked(o, kind, source) ==
  /\ ~Running(o)
  /\ live[source].bytes \in Registries
  /\ op' = [op EXCEPT ![o] = [NoCommand EXCEPT !.pc     = "checked",
                                               !.kind   = kind,
                                               !.source = source,
                                               !.loaded = live[source].bytes]]
  /\ UNCHANGED <<live, disk, validated>>

LoadOfActive(o, kind, source) ==
  LET file == IF kind = "rollback" THEN "active" ELSE source IN
  /\ ~Running(o)
  /\ live[file].bytes \in Registries
  /\ op' = [op EXCEPT ![o] = [NoCommand EXCEPT !.pc     = "loaded",
                                               !.kind   = kind,
                                               !.source = source,
                                               !.loaded = live[file].bytes]]
  /\ UNCHANGED <<live, disk, validated>>

(* GraphRegistry.load(candidate) or GraphRegistry.load(previous); a missing
   or malformed file ends the command before it changes anything.           *)
Load(o, kind, source) ==
  /\ ~Running(o)
  /\ live[source].bytes \in Registries
  /\ op' = [op EXCEPT ![o] = [NoCommand EXCEPT !.pc     = "loaded",
                                               !.kind   = kind,
                                               !.source = source,
                                               !.loaded = live[source].bytes]]
  /\ UNCHANGED <<live, disk, validated>>

BeginActivate(o) == Load(o, "activate", "candidate")

BeginRollback(o) == \E source \in RollbackSources : Load(o, "rollback", source)

(* backend_validator returns: every endpoint served its registered marker.  *)
ValidateBackends(o) ==
  /\ op[o].pc = "loaded"
  /\ op' = [op EXCEPT ![o].pc = "checked"]
  /\ validated' = validated \cup {op[o].loaded}
  /\ UNCHANGED <<live, disk>>

(* payload = <source>.read_bytes(): the file is read a second time.         *)
ReadPayload(o) ==
  /\ op[o].pc = "checked"
  /\ live[op[o].source].bytes # NoFile
  /\ op' = [op EXCEPT ![o].payload = live[op[o].source].bytes,
                      ![o].pc      = IF op[o].kind = "activate" THEN "payload" ELSE "write"]
  /\ UNCHANGED <<live, disk, validated>>

(* Faulty variant: the active registry is not copied aside.                 *)
ReadOldSkipped(o) ==
  /\ op[o].pc = "payload"
  /\ op' = [op EXCEPT ![o].pc = "write"]
  /\ UNCHANGED <<live, disk, validated>>

(* old_payload = active.read_bytes() if active.exists() else None; the
   `.previous` file is written only when there was an active one.           *)
ReadOld(o) ==
  /\ op[o].pc = "payload"
  /\ op' = [op EXCEPT ![o].old    = live["active"].bytes,
                      ![o].target = IF live["active"].bytes = NoFile
                                    THEN "active" ELSE "previous",
                      ![o].pc     = "write"]
  /\ UNCHANGED <<live, disk, validated>>

-----------------------------------------------------------------------------
(* _atomic_write(target, ...): mkstemp and write, fsync, rename, fsync of
   the directory.  The temporary has a name of its own, seen by nobody else. *)

Outgoing(o) == IF op[o].target = "previous" THEN op[o].old ELSE op[o].payload

WriteTemporary(o) ==
  /\ op[o].pc = "write"
  /\ op' = [op EXCEPT ![o].pc = "sync", ![o].tmpSynced = FALSE]
  /\ UNCHANGED <<live, disk, validated>>

(* Faulty variant: the temporary is renamed without an fsync.               *)
SyncTemporarySkipped(o) ==
  /\ op[o].pc = "sync"
  /\ op' = [op EXCEPT ![o].pc = "replace"]
  /\ UNCHANGED <<live, disk, validated>>

SyncTemporary(o) ==
  /\ op[o].pc = "sync"
  /\ op' = [op EXCEPT ![o].pc = "replace", ![o].tmpSynced = TRUE]
  /\ UNCHANGED <<live, disk, validated>>

Replace(o) ==
  /\ op[o].pc = "replace"
  /\ live' = [live EXCEPT ![op[o].target] = Written(Outgoing(o), op[o].tmpSynced)]
  /\ op' = [op EXCEPT ![o].pc = "syncdir"]
  /\ UNCHANGED <<disk, validated>>

(* Faulty variant: the directory is not fsynced after the rename.           *)
SyncDirectorySkipped(o) ==
  /\ op[o].pc = "syncdir"
  /\ op' = [op EXCEPT ![o] = IF @.target = "previous"
                             THEN [@ EXCEPT !.target = "active", !.pc = "write"]
                             ELSE Returned(o)]
  /\ UNCHANGED <<live, disk, validated>>

(* The first write of an activation is followed by the second; the command
   returns after the write of the active file.                              *)
SyncDirectory(o) ==
  /\ op[o].pc = "syncdir"
  /\ disk' = live
  /\ op' = [op EXCEPT ![o] = IF @.target = "previous"
                             THEN [@ EXCEPT !.target = "active", !.pc = "write"]
                             ELSE Returned(o)]
  /\ UNCHANGED <<live, validated>>

-----------------------------------------------------------------------------
(* A backend is down or carries another marker, the source vanished, a write
   or an fsync raised, or the process was killed: the command is over and
   whatever it had renamed stays renamed.                                   *)
Abort(o) ==
  /\ Running(o)
  /\ op' = [op EXCEPT ![o] = Failed]
  /\ UNCHANGED <<live, disk, validated>>

(* The journal commits the directory on its own.                            *)
JournalCommit ==
  /\ disk' = live
  /\ UNCHANGED <<live, op, validated>>

(* The machine restarts: running commands are gone, entries fall back to the
   journalled ones, and bytes that were never fsynced may be torn.          *)
PowerFailure ==
  /\ \E torn \in SUBSET {f \in Files : ~disk[f].synced} :
       live' = [f \in Files |-> IF f \in torn THEN Written(Malformed, TRUE)
                                ELSE Written(disk[f].bytes, TRUE)]
  /\ disk' = live'
  /\ op' = [o \in Operators |-> IF Running(o) THEN Failed ELSE op[o]]
  /\ UNCHANGED validated

Step(o) ==
  \/ BeginActivate(o)
  \/ BeginRollback(o)
  \/ ValidateBackends(o)
  \/ ReadPayload(o)
  \/ ReadOld(o)
  \/ WriteTemporary(o)
  \/ SyncTemporary(o)
  \/ Replace(o)
  \/ SyncDirectory(o)
  \/ Abort(o)

Next ==
  \/ \E o \in Operators : Step(o)
  \/ \E content \in Contents, isSynced \in BOOLEAN : EditCandidate(content, isSynced)
  \/ JournalCommit
  \/ PowerFailure

Spec == Init /\ [][Next]_vars

-----------------------------------------------------------------------------
TypeOK ==
  /\ live \in [Files -> Entry]
  /\ disk \in [Files -> Entry]
  /\ op \in [Operators -> Command]
  /\ \A o \in Operators : op[o].pc = "loaded" => op[o].loaded \in Registries
  /\ validated \subseteq Registries

(* The registry a new MCP process would load passed the backend checks of
   some command, whatever commands overlapped (activate_registry validates
   before it writes, graph_lifecycle.py:529-537).  The file is read again
   after the checks (533, 573), so one thing else may get in, and only that:
   what an edit put there while a command had it in hand.                   *)
ActiveWasValidated == live["active"].bytes \in validated \cup {NoFile} \cup LateEdits

(* Whatever instant the power fails, the active and the previous registry
   that come back are what was written, and each passed the checks or is a
   late edit (_atomic_write fsyncs before it renames,
   graph_lifecycle.py:583-592).                                             *)
PowerSafe ==
  \A f \in {"active", "previous"} :
    /\ disk[f].bytes \in validated \cup {NoFile} \cup LateEdits
    /\ disk[f].synced

(* A command that returned normally survives a power failure: its payload is
   the active registry on disk.  One operator: nobody else replaces it.     *)
AcknowledgedIsDurable ==
  \A o \in Operators :
    op[o].result = "ok" /\ ~Running(o) => disk["active"].bytes = op[o].payload

(* The step that switches the active file to o's payload.                   *)
Installs(o) == op[o].pc = "replace" /\ op[o].target = "active" /\ Replace(o)

(* "The prior active file is retained at <active>.previous"
   (graph_lifecycle.py:513): the switch happens only when the registry being
   replaced is already in the previous file, on disk.                       *)
PriorRetained ==
  [][\A o \in Operators :
       Installs(o) /\ op[o].kind = "activate" /\ live["active"].bytes # NoFile
         => disk["previous"].bytes = live["active"].bytes]_vars

(* With one operator, who rolls back to the previous file, the commands
   implement the switch: the two files change as RegistrySwitch allows and
   in no other way.  What the switch may install unvetted are late edits.   *)
Switch == INSTANCE RegistrySwitch WITH
  current <- [n \in {"active", "previous"} |-> live[n].bytes],
  durable <- [n \in {"active", "previous"} |-> disk[n].bytes],
  vetted  <- validated,
  Unvetted <- LateEdits

RefinesSwitch == Switch!Spec
=============================================================================
