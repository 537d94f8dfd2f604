---------------------- MODULE RegistryActivationProofs ----------------------
(***************************************************************************)
(* Theorems about RegistryActivation, for every set of operators and of    *)
(* registries.  Those about overlapping commands use no assumption but the *)
(* constants' types; the others say that commands run one at a time.  At   *)
(* the end RuntimePublication, the other way to change what is served: for *)
(* any number of runs of the script and any callables, what is served      *)
(* wherever the scripts fail or are killed, and whatever the operator does *)
(* to the services between them.                                           *)
(***************************************************************************)
EXTENDS RegistryActivation, RuntimePublication, TLAPS

(* The commands the actions build are commands.                             *)
LEMMA CommandTypes ==
  /\ NoCommand \in Command /\ NoCommand.pc = "idle"
  /\ Failed \in Command /\ Failed.pc = "idle"
  /\ \A o \in Operators :
       TypeOK => /\ op[o] \in Command
                 /\ Returned(o) \in Command /\ Returned(o).pc = "idle"
<1>1. NoCommand \in Command /\ NoCommand.pc = "idle"
  BY RegistryAssumption DEF NoCommand, Command, Steps, Kinds, Files, Contents
<1>2. Failed \in Command /\ Failed.pc = "idle"
  BY <1>1 DEF Failed, Command
<1>3. ASSUME NEW o \in Operators, TypeOK
      PROVE  /\ op[o] \in Command
             /\ Returned(o) \in Command /\ Returned(o).pc = "idle"
  <2>1. op[o] \in Command
    BY <1>3 DEF TypeOK
  <2>2. QED
    BY <2>1, <1>1 DEF Returned, Command
<1> QED
  BY <1>1, <1>2, <1>3

(* A directory entry the actions write is an entry.                         *)
LEMMA WrittenType ==
  ASSUME NEW content \in Contents, NEW isSynced \in BOOLEAN
  PROVE  Written(content, isSynced) \in Entry
BY DEF Written, Entry

(* Every initial state is well formed, and every step keeps it so.          *)
LEMMA TypeInit == Init => TypeOK
<1> SUFFICES ASSUME Init PROVE TypeOK
  OBVIOUS
<1>1. live \in [Files -> Entry]
  <2>1. PICK active \in Registries \cup {NoFile}, candidate \in Contents :
          live = [f \in Files |-> IF f = "active"    THEN Written(active, TRUE) ELSE
                                  IF f = "candidate" THEN Written(candidate, TRUE)
                                                     ELSE Written(NoFile, TRUE)]
    BY DEF Init
  <2>2. /\ Written(active, TRUE) \in Entry
        /\ Written(candidate, TRUE) \in Entry
        /\ Written(NoFile, TRUE) \in Entry
    BY WrittenType DEF Contents
  <2> QED
    BY <2>1, <2>2
<1>2. validated \subseteq Registries
  BY DEF Init
<1> QED
  BY <1>1, <1>2, CommandTypes DEF Init, TypeOK

LEMMA TypeStep == TypeOK /\ [Next]_vars => TypeOK'
<1> SUFFICES ASSUME TypeOK, [Next]_vars PROVE TypeOK'
  OBVIOUS
<1>0. ASSUME NEW o \in Operators, NEW c \in Command, op' = [op EXCEPT ![o] = c],
             c.pc = "loaded" => c.loaded \in Registries
      PROVE  /\ op' \in [Operators -> Command]
             /\ \A p \in Operators : op'[p].pc = "loaded" => op'[p].loaded \in Registries
  BY <1>0 DEF TypeOK
<1>a. ASSUME NEW f \in Files PROVE live[f].bytes \in Contents
  BY DEF TypeOK, Entry
<1>1. ASSUME NEW o \in Operators, NEW kind \in Kinds, NEW source \in Files,
             Load(o, kind, source)
      PROVE  TypeOK'
  <2> DEFINE c == [NoCommand EXCEPT !.pc     = "loaded",
                                    !.kind   = kind,
                                    !.source = source,
                                    !.loaded = live[source].bytes]
  <2>1. c \in Command /\ c.loaded = live[source].bytes
    BY CommandTypes, <1>a DEF Command, Steps
  <2>2. op' = [op EXCEPT ![o] = c]
    BY <1>1 DEF Load
  <2> QED
    BY <2>1, <2>2, <1>0, <1>1 DEF Load, TypeOK
<1>2. ASSUME NEW o \in Operators, BeginActivate(o) \/ BeginRollback(o) PROVE TypeOK'
  <2>1. /\ "activate" \in Kinds /\ "rollback" \in Kinds
        /\ "candidate" \in Files /\ RollbackSources \subseteq Files
    BY RegistryAssumption DEF Kinds, Files
  <2>2. CASE BeginActivate(o)
    BY <2>1, <2>2, <1>1 DEF BeginActivate
  <2>3. CASE BeginRollback(o)
    <3>1. PICK source \in RollbackSources : Load(o, "rollback", source)
      BY <2>3 DEF BeginRollback
    <3>2. source \in Files
      BY <2>1
    <3> QED
      BY <2>1, <3>1, <3>2, <1>1
  <2> QED
    BY <1>2, <2>2, <2>3
<1>3. ASSUME NEW o \in Operators, ValidateBackends(o) PROVE TypeOK'
  <2>1. /\ [op[o] EXCEPT !.pc = "checked"] \in Command
        /\ [op[o] EXCEPT !.pc = "checked"].pc # "loaded"
    BY CommandTypes DEF Command, Steps
  <2>2. op[o].loaded \in Registries
    BY <1>3 DEF ValidateBackends, TypeOK
  <2> QED
    BY <2>1, <2>2, <1>3, <1>0 DEF ValidateBackends, TypeOK
<1>4. ASSUME NEW o \in Operators, ReadPayload(o) PROVE TypeOK'
  <2>1. op[o] \in Command /\ live[op[o].source].bytes \in Contents
    BY CommandTypes, <1>a DEF Command
  <2> DEFINE c == [op[o] EXCEPT !.payload = live[op[o].source].bytes,
                                !.pc      = IF op[o].kind = "activate"
                                            THEN "payload" ELSE "write"]
  <2>2. c \in Command /\ c.pc # "loaded"
    BY <2>1 DEF Command, Steps
  <2>3. op' = [op EXCEPT ![o] = c]
    BY <1>4 DEF ReadPayload
  <2> QED
    BY <2>2, <2>3, <1>4, <1>0 DEF ReadPayload, TypeOK
<1>5. ASSUME NEW o \in Operators, ReadOld(o) PROVE TypeOK'
  <2>1. op[o] \in Command /\ live["active"].bytes \in Contents
    BY CommandTypes, <1>a DEF Files
  <2> DEFINE c == [op[o] EXCEPT !.old    = live["active"].bytes,
                                !.target = IF live["active"].bytes = NoFile
                                           THEN "active" ELSE "previous",
                                !.pc     = "write"]
  <2>2. c \in Command /\ c.pc # "loaded"
    BY <2>1 DEF Command, Steps
  <2>3. op' = [op EXCEPT ![o] = c]
    BY <1>5 DEF ReadOld
  <2> QED
    BY <2>2, <2>3, <1>5, <1>0 DEF ReadOld, TypeOK
<1>6. ASSUME NEW o \in Operators, WriteTemporary(o) PROVE TypeOK'
  <2>1. /\ [op[o] EXCEPT !.pc = "sync", !.tmpSynced = FALSE] \in Command
        /\ [op[o] EXCEPT !.pc = "sync", !.tmpSynced = FALSE].pc # "loaded"
    BY CommandTypes DEF Command, Steps
  <2> QED
    BY <2>1, <1>6, <1>0 DEF WriteTemporary, TypeOK
<1>7. ASSUME NEW o \in Operators, SyncTemporary(o) PROVE TypeOK'
  <2>1. /\ [op[o] EXCEPT !.pc = "replace", !.tmpSynced = TRUE] \in Command
        /\ [op[o] EXCEPT !.pc = "replace", !.tmpSynced = TRUE].pc # "loaded"
    BY CommandTypes DEF Command, Steps
  <2> QED
    BY <2>1, <1>7, <1>0 DEF SyncTemporary, TypeOK
<1>8. ASSUME NEW o \in Operators, Replace(o) PROVE TypeOK'
  <2>1. op[o] \in Command
    BY CommandTypes
  <2>2. Written(Outgoing(o), op[o].tmpSynced) \in Entry
    BY <2>1, WrittenType DEF Outgoing, Command
  <2>3. /\ [op[o] EXCEPT !.pc = "syncdir"] \in Command
        /\ [op[o] EXCEPT !.pc = "syncdir"].pc # "loaded"
    BY <2>1 DEF Command, Steps
  <2> QED
    BY <2>2, <2>3, <1>8, <1>0 DEF Replace, TypeOK
<1>9. ASSUME NEW o \in Operators, SyncDirectory(o) PROVE TypeOK'
  <2>1. /\ [op[o] EXCEPT !.target = "active", !.pc = "write"] \in Command
        /\ [op[o] EXCEPT !.target = "active", !.pc = "write"].pc # "loaded"
    BY CommandTypes DEF Command, Steps
  <2>2. PICK c \in Command : c.pc # "loaded" /\ op' = [op EXCEPT ![o] = c]
    BY <2>1, <1>9, CommandTypes DEF SyncDirectory
  <2> QED
    BY <2>2, <1>9, <1>0 DEF SyncDirectory, TypeOK
<1>10. ASSUME NEW o \in Operators, Abort(o) PROVE TypeOK'
  BY <1>10, <1>0, CommandTypes DEF Abort, TypeOK
<1>11. ASSUME NEW content \in Contents, NEW isSynced \in BOOLEAN,
              EditCandidate(content, isSynced)
       PROVE  TypeOK'
  BY <1>11, WrittenType DEF EditCandidate, TypeOK
<1>12. CASE JournalCommit
  BY <1>12 DEF JournalCommit, TypeOK
<1>13. CASE PowerFailure
  <2>1. PICK torn \in SUBSET {f \in Files : ~disk[f].synced} :
          live' = [f \in Files |-> IF f \in torn THEN Written(Malformed, TRUE)
                                   ELSE Written(disk[f].bytes, TRUE)]
    BY <1>13 DEF PowerFailure
  <2>2. \A f \in Files : disk[f].bytes \in Contents
    BY DEF TypeOK, Entry
  <2>3. Malformed \in Contents
    BY DEF Contents
  <2>4. \A f \in Files : /\ Written(Malformed, TRUE) \in Entry
                         /\ Written(disk[f].bytes, TRUE) \in Entry
    BY <2>2, <2>3, WrittenType
  <2>5. live' \in [Files -> Entry]
    BY <2>1, <2>4
  <2>6. /\ op' \in [Operators -> Command]
        /\ \A o \in Operators : op'[o].pc # "loaded"
    BY <1>13, CommandTypes DEF PowerFailure, TypeOK, Running
  <2> QED
    BY <2>5, <2>6, <1>13 DEF PowerFailure, TypeOK
<1>14. CASE UNCHANGED vars
  BY <1>14 DEF vars, TypeOK
<1> QED
  BY <1>2, <1>3, <1>4, <1>5, <1>6, <1>7, <1>8, <1>9, <1>10, <1>11,
     <1>12, <1>13, <1>14 DEF Next, Step

(* Type correctness: every reachable state of the two commands is well
   formed, with any number of them overlapping.                             *)
THEOREM TypeCorrect == Spec => []TypeOK
BY TypeInit, TypeStep, PTL DEF Spec

-----------------------------------------------------------------------------
(***************************************************************************)
(* Overlapping commands.  ActiveWasValidated is not inductive: what makes  *)
(* it true is that from the moment a registry is checked until it is       *)
(* renamed into place nothing on its way can be anything but a validated   *)
(* registry or a late edit.  For `activate` that rests on who may write    *)
(* the candidate in between; for `rollback` on the previous file never     *)
(* holding anything else, whoever overwrites it.                           *)
(***************************************************************************)

Vetted == validated \cup {NoFile} \cup LateEdits

(* The two registry files, and what the disk would give back for them.      *)
FilesVetted ==
  \A f \in {"active", "previous"} :
    /\ live[f].synced /\ live[f].bytes \in Vetted
    /\ disk[f].synced /\ disk[f].bytes \in Vetted

(* Between the checks and the second read, the candidate still holds what was
   loaded, or a late edit; other sources hold vetted bytes.                 *)
SourceVetted(o) ==
  /\ op[o].pc = "checked" => op[o].loaded \in validated
  /\ op[o].pc \in {"loaded", "checked"} /\ op[o].source = "candidate"
       => live["candidate"].bytes \in {op[o].loaded} \cup LateEdits

(* Everything an _atomic_write is about to rename into place is vetted, and
   its temporary was fsynced.                                               *)
OutgoingVetted(o) ==
  /\ op[o].pc \in {"payload", "write", "sync", "replace", "syncdir"}
       => op[o].payload \in validated \cup LateEdits
  /\ op[o].old \in Vetted
  /\ op[o].pc = "replace" => op[o].tmpSynced

OverlapInv ==
  /\ TypeOK
  /\ FilesVetted
  /\ \A o \in Operators : SourceVetted(o) /\ OutgoingVetted(o)

LEMMA OverlapInit == Init => OverlapInv
<1> SUFFICES ASSUME Init PROVE OverlapInv
  OBVIOUS
<1>1. TypeOK
  BY TypeInit
<1>2. FilesVetted
  <2>1. PICK active \in Registries \cup {NoFile}, candidate \in Contents :
          /\ live = [f \in Files |-> IF f = "active"    THEN Written(active, TRUE) ELSE
                                     IF f = "candidate" THEN Written(candidate, TRUE)
                                                        ELSE Written(NoFile, TRUE)]
          /\ validated = {active} \ {NoFile}
    BY DEF Init
  <2>2. /\ live["active"] = Written(active, TRUE)
        /\ live["previous"] = Written(NoFile, TRUE)
    BY <2>1 DEF Files
  <2>3. disk = live
    BY DEF Init
  <2>4. \A f \in {"active", "previous"} :
          live[f].synced /\ live[f].bytes \in Vetted
    BY <2>1, <2>2 DEF Written, Vetted
  <2> QED
    BY <2>3, <2>4 DEF FilesVetted
<1>3. \A o \in Operators : SourceVetted(o) /\ OutgoingVetted(o)
  <2>1. \A o \in Operators : op[o].pc = "idle" /\ op[o].old = NoFile
    BY DEF Init, NoCommand
  <2> QED
    BY <2>1 DEF SourceVetted, OutgoingVetted, Vetted
<1> QED
  BY <1>1, <1>2, <1>3 DEF OverlapInv

(* A step that leaves the two files alone and only adds to what is validated
   keeps them vetted, and keeps the commands it does not touch on track.    *)
LEMMA VettedGrows ==
  ASSUME OverlapInv, validated \subseteq validated'
  PROVE  /\ Vetted \subseteq Vetted'
         /\ live' = live /\ disk' = disk => FilesVetted'
         /\ \A p \in Operators :
              op'[p] = op[p] => /\ OutgoingVetted(p)'
                                /\ live'["candidate"] = live["candidate"]
                                     => SourceVetted(p)'
<1>1. Vetted \subseteq Vetted'
  BY DEF Vetted
<1>2. live' = live /\ disk' = disk => FilesVetted'
  BY <1>1 DEF OverlapInv, FilesVetted
<1>3. ASSUME NEW p \in Operators, op'[p] = op[p]
      PROVE  /\ OutgoingVetted(p)'
             /\ live'["candidate"] = live["candidate"] => SourceVetted(p)'
  BY <1>1, <1>3 DEF OverlapInv, OutgoingVetted, SourceVetted
<1> QED
  BY <1>1, <1>2, <1>3

LEMMA OverlapStep == OverlapInv /\ [Next]_vars => OverlapInv'
<1> SUFFICES ASSUME OverlapInv, [Next]_vars PROVE OverlapInv'
  OBVIOUS
<1> USE DEF Vetted
<1>0. TypeOK /\ TypeOK'
  BY TypeStep DEF OverlapInv
<1>a. \A o \in Operators : op[o] \in Command /\ SourceVetted(o) /\ OutgoingVetted(o)
  BY <1>0, CommandTypes DEF OverlapInv
<1>b. FilesVetted
  BY DEF OverlapInv
(* What is left to show of a step of o that changes neither file.           *)
<1>c. ASSUME NEW o \in Operators, live' = live, disk' = disk,
             validated \subseteq validated',
             \A p \in Operators \ {o} : op'[p] = op[p],
             SourceVetted(o)', OutgoingVetted(o)'
      PROVE  OverlapInv'
  <2>1. FilesVetted'
    BY <1>c, VettedGrows
  <2>2. \A p \in Operators : SourceVetted(p)' /\ OutgoingVetted(p)'
    BY <1>c, VettedGrows
  <2> QED
    BY <1>0, <2>1, <2>2 DEF OverlapInv
<1>1. ASSUME NEW o \in Operators, NEW kind \in Kinds, NEW source \in Files,
             Load(o, kind, source)
      PROVE  OverlapInv'
  <2>1. op' = [op EXCEPT ![o] = [NoCommand EXCEPT !.pc     = "loaded",
                                                  !.kind   = kind,
                                                  !.source = source,
                                                  !.loaded = live[source].bytes]]
    BY <1>1 DEF Load
  <2>2. /\ op'[o].pc = "loaded" /\ op'[o].source = source
        /\ op'[o].loaded = live[source].bytes /\ op'[o].old = NoFile
        /\ \A p \in Operators \ {o} : op'[p] = op[p]
    BY <2>1, <1>0 DEF TypeOK, NoCommand
  <2>3. SourceVetted(o)' /\ OutgoingVetted(o)'
    BY <2>2, <1>1 DEF Load, SourceVetted, OutgoingVetted
  <2> QED
    BY <2>2, <2>3, <1>1, <1>c DEF Load
<1>2. ASSUME NEW o \in Operators, ValidateBackends(o) PROVE OverlapInv'
  <2>1. /\ op[o].pc = "loaded"
        /\ op'[o] = [op[o] EXCEPT !.pc = "checked"]
        /\ \A p \in Operators \ {o} : op'[p] = op[p]
    BY <1>2, <1>0 DEF ValidateBackends, TypeOK
  <2>2. /\ op'[o].pc = "checked" /\ op'[o].source = op[o].source
        /\ op'[o].loaded = op[o].loaded
    BY <2>1, <1>a DEF Command
  <2>3. SourceVetted(o)' /\ OutgoingVetted(o)'
    BY <2>1, <2>2, <1>a, <1>2 DEF ValidateBackends, SourceVetted, OutgoingVetted
  <2> QED
    BY <2>1, <2>3, <1>2, <1>c DEF ValidateBackends
<1>3. ASSUME NEW o \in Operators, ReadPayload(o) PROVE OverlapInv'
  <2> DEFINE next == IF op[o].kind = "activate" THEN "payload" ELSE "write"
  <2>1. /\ op[o].pc = "checked"
        /\ live[op[o].source].bytes # NoFile
        /\ op'[o] = [op[o] EXCEPT !.payload = live[op[o].source].bytes, !.pc = next]
        /\ \A p \in Operators \ {o} : op'[p] = op[p]
    BY <1>3, <1>0 DEF ReadPayload, TypeOK
  <2>2. /\ op'[o].payload = live[op[o].source].bytes
        /\ op'[o].pc \in {"payload", "write"}
        /\ op'[o].old = op[o].old
    BY <2>1, <1>a DEF Command
  <2>3. live[op[o].source].bytes \in validated \cup LateEdits
    <3>1. CASE op[o].source = "candidate"
      BY <3>1, <2>1, <1>a DEF SourceVetted
    <3>2. CASE op[o].source # "candidate"
      BY <3>2, <2>1, <1>a, <1>b DEF Command, Files, FilesVetted
    <3> QED
      BY <3>1, <3>2
  <2>4. op[o].old \in Vetted
    BY <1>a DEF OutgoingVetted
  <2>5. SourceVetted(o)' /\ OutgoingVetted(o)'
    BY <2>2, <2>3, <2>4, <1>3 DEF ReadPayload, SourceVetted, OutgoingVetted
  <2> QED
    BY <2>1, <2>5, <1>3, <1>c DEF ReadPayload
<1>4. ASSUME NEW o \in Operators, ReadOld(o) PROVE OverlapInv'
  <2> DEFINE next == IF live["active"].bytes = NoFile THEN "active" ELSE "previous"
  <2>1. /\ op[o].pc = "payload"
        /\ op'[o] = [op[o] EXCEPT !.old = live["active"].bytes, !.target = next,
                                  !.pc = "write"]
        /\ \A p \in Operators \ {o} : op'[p] = op[p]
    BY <1>4, <1>0 DEF ReadOld, TypeOK
  <2>2. /\ op'[o].old = live["active"].bytes
        /\ op'[o].payload = op[o].payload
        /\ op'[o].pc = "write"
    BY <2>1, <1>a DEF Command
  <2>3. SourceVetted(o)' /\ OutgoingVetted(o)'
    BY <2>1, <2>2, <1>a, <1>b, <1>4
       DEF ReadOld, FilesVetted, SourceVetted, OutgoingVetted
  <2> QED
    BY <2>1, <2>3, <1>4, <1>c DEF ReadOld
<1>5. ASSUME NEW o \in Operators, WriteTemporary(o) PROVE OverlapInv'
  <2>1. /\ op[o].pc = "write"
        /\ op'[o] = [op[o] EXCEPT !.pc = "sync", !.tmpSynced = FALSE]
        /\ \A p \in Operators \ {o} : op'[p] = op[p]
    BY <1>5, <1>0 DEF WriteTemporary, TypeOK
  <2>2. /\ op'[o].pc = "sync" /\ op'[o].payload = op[o].payload
        /\ op'[o].old = op[o].old
    BY <2>1, <1>a DEF Command
  <2>3. SourceVetted(o)' /\ OutgoingVetted(o)'
    BY <2>1, <2>2, <1>a, <1>5 DEF WriteTemporary, SourceVetted, OutgoingVetted
  <2> QED
    BY <2>1, <2>3, <1>5, <1>c DEF WriteTemporary
<1>6. ASSUME NEW o \in Operators, SyncTemporary(o) PROVE OverlapInv'
  <2>1. /\ op[o].pc = "sync"
        /\ op'[o] = [op[o] EXCEPT !.pc = "replace", !.tmpSynced = TRUE]
        /\ \A p \in Operators \ {o} : op'[p] = op[p]
    BY <1>6, <1>0 DEF SyncTemporary, TypeOK
  <2>2. /\ op'[o].pc = "replace" /\ op'[o].payload = op[o].payload
        /\ op'[o].old = op[o].old /\ op'[o].tmpSynced
    BY <2>1, <1>a DEF Command
  <2>3. SourceVetted(o)' /\ OutgoingVetted(o)'
    BY <2>1, <2>2, <1>a, <1>6 DEF SyncTemporary, SourceVetted, OutgoingVetted
  <2> QED
    BY <2>1, <2>3, <1>6, <1>c DEF SyncTemporary
<1>7. ASSUME NEW o \in Operators, Replace(o) PROVE OverlapInv'
  <2>1. /\ op[o].pc = "replace"
        /\ live' = [live EXCEPT ![op[o].target] = Written(Outgoing(o), op[o].tmpSynced)]
        /\ op'[o] = [op[o] EXCEPT !.pc = "syncdir"]
        /\ \A p \in Operators \ {o} : op'[p] = op[p]
        /\ disk' = disk /\ validated' = validated
    BY <1>7, <1>0 DEF Replace, TypeOK
  <2>2. /\ op'[o].pc = "syncdir" /\ op'[o].payload = op[o].payload
        /\ op'[o].old = op[o].old
    BY <2>1, <1>a DEF Command
  <2>3. /\ Outgoing(o) \in Vetted /\ op[o].tmpSynced
        /\ op[o].target \in {"active", "previous"}
    BY <2>1, <1>a DEF Outgoing, OutgoingVetted, Command
  <2>4. FilesVetted'
    BY <2>1, <2>3, <1>0, <1>b DEF TypeOK, Files, FilesVetted, Written
  <2>5. live'["candidate"] = live["candidate"]
    BY <2>1, <2>3, <1>0 DEF TypeOK, Files
  <2>6. \A p \in Operators \ {o} : SourceVetted(p)' /\ OutgoingVetted(p)'
    BY <2>1, <2>5, VettedGrows
  <2>7. SourceVetted(o)' /\ OutgoingVetted(o)'
    BY <2>1, <2>2, <1>a DEF SourceVetted, OutgoingVetted
  <2> QED
    BY <1>0, <2>4, <2>6, <2>7 DEF OverlapInv
<1>8. ASSUME NEW o \in Operators, SyncDirectory(o) PROVE OverlapInv'
  <2>1. /\ op[o].pc = "syncdir" /\ live' = live /\ disk' = live
        /\ validated' = validated
        /\ \A p \in Operators \ {o} : op'[p] = op[p]
    BY <1>8, <1>0 DEF SyncDirectory, TypeOK
  <2>2. FilesVetted'
    BY <2>1, <1>b DEF FilesVetted
  <2>3. \A p \in Operators \ {o} : SourceVetted(p)' /\ OutgoingVetted(p)'
    BY <2>1, VettedGrows
  <2>4. \/ op'[o] = [op[o] EXCEPT !.target = "active", !.pc = "write"]
        \/ op'[o] = Returned(o)
    BY <1>8, <1>0 DEF SyncDirectory, TypeOK
  <2>5. SourceVetted(o)' /\ OutgoingVetted(o)'
    <3>1. CASE op'[o] = [op[o] EXCEPT !.target = "active", !.pc = "write"]
      <4>1. /\ op'[o].pc = "write" /\ op'[o].payload = op[o].payload
            /\ op'[o].old = op[o].old
        BY <3>1, <1>a DEF Command
      <4> QED
        BY <4>1, <2>1, <1>a DEF SourceVetted, OutgoingVetted
    <3>2. CASE op'[o] = Returned(o)
      <4>1. op'[o].pc = "idle" /\ op'[o].old = NoFile
        BY <3>2 DEF Returned, NoCommand
      <4> QED
        BY <4>1 DEF SourceVetted, OutgoingVetted
    <3> QED
      BY <2>4, <3>1, <3>2
  <2> QED
    BY <1>0, <2>2, <2>3, <2>5 DEF OverlapInv
<1>9. ASSUME NEW o \in Operators, Abort(o) PROVE OverlapInv'
  <2>1. /\ op'[o] = Failed
        /\ \A p \in Operators \ {o} : op'[p] = op[p]
    BY <1>9, <1>0 DEF Abort, TypeOK
  <2>2. op'[o].pc = "idle" /\ op'[o].old = NoFile
    BY <2>1 DEF Failed, NoCommand
  <2>3. SourceVetted(o)' /\ OutgoingVetted(o)'
    BY <2>2 DEF SourceVetted, OutgoingVetted
  <2> QED
    BY <2>1, <2>3, <1>9, <1>c DEF Abort
<1>10. ASSUME NEW content \in Contents, NEW isSynced \in BOOLEAN,
              EditCandidate(content, isSynced)
       PROVE  OverlapInv'
  <2>1. /\ content \in LateEdits \/ \A o \in Operators : Running(o) => op[o].source # "candidate"
        /\ live' = [live EXCEPT !["candidate"] = Written(content, isSynced)]
        /\ disk' = disk /\ op' = op /\ validated' = validated
    BY <1>10 DEF EditCandidate
  <2>2. FilesVetted'
    BY <2>1, <1>0, <1>b DEF FilesVetted, TypeOK, Files
  <2>3. \A p \in Operators : OutgoingVetted(p)'
    BY <2>1, VettedGrows
  <2>4. ASSUME NEW p \in Operators PROVE SourceVetted(p)'
    <3>1. live'["candidate"].bytes = content
      BY <2>1, <1>0 DEF TypeOK, Files, Written
    <3> QED
      BY <2>1, <3>1, <1>a DEF SourceVetted, Running
  <2> QED
    BY <1>0, <2>2, <2>3, <2>4 DEF OverlapInv
<1>11. CASE JournalCommit
  <2>1. live' = live /\ disk' = live /\ op' = op /\ validated' = validated
    BY <1>11 DEF JournalCommit
  <2>2. FilesVetted'
    BY <2>1, <1>b DEF FilesVetted
  <2>3. \A p \in Operators : SourceVetted(p)' /\ OutgoingVetted(p)'
    BY <2>1, VettedGrows
  <2> QED
    BY <1>0, <2>2, <2>3 DEF OverlapInv
<1>12. CASE PowerFailure
  <2>1. PICK torn \in SUBSET {f \in Files : ~disk[f].synced} :
          live' = [f \in Files |-> IF f \in torn THEN Written(Malformed, TRUE)
                                   ELSE Written(disk[f].bytes, TRUE)]
    BY <1>12 DEF PowerFailure
  <2>2. \A f \in {"active", "previous"} : f \in Files /\ f \notin torn
    BY <1>b DEF Files, FilesVetted
  <2>3. \A f \in {"active", "previous"} : live'[f] = Written(disk[f].bytes, TRUE)
    BY <2>1, <2>2
  <2>4. validated' = validated /\ disk' = live'
    BY <1>12 DEF PowerFailure
  <2>5. FilesVetted'
    BY <2>3, <2>4, <1>b DEF FilesVetted, Written
  <2>6. \A p \in Operators : op'[p].pc = "idle" /\ op'[p].old \in Vetted'
    <3> SUFFICES ASSUME NEW p \in Operators
                 PROVE  op'[p].pc = "idle" /\ op'[p].old \in Vetted'
      OBVIOUS
    <3>1. op'[p] = IF Running(p) THEN Failed ELSE op[p]
      BY <1>12 DEF PowerFailure
    <3>2. Failed.pc = "idle" /\ Failed.old = NoFile
      BY DEF Failed, NoCommand
    <3> QED
      BY <3>1, <3>2, <2>4, <1>a DEF Running, OutgoingVetted
  <2>7. \A p \in Operators : SourceVetted(p)' /\ OutgoingVetted(p)'
    BY <2>6 DEF SourceVetted, OutgoingVetted
  <2> QED
    BY <1>0, <2>5, <2>7 DEF OverlapInv
<1>13. CASE UNCHANGED vars
  BY <1>13, <1>0 DEF vars, OverlapInv, FilesVetted, SourceVetted, OutgoingVetted, TypeOK
<1>14. ASSUME NEW o \in Operators, BeginActivate(o) \/ BeginRollback(o) PROVE OverlapInv'
  <2>1. /\ "activate" \in Kinds /\ "rollback" \in Kinds
        /\ "candidate" \in Files /\ RollbackSources \subseteq Files
    BY RegistryAssumption DEF Kinds, Files
  <2>2. PICK kind \in Kinds, source \in Files : Load(o, kind, source)
    BY <2>1, <1>14 DEF BeginActivate, BeginRollback
  <2> QED
    BY <2>2, <1>1
<1> QED
  BY <1>14, <1>2, <1>3, <1>4, <1>5, <1>6, <1>7, <1>8, <1>9, <1>10, <1>11, <1>12, <1>13
     DEF Next, Step

(* However many commands overlap, and wherever they or the machine stop, the
   active registry was validated, and so is what the disk gives back, except
   for what was written into a candidate while it was being activated.      *)
THEOREM OverlapSafe == Spec => [](ActiveWasValidated /\ PowerSafe)
<1>1. OverlapInv => ActiveWasValidated /\ PowerSafe
  BY DEF OverlapInv, FilesVetted, Vetted, ActiveWasValidated, PowerSafe
<1> QED
  BY <1>1, OverlapInit, OverlapStep, PTL DEF Spec

(* Whatever instant the power fails, the active and the previous registry that
   come back are as they were written and passed the checks, or were late
   edits, for any number of operators (_atomic_write,
   graph_lifecycle.py:583-592).                                             *)
THEOREM PowerFailureSafe == Spec => []PowerSafe
BY OverlapSafe, PTL

-----------------------------------------------------------------------------
(***************************************************************************)
(* One operator at a time.  Now the `.previous` file can be followed: from *)
(* the moment the active bytes are read until the active file is replaced  *)
(* nobody else moves either file, so what is retained is what is replaced. *)
(***************************************************************************)

OneAtATime == \A p, q \in Operators : p = q

(* The way from reading the old bytes to replacing them.                    *)
RetainsOld(o) ==
  LET c == op[o] IN
  /\ c.kind = "activate" /\ c.target = "previous" =>
       /\ c.pc \in {"write", "sync", "replace"} => /\ c.old = live["active"].bytes
                                                   /\ c.old # NoFile
       /\ c.pc = "syncdir" => live["previous"].bytes = live["active"].bytes
  /\ c.kind = "activate" /\ c.target = "active" /\ c.pc \in {"write", "sync", "replace"} =>
       \/ live["active"].bytes = NoFile
       \/ /\ live["previous"].bytes = live["active"].bytes
          /\ disk["previous"].bytes = live["active"].bytes

(* The way from replacing the active file to returning.                     *)
InstallsDurably(o) ==
  LET c == op[o] IN
  /\ c.pc = "replace" => c.tmpSynced
  /\ c.pc = "syncdir" /\ c.target = "active" => live["active"].bytes = c.payload
  /\ c.pc = "idle" /\ c.result = "ok" => /\ live["active"].bytes = c.payload
                                         /\ disk["active"].bytes = c.payload

RetainInv ==
  /\ TypeOK
  /\ live["active"].synced /\ disk["active"].synced
  /\ \A o \in Operators : RetainsOld(o) /\ InstallsDurably(o)

LEMMA RetainInit == Init => RetainInv
<1> SUFFICES ASSUME Init PROVE RetainInv
  OBVIOUS
<1>1. live["active"].synced /\ disk["active"].synced
  BY DEF Init, Written, Files
<1>2. \A o \in Operators : op[o].pc = "idle" /\ op[o].result = "none"
  BY DEF Init, NoCommand
<1> QED
  BY <1>1, <1>2, TypeInit DEF RetainInv, RetainsOld, InstallsDurably

LEMMA RetainStep ==
  ASSUME OneAtATime
  PROVE  RetainInv /\ [Next]_vars => RetainInv'
<1> SUFFICES ASSUME RetainInv, [Next]_vars PROVE RetainInv'
  OBVIOUS
<1>0. TypeOK /\ TypeOK'
  BY TypeStep DEF RetainInv
<1>a. /\ \A o \in Operators : op[o] \in Command /\ RetainsOld(o) /\ InstallsDurably(o)
      /\ live["active"].synced /\ disk["active"].synced
  BY <1>0, CommandTypes DEF RetainInv
(* There is one operator: it is enough to follow that one.                  *)
<1>b. ASSUME NEW o \in Operators, RetainsOld(o)', InstallsDurably(o)',
             live'["active"].synced, disk'["active"].synced
      PROVE  RetainInv'
  BY <1>b, <1>0 DEF OneAtATime, RetainInv
<1>1. ASSUME NEW o \in Operators, NEW kind, NEW source, Load(o, kind, source)
      PROVE  RetainInv'
  <2>1. op'[o].pc = "loaded"
    BY <1>1, <1>0 DEF Load, TypeOK, NoCommand
  <2> QED
    BY <2>1, <1>1, <1>a, <1>b DEF Load, RetainsOld, InstallsDurably
<1>2. ASSUME NEW o \in Operators, ValidateBackends(o) PROVE RetainInv'
  <2>1. op'[o].pc = "checked"
    BY <1>2, <1>0, <1>a DEF ValidateBackends, TypeOK, Command
  <2> QED
    BY <2>1, <1>2, <1>a, <1>b DEF ValidateBackends, RetainsOld, InstallsDurably
<1>3. ASSUME NEW o \in Operators, ReadPayload(o) PROVE RetainInv'
  <2>1. op'[o].kind = "activate" => op'[o].pc = "payload"
    BY <1>3, <1>0, <1>a DEF ReadPayload, TypeOK, Command
  <2>2. op'[o].pc \in {"payload", "write"}
    BY <1>3, <1>0, <1>a DEF ReadPayload, TypeOK, Command
  <2> QED
    BY <2>1, <2>2, <1>3, <1>a, <1>b DEF ReadPayload, RetainsOld, InstallsDurably
<1>4. ASSUME NEW o \in Operators, ReadOld(o) PROVE RetainInv'
  <2>1. /\ op'[o].pc = "write" /\ op'[o].old = live["active"].bytes
        /\ live["active"].bytes # NoFile => op'[o].target = "previous"
        /\ live["active"].bytes = NoFile => op'[o].target = "active"
        /\ live' = live /\ disk' = disk
    BY <1>4, <1>0, <1>a DEF ReadOld, TypeOK, Command
  <2> QED
    BY <2>1, <1>a, <1>b DEF RetainsOld, InstallsDurably
<1>5. ASSUME NEW o \in Operators, WriteTemporary(o) PROVE RetainInv'
  <2>1. /\ op[o].pc = "write" /\ op'[o].pc = "sync" /\ op'[o].old = op[o].old
        /\ op'[o].kind = op[o].kind /\ op'[o].target = op[o].target
        /\ live' = live /\ disk' = disk
    BY <1>5, <1>0, <1>a DEF WriteTemporary, TypeOK, Command
  <2> QED
    BY <2>1, <1>a, <1>b DEF RetainsOld, InstallsDurably
<1>6. ASSUME NEW o \in Operators, SyncTemporary(o) PROVE RetainInv'
  <2>1. /\ op[o].pc = "sync" /\ op'[o].pc = "replace" /\ op'[o].old = op[o].old
        /\ op'[o].kind = op[o].kind /\ op'[o].target = op[o].target
        /\ op'[o].tmpSynced
        /\ live' = live /\ disk' = disk
    BY <1>6, <1>0, <1>a DEF SyncTemporary, TypeOK, Command
  <2> QED
    BY <2>1, <1>a, <1>b DEF RetainsOld, InstallsDurably
<1>7. ASSUME NEW o \in Operators, Replace(o) PROVE RetainInv'
  <2>1. /\ op[o].pc = "replace" /\ op'[o].pc = "syncdir"
        /\ op'[o].kind = op[o].kind /\ op'[o].target = op[o].target
        /\ op'[o].payload = op[o].payload
        /\ live' = [live EXCEPT ![op[o].target] = Written(Outgoing(o), op[o].tmpSynced)]
        /\ disk' = disk
    BY <1>7, <1>0, <1>a DEF Replace, TypeOK, Command
  <2>2. op[o].tmpSynced
    BY <2>1, <1>a DEF InstallsDurably
  <2>3. CASE op[o].target = "previous"
    <3>1. /\ live'["previous"].bytes = op[o].old /\ live'["active"] = live["active"]
      BY <2>1, <2>3, <1>0 DEF TypeOK, Files, Outgoing, Written
    <3> QED
      BY <3>1, <2>1, <2>3, <1>a, <1>b DEF RetainsOld, InstallsDurably
  <2>4. CASE op[o].target = "active"
    <3>1. live'["active"] = Written(op[o].payload, TRUE)
      BY <2>1, <2>2, <2>4, <1>0 DEF TypeOK, Files, Outgoing
    <3>2. live'["active"].bytes = op[o].payload /\ live'["active"].synced
      BY <3>1 DEF Written
    <3> QED
      BY <3>2, <2>1, <2>4, <1>a, <1>b DEF RetainsOld, InstallsDurably
  <2> QED
    BY <2>3, <2>4, <1>a DEF Command
<1>8. ASSUME NEW o \in Operators, SyncDirectory(o) PROVE RetainInv'
  <2>1. op[o].pc = "syncdir" /\ live' = live /\ disk' = live
    BY <1>8 DEF SyncDirectory
  <2>2. CASE op[o].target = "previous"
    <3>1. /\ op'[o].pc = "write" /\ op'[o].target = "active"
          /\ op'[o].kind = op[o].kind
      BY <1>8, <2>2, <1>0, <1>a DEF SyncDirectory, TypeOK, Command
    <3> QED
      BY <3>1, <2>1, <2>2, <1>a, <1>b DEF RetainsOld, InstallsDurably
  <2>3. CASE op[o].target = "active"
    <3>1. op'[o] = Returned(o)
      BY <1>8, <2>3, <1>0 DEF SyncDirectory, TypeOK
    <3>2. op'[o].pc = "idle" /\ op'[o].payload = op[o].payload
      BY <3>1 DEF Returned, NoCommand
    <3> QED
      BY <3>2, <2>1, <2>3, <1>a, <1>b DEF RetainsOld, InstallsDurably
  <2> QED
    BY <2>2, <2>3, <1>a DEF Command
<1>9. ASSUME NEW o \in Operators, Abort(o) PROVE RetainInv'
  <2>1. op'[o].pc = "idle" /\ op'[o].result = "failed"
    BY <1>9, <1>0 DEF Abort, TypeOK, Failed, NoCommand
  <2> QED
    BY <2>1, <1>9, <1>a, <1>b DEF Abort, RetainsOld, InstallsDurably
<1>10. ASSUME NEW content \in Contents, NEW isSynced \in BOOLEAN,
              EditCandidate(content, isSynced)
       PROVE  RetainInv'
  <2>1. /\ live'["active"] = live["active"] /\ live'["previous"] = live["previous"]
        /\ disk' = disk /\ op' = op
    BY <1>10, <1>0 DEF EditCandidate, TypeOK, Files
  <2> QED
    BY <2>1, <1>0, <1>a DEF RetainInv, RetainsOld, InstallsDurably
<1>11. CASE JournalCommit
  BY <1>11, <1>0, <1>a DEF JournalCommit, RetainInv, RetainsOld, InstallsDurably
<1>12. CASE PowerFailure
  <2>1. PICK torn \in SUBSET {f \in Files : ~disk[f].synced} :
          live' = [f \in Files |-> IF f \in torn THEN Written(Malformed, TRUE)
                                   ELSE Written(disk[f].bytes, TRUE)]
    BY <1>12 DEF PowerFailure
  <2>2. "active" \in Files /\ "active" \notin torn
    BY <1>a DEF Files
  <2>3. live'["active"] = Written(disk["active"].bytes, TRUE) /\ disk' = live'
    BY <2>1, <2>2, <1>12 DEF PowerFailure
  <2>4. /\ live'["active"].synced /\ disk'["active"].synced
        /\ live'["active"].bytes = disk["active"].bytes
        /\ disk'["active"].bytes = disk["active"].bytes
    BY <2>3 DEF Written
  <2>5. ASSUME NEW o \in Operators PROVE RetainsOld(o)' /\ InstallsDurably(o)'
    <3>1. op'[o] = IF Running(o) THEN Failed ELSE op[o]
      BY <1>12 DEF PowerFailure
    <3>2. Failed.pc = "idle" /\ Failed.result = "failed"
      BY DEF Failed, NoCommand
    <3> QED
      BY <3>1, <3>2, <2>4, <1>a DEF Running, RetainsOld, InstallsDurably
  <2> QED
    BY <1>0, <2>4, <2>5 DEF RetainInv
<1>13. CASE UNCHANGED vars
  BY <1>13, <1>0, <1>a DEF vars, RetainInv, RetainsOld, InstallsDurably
<1> QED
  BY <1>1, <1>2, <1>3, <1>4, <1>5, <1>6, <1>7, <1>8, <1>9, <1>10, <1>11, <1>12, <1>13
     DEF Next, Step, BeginActivate, BeginRollback

(* With one operator at a time an activation replaces the active registry
   only when that registry is durably in the previous file, even if the
   candidate is edited meanwhile.                                           *)
THEOREM RetainsPrior ==
  ASSUME OneAtATime
  PROVE  Spec => PriorRetained
<1>1. ASSUME RetainInv
      PROVE  \A o \in Operators :
               Installs(o) /\ op[o].kind = "activate" /\ live["active"].bytes # NoFile
                 => disk["previous"].bytes = live["active"].bytes
  BY <1>1 DEF RetainInv, RetainsOld, Installs
<1> QED
  BY <1>1, RetainInit, RetainStep, PTL DEF Spec, PriorRetained

(* With one operator at a time a command that returned normally has its
   registry on disk as the active one, whatever failed afterwards.          *)
THEOREM AcknowledgedSurvives ==
  ASSUME OneAtATime
  PROVE  Spec => []AcknowledgedIsDurable
<1>1. RetainInv => AcknowledgedIsDurable
  BY DEF RetainInv, InstallsDurably, AcknowledgedIsDurable, Running
<1> QED
  BY <1>1, RetainInit, RetainStep, PTL DEF Spec

-----------------------------------------------------------------------------
(***************************************************************************)
(* One operator at a time: what a rollback read the second time is still   *)
(* in the previous file when it is renamed into the active one, and the    *)
(* two files follow RegistrySwitch.                                        *)
(***************************************************************************)

(* The previous file does not change between its second read and the write;
   the candidate may.                                                       *)
SourceStays(o) ==
  LET c == op[o] IN
  /\ c.pc = "payload" => c.kind = "activate"
  /\ c.kind = "rollback" =>
       /\ c.target = "active"
       /\ c.source \in RollbackSources
       /\ c.source = "previous" /\ c.pc \in {"write", "sync", "replace"}
            => live["previous"].bytes = c.payload

SourceInv == TypeOK /\ \A o \in Operators : SourceStays(o)

LEMMA SourceInit == Init => SourceInv
<1> SUFFICES ASSUME Init PROVE SourceInv
  OBVIOUS
<1>1. NoCommand.pc = "idle" /\ NoCommand.kind = "activate"
  BY DEF NoCommand
<1>2. \A o \in Operators : op[o] = NoCommand
  BY DEF Init
<1>3. \A o \in Operators : SourceStays(o)
  BY <1>1, <1>2 DEF SourceStays
<1> QED
  BY <1>3, TypeInit DEF SourceInv

LEMMA SourceStep ==
  ASSUME OneAtATime
  PROVE  SourceInv /\ [Next]_vars => SourceInv'
<1> SUFFICES ASSUME SourceInv, [Next]_vars PROVE SourceInv'
  OBVIOUS
<1>0. TypeOK /\ TypeOK'
  BY TypeStep DEF SourceInv
<1>a. \A o \in Operators : op[o] \in Command /\ SourceStays(o)
  BY <1>0, CommandTypes DEF SourceInv
<1>b. ASSUME NEW o \in Operators, SourceStays(o)' PROVE SourceInv'
  BY <1>b, <1>0 DEF OneAtATime, SourceInv
<1>1. ASSUME NEW o \in Operators, NEW source \in Files,
             \/ Load(o, "activate", source)
             \/ source \in RollbackSources /\ Load(o, "rollback", source)
      PROVE  SourceInv'
  <2>1. ASSUME NEW kind \in Kinds, Load(o, kind, source)
        PROVE  /\ op'[o].pc = "loaded" /\ op'[o].source = source
               /\ op'[o].loaded = live[source].bytes /\ op'[o].target = "active"
               /\ op'[o].kind = kind /\ live' = live
    BY <2>1, <1>0 DEF Load, TypeOK, NoCommand
  <2> QED
    BY <1>1, <2>1, <1>b DEF SourceStays, Kinds
<1>2. ASSUME NEW o \in Operators, ValidateBackends(o) PROVE SourceInv'
  <2>1. /\ op[o].pc = "loaded" /\ op'[o] = [op[o] EXCEPT !.pc = "checked"]
        /\ live' = live
    BY <1>2, <1>0 DEF ValidateBackends, TypeOK
  <2> QED
    BY <2>1, <1>a, <1>b DEF SourceStays, Command
<1>3. ASSUME NEW o \in Operators, ReadPayload(o) PROVE SourceInv'
  <2>1. /\ op[o].pc = "checked" /\ op'[o].pc \in {"payload", "write"}
        /\ op'[o].payload = live[op[o].source].bytes
        /\ op'[o].source = op[o].source /\ op'[o].loaded = op[o].loaded
        /\ op'[o].kind = op[o].kind /\ op'[o].target = op[o].target
        /\ op'[o].pc = "payload" => op[o].kind = "activate"
        /\ live' = live
    BY <1>3, <1>0, <1>a DEF ReadPayload, TypeOK, Command
  <2> QED
    BY <2>1, <1>a, <1>b DEF SourceStays
<1>4. ASSUME NEW o \in Operators, ReadOld(o) PROVE SourceInv'
  <2>1. /\ op[o].pc = "payload" /\ op'[o].pc = "write"
        /\ op'[o].payload = op[o].payload /\ op'[o].loaded = op[o].loaded
        /\ op'[o].kind = op[o].kind
    BY <1>4, <1>0, <1>a DEF ReadOld, TypeOK, Command
  <2>2. op'[o].kind # "rollback"
    BY <2>1, <1>a DEF SourceStays
  <2> QED
    BY <2>1, <2>2, <1>a, <1>b DEF SourceStays
<1>5. ASSUME NEW o \in Operators, WriteTemporary(o) \/ SyncTemporary(o) PROVE SourceInv'
  <2>1. /\ op[o].pc \in {"write", "sync"} /\ op'[o].pc \in {"sync", "replace"}
        /\ op'[o].payload = op[o].payload /\ op'[o].loaded = op[o].loaded
        /\ op'[o].kind = op[o].kind /\ op'[o].target = op[o].target
        /\ op'[o].source = op[o].source /\ live' = live
    BY <1>5, <1>0, <1>a DEF WriteTemporary, SyncTemporary, TypeOK, Command
  <2> QED
    BY <2>1, <1>a, <1>b DEF SourceStays
<1>6. ASSUME NEW o \in Operators, Replace(o) PROVE SourceInv'
  <2>1. /\ op[o].pc = "replace" /\ op'[o].pc = "syncdir"
        /\ op'[o].payload = op[o].payload /\ op'[o].loaded = op[o].loaded
        /\ op'[o].kind = op[o].kind /\ op'[o].target = op[o].target
        /\ op'[o].source = op[o].source
    BY <1>6, <1>0, <1>a DEF Replace, TypeOK, Command
  <2> QED
    BY <2>1, <1>a, <1>b DEF SourceStays
<1>7. ASSUME NEW o \in Operators, SyncDirectory(o) PROVE SourceInv'
  <2>1. op[o].pc = "syncdir" /\ op[o].target \in {"active", "previous"}
    BY <1>7, <1>a DEF SyncDirectory, Command
  <2>2. CASE op[o].target = "previous"
    <3>1. /\ op'[o].pc = "write" /\ op'[o].kind = op[o].kind
          /\ op'[o].payload = op[o].payload /\ op'[o].loaded = op[o].loaded
      BY <1>7, <2>2, <1>0, <1>a DEF SyncDirectory, TypeOK, Command
    <3>2. op'[o].kind # "rollback"
      BY <3>1, <2>2, <1>a DEF SourceStays
    <3> QED
      BY <3>1, <3>2, <2>1, <1>a, <1>b DEF SourceStays
  <2>3. CASE op[o].target = "active"
    <3>1. op'[o].pc = "idle" /\ op'[o].kind = "activate"
      BY <1>7, <2>3, <1>0 DEF SyncDirectory, TypeOK, Returned, NoCommand
    <3> QED
      BY <3>1, <1>b DEF SourceStays
  <2> QED
    BY <2>1, <2>2, <2>3
<1>8. ASSUME NEW o \in Operators, Abort(o) PROVE SourceInv'
  <2>1. op'[o].pc = "idle" /\ op'[o].kind = "activate"
    BY <1>8, <1>0 DEF Abort, TypeOK, Failed, NoCommand
  <2> QED
    BY <2>1, <1>b DEF SourceStays
<1>9. ASSUME NEW content \in Contents, NEW isSynced \in BOOLEAN,
             EditCandidate(content, isSynced)
      PROVE  SourceInv'
  <2>1. live'["previous"] = live["previous"] /\ op' = op
    BY <1>9, <1>0 DEF EditCandidate, TypeOK, Files
  <2>2. ASSUME NEW o \in Operators PROVE SourceStays(o)'
    BY <2>1, <1>a DEF SourceStays
  <2> QED
    BY <2>2, <1>0 DEF SourceInv
<1>10. CASE JournalCommit
  BY <1>10, <1>0, <1>a DEF JournalCommit, SourceInv, SourceStays
<1>11. CASE PowerFailure
  <2>1. ASSUME NEW o \in Operators PROVE SourceStays(o)'
    <3>1. op'[o] = IF Running(o) THEN Failed ELSE op[o]
      BY <1>11 DEF PowerFailure
    <3>2. Failed.pc = "idle" /\ Failed.kind = "activate"
      BY DEF Failed, NoCommand
    <3> QED
      BY <3>1, <3>2, <1>a DEF Running, SourceStays
  <2> QED
    BY <2>1, <1>0 DEF SourceInv
<1>12. CASE UNCHANGED vars
  BY <1>12, <1>0, <1>a DEF vars, SourceInv, SourceStays
<1>13. ASSUME NEW o \in Operators, BeginActivate(o) \/ BeginRollback(o) PROVE SourceInv'
  <2>1. "candidate" \in Files /\ RollbackSources \subseteq Files
    BY RegistryAssumption DEF Files
  <2> QED
    BY <2>1, <1>1, <1>13 DEF BeginActivate, BeginRollback
<1> QED
  BY <1>13, <1>2, <1>3, <1>4, <1>5, <1>6, <1>7, <1>8, <1>9, <1>10, <1>11, <1>12
     DEF Next, Step

-----------------------------------------------------------------------------
(* The initial directory is an initial state of the switch.                 *)
LEMMA SwitchInit == Init => Switch!Init
<1> SUFFICES ASSUME Init PROVE Switch!Init
  OBVIOUS
<1>1. PICK active \in Registries \cup {NoFile}, candidate \in Contents :
        /\ live = [f \in Files |-> IF f = "active"    THEN Written(active, TRUE) ELSE
                                   IF f = "candidate" THEN Written(candidate, TRUE)
                                                      ELSE Written(NoFile, TRUE)]
        /\ validated = {active} \ {NoFile}
  BY DEF Init
<1>2. live["active"].bytes = active /\ live["previous"].bytes = NoFile
  BY <1>1 DEF Files, Written
<1>3. [n \in {"active", "previous"} |-> live[n].bytes]
        = [n \in {"active", "previous"} |-> IF n = "active" THEN active ELSE NoFile]
  BY <1>2
<1> QED
  BY <1>1, <1>3 DEF Init, Switch!Init, Switch!Names

(* Each step of the commands is a step of the switch or leaves it alone.    *)
LEMMA SwitchStep ==
  ASSUME OneAtATime, RollbackSources = {"previous"}
  PROVE  OverlapInv /\ RetainInv /\ SourceInv /\ [Next]_vars
           => [Switch!Next]_(Switch!switchVars)
<1> SUFFICES ASSUME OverlapInv, RetainInv, SourceInv, [Next]_vars
             PROVE  Switch!Next \/ UNCHANGED Switch!switchVars
  BY DEF Switch!switchVars
<1>0. TypeOK
  BY DEF OverlapInv
<1>a. \A o \in Operators : op[o] \in Command
  BY <1>0, CommandTypes
(* A step after which the switch looks the same.                            *)
<1>b. ASSUME live'["active"] = live["active"], live'["previous"] = live["previous"],
             disk' = disk, validated' = validated
      PROVE  UNCHANGED Switch!switchVars
  BY <1>b DEF Switch!switchVars
<1>1. ASSUME NEW o \in Operators, Step(o), live' = live, disk' = disk,
             validated' = validated
      PROVE  UNCHANGED Switch!switchVars
  BY <1>1, <1>b
<1>2. ASSUME NEW o \in Operators, ValidateBackends(o) PROVE Switch!Vet
  <2>1. op[o].loaded \in Registries
    BY <1>2, <1>0 DEF ValidateBackends, TypeOK
  <2> QED
    BY <2>1, <1>2 DEF ValidateBackends, Switch!Vet
<1>3. ASSUME NEW o \in Operators, Replace(o) PROVE Switch!Next
  <2>1. /\ op[o].pc = "replace"
        /\ live' = [live EXCEPT ![op[o].target] = Written(Outgoing(o), op[o].tmpSynced)]
        /\ disk' = disk /\ validated' = validated
    BY <1>3 DEF Replace
  <2>2. /\ op[o].target \in {"active", "previous"} /\ op[o].kind \in Kinds
        /\ OutgoingVetted(o) /\ RetainsOld(o) /\ SourceStays(o)
    BY <1>a DEF Command, OverlapInv, RetainInv, SourceInv
  <2>3. CASE op[o].target = "previous"
    <3>1. op[o].kind = "activate"
      BY <2>2, <2>3 DEF SourceStays, Kinds
    <3>2. op[o].old = live["active"].bytes /\ op[o].old # NoFile
      BY <3>1, <2>1, <2>2, <2>3 DEF RetainsOld
    <3>3. /\ live'["previous"].bytes = live["active"].bytes
          /\ live'["active"] = live["active"]
      BY <3>2, <2>1, <2>3, <1>0 DEF TypeOK, Files, Outgoing, Written
    <3>4. [n \in {"active", "previous"} |-> live'[n].bytes]
            = [[n \in {"active", "previous"} |-> live[n].bytes]
                 EXCEPT !["previous"] = live["active"].bytes]
      BY <3>3
    <3>5. Switch!Retain
      BY <3>2, <3>4, <2>1 DEF Switch!Retain
    <3> QED
      BY <3>5 DEF Switch!Next
  <2>4. CASE op[o].target = "active"
    <3>1. /\ live'["active"].bytes = op[o].payload
          /\ live'["previous"] = live["previous"]
      BY <2>1, <2>4, <1>0 DEF TypeOK, Files, Outgoing, Written
    <3>2. [n \in {"active", "previous"} |-> live'[n].bytes]
            = [[n \in {"active", "previous"} |-> live[n].bytes]
                 EXCEPT !["active"] = op[o].payload]
      BY <3>1
    <3>3. op[o].payload \in validated \cup LateEdits
      BY <2>1, <2>2 DEF OutgoingVetted
    <3>4. CASE op[o].kind = "activate"
      <4>1. \/ live["active"].bytes = NoFile
            \/ disk["previous"].bytes = live["active"].bytes
        BY <3>4, <2>1, <2>2, <2>4 DEF RetainsOld
      <4>2. Switch!Install
        BY <4>1, <3>2, <3>3, <2>1 DEF Switch!Install
      <4> QED
        BY <4>2 DEF Switch!Next
    <3>5. CASE op[o].kind = "rollback"
      <4>1. live["previous"].bytes = op[o].payload
        BY <3>5, <2>1, <2>2 DEF SourceStays
      <4>2. Switch!Restore
        BY <4>1, <3>2, <3>3, <2>1 DEF Switch!Restore
      <4> QED
        BY <4>2 DEF Switch!Next
    <3> QED
      BY <3>4, <3>5, <2>2 DEF Kinds
  <2> QED
    BY <2>2, <2>3, <2>4
<1>4. ASSUME live' = live, disk' = live, validated' = validated PROVE Switch!Save
  BY <1>4 DEF Switch!Save
<1>5. ASSUME NEW content \in Contents, NEW isSynced \in BOOLEAN,
             EditCandidate(content, isSynced)
      PROVE  UNCHANGED Switch!switchVars
  <2>1. live'["active"] = live["active"] /\ live'["previous"] = live["previous"]
    BY <1>5, <1>0 DEF EditCandidate, TypeOK, Files
  <2> QED
    BY <2>1, <1>5, <1>b DEF EditCandidate
<1>6. CASE PowerFailure
  <2>1. PICK torn \in SUBSET {f \in Files : ~disk[f].synced} :
          live' = [f \in Files |-> IF f \in torn THEN Written(Malformed, TRUE)
                                   ELSE Written(disk[f].bytes, TRUE)]
    BY <1>6 DEF PowerFailure
  <2>2. \A f \in {"active", "previous"} : f \in Files /\ f \notin torn
    BY DEF OverlapInv, FilesVetted, Files
  <2>3. \A f \in {"active", "previous"} : live'[f].bytes = disk[f].bytes
    BY <2>1, <2>2 DEF Written
  <2>4. disk' = live' /\ validated' = validated
    BY <1>6 DEF PowerFailure
  <2>5. Switch!Lose
    BY <2>3, <2>4 DEF Switch!Lose
  <2> QED
    BY <2>5 DEF Switch!Next
<1>7. ASSUME NEW o \in Operators, SyncDirectory(o) PROVE Switch!Save
  BY <1>4, <1>7 DEF SyncDirectory
<1>8. CASE JournalCommit
  BY <1>4, <1>8 DEF JournalCommit, Switch!Next
<1>9. CASE UNCHANGED vars
  BY <1>9, <1>b DEF vars
<1>10. ASSUME NEW o \in Operators, Step(o)
       PROVE  Switch!Next \/ UNCHANGED Switch!switchVars
  BY <1>10, <1>1, <1>2, <1>3, <1>7
     DEF Step, BeginActivate, BeginRollback, Load, ReadPayload, ReadOld,
         WriteTemporary, SyncTemporary, Abort, Switch!Next
<1> QED
  BY <1>5, <1>6, <1>8, <1>9, <1>10 DEF Next, Switch!Next

(* Activation and rollback, run one at a time, implement the registry switch:
   whatever fails, the active registry moves only from one vetted registry,
   or late edit, to another, and activation moves it only when the registry
   it replaces can no longer be lost.                                       *)
THEOREM ImplementsSwitch ==
  ASSUME OneAtATime, RollbackSources = {"previous"}
  PROVE  Spec => RefinesSwitch
<1> QED
  BY SwitchInit, SwitchStep, OverlapInit, OverlapStep, RetainInit, RetainStep,
     SourceInit, SourceStep, PTL DEF Spec, RefinesSwitch, Switch!Spec

-----------------------------------------------------------------------------
(* RuntimePublication: the script, its services and their volumes.           *)
ScriptSteps == {"idle", "export", "zvec", "import", "backup", "stop", "write", "up", "bootstrap",
                "validate", "discard", "activate", "restore_stop", "restore", "restore_up", "ended"}
Ways == {"none", "running", "failed", "cut", "published", "rolled_back"}
Keys == Callables \cup {Repository}

ScriptTypeOK ==
  /\ script \in [pc : ScriptSteps, g : 0..Scripts, backup : 0..Scripts]
  /\ runtime \in 0..Scripts
  /\ neo4j \in 0..Scripts \cup {Stopped}
  /\ mcp \in 0..Scripts \cup {Stopped}
  /\ volumes \in [0..Scripts -> [staged : SUBSET Keys, graph : SUBSET Keys, zvec : SUBSET Callables]]
  /\ outcome \in [0..Scripts -> [is : Ways, before : 0..Scripts]]

(* How far the script has come.                                              *)
Preparing == {"export", "zvec", "import", "backup"}
Untouched == Preparing \cup {"stop", "write"}                  \* the file is the one from before
Switched == {"up", "bootstrap", "validate", "discard", "activate", "restore_stop", "restore"}
ServerDown == Switched \cup {"write", "restore_up"}           \* the MCP server is stopped

Before == outcome[script.g].before
Final(g) == outcome[g].is \in {"cut", "published"}
Published(g) == volumes[g].graph = Keys /\ volumes[g].zvec = Callables

(* The runtime file: the previous generation until WriteRuntime and again
   after RestoreRuntime, the script's own in between; the backup is the
   previous one.  What it names otherwise was published or cut off.          *)
FileInv ==
  /\ script.pc \in Untouched \cup {"restore_up"} => runtime = Before
  /\ script.pc \in Switched => runtime = script.g
  /\ script.pc \in {"stop", "write", "up", "bootstrap", "validate", "discard", "restore_stop", "restore"} =>
       script.backup = Before
  /\ script.pc \notin Ended => /\ outcome[script.g].is = "running" /\ script.g # 0
                               /\ Before < script.g
                               /\ Before # 0 => Final(Before)
  /\ script.pc \in Ended => /\ runtime <= script.g
                            /\ runtime # 0 => Final(runtime)

(* The volumes: what is validated is whole.                                  *)
VolumeInv ==
  /\ script.pc \in ScriptSteps \ (Ended \cup {"export"}) => volumes[script.g].staged = Keys
  /\ script.pc \in {"discard", "activate"} => Published(script.g)
  /\ \A g \in 1..Scripts : outcome[g].is = "published" => Published(g)

(* The services: a server that runs serves what the file names, and is
   stopped while the file is another.                                        *)
ServiceInv ==
  /\ script.pc \in ServerDown => mcp = Stopped
  /\ script.pc \in {"bootstrap", "validate", "discard", "activate"} => neo4j = runtime
  /\ mcp # Stopped => mcp = runtime /\ neo4j \in {runtime, Stopped}

ScriptInv == ScriptTypeOK /\ FileInv /\ VolumeInv /\ ServiceInv

-----------------------------------------------------------------------------
LEMMA ScriptInitial == ScriptInit => ScriptInv
<1> SUFFICES ASSUME ScriptInit PROVE ScriptInv
  OBVIOUS
<1>1. script.pc = "idle" /\ script.g = 0 /\ script.backup = 0 /\ 0 \in 0..Scripts
  BY ScriptAssumption DEF ScriptInit
<1>2. ScriptTypeOK
  BY <1>1, ScriptAssumption DEF ScriptInit, ScriptTypeOK, ScriptSteps, Ways, Keys, Stopped
<1>3. FileInv /\ ServiceInv
  BY <1>1 DEF ScriptInit, FileInv, ServiceInv, Untouched, Preparing, Switched, ServerDown, Ended, Stopped
<1>4. VolumeInv
  BY <1>1 DEF ScriptInit, VolumeInv, Ended
<1> QED
  BY <1>2, <1>3, <1>4 DEF ScriptInv

(* How a script goes on, and how it ends.                                    *)
LEMMA ScriptGoesOn ==
  ASSUME ScriptTypeOK, NEW pc \in ScriptSteps, Continue(pc)
  PROVE  /\ script' \in [pc : ScriptSteps, g : 0..Scripts, backup : 0..Scripts]
         /\ script'.pc = pc /\ script'.g = script.g /\ script'.backup = script.backup
BY DEF ScriptTypeOK, Continue

LEMMA ScriptEnds ==
  ASSUME ScriptTypeOK, NEW how \in Ways, Ends(how)
  PROVE  /\ script' \in [pc : ScriptSteps, g : 0..Scripts, backup : 0..Scripts]
         /\ script'.pc = "ended" /\ script'.g = script.g /\ script'.backup = script.backup
         /\ outcome' \in [0..Scripts -> [is : Ways, before : 0..Scripts]]
         /\ outcome'[script.g].is = how
         /\ \A g \in 0..Scripts : outcome'[g].before = outcome[g].before
         /\ \A g \in 0..Scripts : g # script.g => outcome'[g] = outcome[g]
<1>1. Continue("ended") /\ "ended" \in ScriptSteps
  BY DEF Ends, ScriptSteps
<1>2. outcome' = [outcome EXCEPT ![script.g].is = how]
  BY DEF Ends
<1> QED
  BY <1>1, <1>2, ScriptGoesOn DEF ScriptTypeOK

LEMMA ScriptTypeStep == ScriptTypeOK /\ [ScriptNext]_scriptVars => ScriptTypeOK'
<1> SUFFICES ASSUME ScriptTypeOK, [ScriptNext]_scriptVars PROVE ScriptTypeOK'
  OBVIOUS
<1> USE DEF ScriptTypeOK
<1>1. CASE StartScript
  <2>1. script.g + 1 \in 0..Scripts /\ 0 \in 0..Scripts
    <3>1. PICK g : g = script.g
      OBVIOUS
    <3>2. g \in 0..Scripts /\ g < Scripts
      BY <3>1, <1>1 DEF StartScript
    <3> HIDE DEF ScriptTypeOK
    <3>3. g + 1 \in 0..Scripts /\ 0 \in 0..Scripts
      BY <3>2, ScriptAssumption
    <3> QED
      BY <3>1, <3>3
  <2> QED
    BY <1>1, <2>1 DEF StartScript, ScriptSteps, Ways
<1>2. CASE BulkExport
  BY <1>2, ScriptGoesOn, ScriptEnds DEF BulkExport, Keys, ScriptSteps
<1>3. CASE BulkZvec
  <2>1. PICK kept \in SUBSET (volumes[script.g].staged \ {Repository}) :
          volumes' = [volumes EXCEPT ![script.g]["zvec"] = kept]
    BY <1>3 DEF BulkZvec, Fill
  <2>2. kept \in SUBSET Callables
    BY <2>1 DEF Keys
  <2> QED
    BY <1>3, <2>1, <2>2, ScriptGoesOn, ScriptEnds DEF BulkZvec, Fill, ScriptSteps
<1>4. CASE BulkImport
  <2>1. PICK kept \in SUBSET volumes[script.g].staged :
          volumes' = [volumes EXCEPT ![script.g]["graph"] = kept]
    BY <1>4 DEF BulkImport, Fill
  <2>2. kept \in SUBSET Keys
    BY <2>1
  <2> QED
    BY <1>4, <2>1, <2>2, ScriptGoesOn, ScriptEnds DEF BulkImport, Fill, ScriptSteps
<1>5. CASE BackupRuntime \/ Discard
  <2>1. 0 \in 0..Scripts
    <3> HIDE DEF ScriptTypeOK
    <3> QED
      BY ScriptAssumption
  <2> QED
    BY <1>5, <2>1 DEF BackupRuntime, Discard, SameServices, ScriptSteps
<1>6. CASE StopServing \/ WriteRuntime \/ UpGraph \/ UpGraphFails
  BY <1>6, ScriptGoesOn, ScriptEnds DEF StopServing, WriteRuntime, UpGraph, UpGraphFails, SameServices, ScriptSteps
<1>7. CASE Bootstrap \/ ValidateIndex \/ ValidateFails \/ StopForRestore \/ RestoreRuntime
  BY <1>7, ScriptGoesOn, ScriptEnds DEF Bootstrap, ValidateIndex, ValidateFails, StopForRestore, RestoreRuntime,
                           SameServices, ScriptSteps
<1>8. CASE StopFails \/ Activate \/ ActivateFails \/ RestoreUp \/ CommandFails \/ KillScript
  BY <1>8, ScriptGoesOn, ScriptEnds DEF StopFails, Activate, ActivateFails, RestoreUp, CommandFails, KillScript,
                           UpAll, SameServices, Ways
<1>9. CASE OperatorStarts \/ OperatorStops
  BY <1>9 DEF OperatorStarts, OperatorStops, UpAll, SameServices
<1>10. CASE UNCHANGED scriptVars
  BY <1>10 DEF scriptVars
<1> QED
  BY <1>1, <1>2, <1>3, <1>4, <1>5, <1>6, <1>7, <1>8, <1>9, <1>10 DEF ScriptNext

LEMMA FileStep == ScriptTypeOK /\ FileInv /\ [ScriptNext]_scriptVars => FileInv'
<1> SUFFICES ASSUME ScriptTypeOK, FileInv, [ScriptNext]_scriptVars PROVE FileInv'
  OBVIOUS
<1>0. script.g \in 0..Scripts /\ runtime \in 0..Scripts /\ Before \in 0..Scripts
  BY DEF ScriptTypeOK, Before
<1> USE DEF Before, Ended, Untouched, Preparing, Switched
<1>1. CASE StartScript
  <2>1. /\ script'.pc = "export" /\ script'.g = script.g + 1 /\ runtime' = runtime
        /\ script.g + 1 \in 0..Scripts /\ runtime <= script.g /\ (runtime # 0 => Final(runtime))
    BY <1>1, <1>0, ScriptAssumption DEF StartScript, FileInv
  <2>2. /\ outcome'[script.g + 1] = [is |-> "running", before |-> runtime]
        /\ \A g \in 0..Scripts : g # script.g + 1 => outcome'[g] = outcome[g]
    BY <1>1, <2>1 DEF StartScript, ScriptTypeOK
  <2> QED
    BY <2>1, <2>2, <1>0 DEF FileInv, Final
(* The script goes on while its file stays, is replaced, or is restored.     *)
<1>a. ASSUME NEW pc \in ScriptSteps \ {"idle", "ended"}, script.pc \notin Ended,
             script'.pc = pc, script'.g = script.g, outcome' = outcome,
             pc \in Untouched \cup {"restore_up"} => runtime' = Before,
             pc \in Switched => runtime' = script.g,
             pc \in {"stop", "write", "up", "bootstrap", "validate", "discard", "restore_stop", "restore"} =>
               script'.backup = Before
      PROVE  FileInv'
  BY <1>a DEF FileInv, Final
(* The script ends.                                                          *)
<1>b. ASSUME NEW how \in Ways, script.pc \notin Ended, Ends(how), runtime' = runtime,
             runtime = script.g => how \in {"cut", "published"}
      PROVE  FileInv'
  <2>1. script'.pc = "ended" /\ script'.g = script.g /\ outcome'[script.g].is = how
        /\ \A g \in 0..Scripts : g # script.g => outcome'[g] = outcome[g]
    BY <1>b, ScriptGoesOn, ScriptEnds
  <2>2. runtime = script.g \/ (runtime = Before /\ Before < script.g /\ (Before # 0 => Final(Before)))
    BY <1>b DEF FileInv, ScriptTypeOK, ScriptSteps
  <2> QED
    BY <2>1, <2>2, <1>b, <1>0 DEF FileInv, Final
<1>2. CASE BulkExport \/ BulkZvec \/ BulkImport
  <2>1. /\ script'.pc \in {"zvec", "import", "backup"} /\ script'.g = script.g
        /\ outcome' = outcome /\ runtime' = runtime /\ script.pc \in Preparing
    BY <1>2, ScriptGoesOn, ScriptEnds DEF BulkExport, BulkZvec, BulkImport, Fill, At, ScriptSteps
  <2>2. runtime = Before
    BY <2>1 DEF FileInv
  <2> QED
    BY <2>1, <2>2, <1>a DEF ScriptSteps
<1>3. CASE BackupRuntime
  BY <1>3, <1>a DEF BackupRuntime, At, FileInv, ScriptTypeOK, ScriptSteps
<1>4. CASE StopServing
  BY <1>4, <1>a, ScriptGoesOn, ScriptEnds DEF StopServing, At, FileInv, ScriptSteps
<1>5. CASE WriteRuntime
  BY <1>5, <1>a, ScriptGoesOn, ScriptEnds DEF WriteRuntime, At, FileInv, ScriptSteps
<1>6. CASE UpGraph \/ UpGraphFails \/ Bootstrap \/ ValidateIndex \/ ValidateFails \/ StopForRestore
  <2>1. /\ script'.pc \in {"bootstrap", "restore", "validate", "restore_stop", "discard"}
        /\ script'.g = script.g /\ script'.backup = script.backup /\ outcome' = outcome
        /\ runtime' = runtime /\ script.pc \in {"up", "bootstrap", "validate", "restore_stop"}
    BY <1>6, ScriptGoesOn, ScriptEnds DEF UpGraph, UpGraphFails, Bootstrap, ValidateIndex, ValidateFails,
                             StopForRestore, At, ScriptSteps
  <2>2. runtime = script.g /\ script.backup = Before
    BY <2>1 DEF FileInv
  <2> QED
    BY <2>1, <2>2, <1>a DEF ScriptSteps
<1>7. CASE Discard
  <2>1. script'.pc = "activate" /\ script'.g = script.g /\ outcome' = outcome /\ runtime' = runtime
        /\ script.pc = "discard"
    BY <1>7 DEF Discard, At, ScriptTypeOK
  <2> QED
    BY <2>1, <1>a DEF FileInv, ScriptSteps
<1>8. CASE RestoreRuntime
  <2>1. script'.pc = "restore_up" /\ script'.g = script.g /\ outcome' = outcome
        /\ runtime' = script.backup /\ script.pc = "restore"
    BY <1>8, ScriptGoesOn, ScriptEnds DEF RestoreRuntime, At, ScriptSteps
  <2> QED
    BY <2>1, <1>a DEF FileInv, ScriptSteps
<1>9. CASE StopFails \/ RestoreUp
  <2>1. script.pc \in {"stop", "restore_up"} /\ runtime' = runtime /\ (Ends("failed") \/ Ends("rolled_back"))
    BY <1>9 DEF StopFails, RestoreUp, At
  <2>2. runtime # script.g
    BY <2>1, <1>0 DEF FileInv
  <2> QED
    BY <2>1, <2>2, <1>b DEF Ways
<1>10. CASE Activate \/ ActivateFails
  BY <1>10, <1>b DEF Activate, ActivateFails, At, Ways
<1>11. CASE CommandFails \/ KillScript
  BY <1>11, <1>b DEF CommandFails, KillScript, Ways
<1>12. CASE OperatorStarts \/ OperatorStops
  BY <1>12 DEF OperatorStarts, OperatorStops, FileInv, Final
<1>13. CASE UNCHANGED scriptVars
  BY <1>13 DEF scriptVars, FileInv, Final
<1> QED
  BY <1>1, <1>2, <1>3, <1>4, <1>5, <1>6, <1>7, <1>8, <1>9, <1>10, <1>11, <1>12, <1>13 DEF ScriptNext

LEMMA VolumeStep == ScriptTypeOK /\ FileInv /\ VolumeInv /\ ServiceInv /\ [ScriptNext]_scriptVars => VolumeInv'
<1> SUFFICES ASSUME ScriptTypeOK, FileInv, VolumeInv, ServiceInv, [ScriptNext]_scriptVars PROVE VolumeInv'
  OBVIOUS
<1>0. script.g \in 0..Scripts /\ script.pc \in ScriptSteps
  BY DEF ScriptTypeOK
<1>p. \A g \in 1..Scripts : g \in 0..Scripts
  BY ScriptAssumption
<1> USE DEF Ended
(* The script goes on without publishing.                                    *)
<1>a. ASSUME NEW pc \in ScriptSteps \ {"idle", "ended", "export", "zvec", "discard", "activate"},
             script.pc \in ScriptSteps \ {"idle", "ended", "export"},
             script'.pc = pc, script'.g = script.g, outcome' = outcome, volumes' = volumes
      PROVE  VolumeInv'
  BY <1>a, <1>0 DEF VolumeInv, Published
(* The script ends.                                                          *)
<1>b. ASSUME NEW how \in Ways, script.pc \notin Ended, Ends(how), volumes' = volumes,
             how = "published" => script.pc = "activate"
      PROVE  VolumeInv'
  <2>1. script'.pc = "ended" /\ script'.g = script.g /\ outcome'[script.g].is = how
        /\ \A g \in 0..Scripts : g # script.g => outcome'[g] = outcome[g]
    BY <1>b, ScriptEnds
  <2>2. how = "published" => Published(script.g)
    BY <1>b DEF VolumeInv
  <2> QED
    BY <2>1, <2>2, <1>b, <1>p DEF VolumeInv, Published
<1>1. CASE StartScript
  <2>1. script'.pc = "export" /\ volumes' = volumes
    BY <1>1 DEF StartScript
  <2>2. \A g \in 1..Scripts : outcome'[g].is = "published" => outcome[g].is = "published"
    BY <1>1, <1>p DEF StartScript, ScriptTypeOK
  <2> QED
    BY <2>1, <2>2 DEF VolumeInv, Published
(* While the volumes of the script are built, it has not published.          *)
<1>c. ASSUME script.pc \in Preparing, script'.pc \in {"zvec", "import", "backup"},
             script'.g = script.g, outcome' = outcome, volumes'[script.g].staged = Keys,
             \A g \in 0..Scripts : g # script.g => volumes'[g] = volumes[g]
      PROVE  VolumeInv'
  <2>1. outcome[script.g].is = "running"
    BY <1>c DEF FileInv, Preparing
  <2> QED
    BY <2>1, <1>c, <1>p DEF VolumeInv, Published
<1>2. CASE BulkExport
  BY <1>2, <1>0, <1>c, ScriptGoesOn DEF BulkExport, At, Keys, Preparing, ScriptSteps, ScriptTypeOK
<1>3. CASE BulkZvec
  <2>1. script.pc = "zvec" /\ script'.pc = "import" /\ script'.g = script.g /\ outcome' = outcome
    BY <1>3, ScriptGoesOn DEF BulkZvec, Fill, At, ScriptSteps
  <2>2. PICK kept : volumes' = [volumes EXCEPT ![script.g]["zvec"] = kept]
    BY <1>3 DEF BulkZvec, Fill
  <2>3. volumes'[script.g].staged = Keys
    BY <2>1, <2>2, <1>0 DEF VolumeInv, ScriptTypeOK
  <2>4. \A g \in 0..Scripts : g # script.g => volumes'[g] = volumes[g]
    BY <2>2 DEF ScriptTypeOK
  <2> QED
    BY <2>1, <2>3, <2>4, <1>c DEF Preparing
<1>4. CASE BulkImport
  <2>1. script.pc = "import" /\ script'.pc = "backup" /\ script'.g = script.g /\ outcome' = outcome
    BY <1>4, ScriptGoesOn DEF BulkImport, Fill, At, ScriptSteps
  <2>2. PICK kept : volumes' = [volumes EXCEPT ![script.g]["graph"] = kept]
    BY <1>4 DEF BulkImport, Fill
  <2>3. volumes'[script.g].staged = Keys
    BY <2>1, <2>2, <1>0 DEF VolumeInv, ScriptTypeOK
  <2>4. \A g \in 0..Scripts : g # script.g => volumes'[g] = volumes[g]
    BY <2>2 DEF ScriptTypeOK
  <2> QED
    BY <2>1, <2>3, <2>4, <1>c DEF Preparing
<1>5. CASE BackupRuntime
  BY <1>5, <1>0, <1>a DEF BackupRuntime, At, ScriptTypeOK, ScriptSteps
<1>6. CASE StopServing \/ WriteRuntime \/ UpGraph \/ UpGraphFails
  BY <1>6, <1>0, <1>a, ScriptGoesOn
     DEF StopServing, WriteRuntime, UpGraph, UpGraphFails, SameServices, At, ScriptSteps
<1>7. CASE Bootstrap \/ ValidateFails \/ StopForRestore \/ RestoreRuntime
  BY <1>7, <1>0, <1>a, ScriptGoesOn
     DEF Bootstrap, ValidateFails, StopForRestore, RestoreRuntime, SameServices, At, ScriptSteps
<1>8. CASE ValidateIndex
  <2>1. script.pc = "validate" /\ script'.pc = "discard" /\ script'.g = script.g
        /\ outcome' = outcome /\ volumes' = volumes /\ Agrees(neo4j)
    BY <1>8, ScriptGoesOn DEF ValidateIndex, At, ScriptSteps
  <2>2. neo4j = script.g /\ volumes[script.g].staged = Keys
    BY <2>1, <1>0 DEF ServiceInv, FileInv, Switched, VolumeInv
  <2>3. volumes[script.g].zvec \subseteq Callables
    BY <1>0 DEF ScriptTypeOK
  <2>4. Published(script.g)
    BY <2>1, <2>2, <2>3, ScriptAssumption DEF Agrees, Published, Keys
  <2> QED
    BY <2>1, <2>2, <2>4 DEF VolumeInv, Published
<1>9. CASE Discard
  <2>1. script.pc = "discard" /\ script'.pc = "activate" /\ script'.g = script.g
        /\ outcome' = outcome /\ volumes' = volumes
    BY <1>9 DEF Discard, At, ScriptTypeOK
  <2> QED
    BY <2>1, <1>0 DEF VolumeInv, Published
<1>10. CASE StopFails \/ RestoreUp \/ CommandFails \/ KillScript
  BY <1>10, <1>b DEF StopFails, RestoreUp, CommandFails, KillScript, At, Ways
<1>11. CASE Activate \/ ActivateFails
  BY <1>11, <1>b DEF Activate, ActivateFails, At, Ways
<1>12. CASE OperatorStarts \/ OperatorStops
  BY <1>12 DEF OperatorStarts, OperatorStops, VolumeInv, Published
<1>13. CASE UNCHANGED scriptVars
  BY <1>13 DEF scriptVars, VolumeInv, Published
<1> QED
  BY <1>1, <1>2, <1>3, <1>4, <1>5, <1>6, <1>7, <1>8, <1>9, <1>10, <1>11, <1>12, <1>13 DEF ScriptNext

LEMMA ServiceStep == ScriptTypeOK /\ FileInv /\ ServiceInv /\ [ScriptNext]_scriptVars => ServiceInv'
<1> SUFFICES ASSUME ScriptTypeOK, FileInv, ServiceInv, [ScriptNext]_scriptVars PROVE ServiceInv'
  OBVIOUS
<1> USE DEF ServiceInv, ServerDown, Switched
<1>1. CASE StartScript \/ BulkExport \/ BulkZvec \/ BulkImport \/ BackupRuntime
  <2>1. script'.pc \in Preparing \cup {"stop"} /\ runtime' = runtime /\ neo4j' = neo4j /\ mcp' = mcp
    <3>1. CASE StartScript
      BY <3>1 DEF StartScript, Preparing
    <3>2. CASE BulkExport \/ BulkZvec \/ BulkImport
      BY <3>2, ScriptGoesOn DEF BulkExport, BulkZvec, BulkImport, Fill, Preparing, ScriptSteps
    <3>3. CASE BackupRuntime
      BY <3>3 DEF BackupRuntime, ScriptTypeOK
    <3> QED
      BY <1>1, <3>1, <3>2, <3>3
  <2> QED
    BY <2>1 DEF Preparing
<1>2. CASE StopServing
  BY <1>2, ScriptGoesOn DEF StopServing, ScriptSteps
<1>3. CASE WriteRuntime \/ UpGraph \/ UpGraphFails
  <2>1. script.pc \in {"write", "up"} /\ mcp = Stopped /\ mcp' = mcp
    BY <1>3 DEF WriteRuntime, UpGraph, UpGraphFails, SameServices, At
  <2> QED
    BY <1>3, <2>1, ScriptGoesOn DEF WriteRuntime, UpGraph, UpGraphFails, SameServices, At, ScriptSteps
<1>4. CASE Bootstrap \/ ValidateIndex \/ ValidateFails \/ Discard
  <2>1. /\ script.pc \in {"bootstrap", "validate", "discard"}
        /\ script'.pc \in {"validate", "restore_stop", "discard", "activate"}
        /\ runtime' = runtime /\ neo4j' = neo4j /\ mcp' = mcp
    BY <1>4, ScriptGoesOn DEF Bootstrap, ValidateIndex, ValidateFails, Discard, SameServices, At,
                              ScriptSteps, ScriptTypeOK
  <2> QED
    BY <2>1
<1>5. CASE StopForRestore \/ RestoreRuntime
  <2>1. /\ script.pc \in {"restore_stop", "restore"} /\ script'.pc \in {"restore", "restore_up"}
        /\ mcp' = mcp
    BY <1>5, ScriptGoesOn DEF StopForRestore, RestoreRuntime, SameServices, At, ScriptSteps
  <2> QED
    BY <2>1
(* The script ends, with or without a server.                                *)
<1>a. ASSUME NEW how \in Ways, Ends(how), runtime' = runtime,
             mcp' # Stopped => mcp' = runtime /\ neo4j' \in {runtime, Stopped}
      PROVE  ServiceInv'
  BY <1>a, ScriptEnds
<1>6. CASE StopFails \/ ActivateFails \/ CommandFails \/ KillScript
  BY <1>6, <1>a DEF StopFails, ActivateFails, CommandFails, KillScript, SameServices, Ways
<1>7. CASE Activate
  BY <1>7, <1>a DEF Activate, At, Ways
<1>8. CASE RestoreUp
  BY <1>8, <1>a DEF RestoreUp, UpAll, SameServices, Ways
<1>9. CASE OperatorStarts \/ OperatorStops
  BY <1>9 DEF OperatorStarts, OperatorStops, UpAll, SameServices, Ended
<1>10. CASE UNCHANGED scriptVars
  BY <1>10 DEF scriptVars
<1> QED
  BY <1>1, <1>2, <1>3, <1>4, <1>5, <1>6, <1>7, <1>8, <1>9, <1>10 DEF ScriptNext

LEMMA ScriptInvariant == ScriptSpec => []ScriptInv
<1>1. ScriptInv /\ [ScriptNext]_scriptVars => ScriptInv'
  BY ScriptTypeStep, FileStep, VolumeStep, ServiceStep DEF ScriptInv
<1> QED
  BY <1>1, ScriptInitial, PTL DEF ScriptSpec

(* However often the script runs, wherever it fails or is killed, and however
   often the operator starts and stops the services: a running server and a
   running Neo4j are of one generation, and what is served was validated and
   published whole, was there before, or is of a script that was cut off
   (run-compose.sh:239-266).                                                 *)
THEOREM OneGenerationServed == ScriptSpec => []ServedGeneration
<1>1. ScriptInv => ServedGeneration
  <2> SUFFICES ASSUME ScriptInv PROVE ServedGeneration
    OBVIOUS
  <2>1. neo4j # Stopped /\ mcp # Stopped => mcp = neo4j
    BY DEF ScriptInv, ServiceInv
  <2>2. ASSUME mcp \notin {Stopped, 0}, outcome[mcp].is # "cut"
        PROVE  /\ volumes[mcp].graph = Callables \cup {Repository} /\ volumes[mcp].zvec = Callables
               /\ outcome[mcp].is = "published"
    <3>1. mcp = runtime /\ script.pc \notin ServerDown /\ mcp \in 1..Scripts
      BY <2>2 DEF ScriptInv, ServiceInv, ScriptTypeOK
    <3>2. outcome[mcp].is = "published"
      BY <2>2, <3>1 DEF ScriptInv, ScriptTypeOK, ScriptSteps, FileInv, ServerDown, Switched, Untouched,
                        Preparing, Ended, Final, Before
    <3> QED
      BY <3>1, <3>2 DEF ScriptInv, VolumeInv, Published, Keys
  <2> QED
    BY <2>1, <2>2 DEF ServedGeneration
<1> QED
  BY <1>1, ScriptInvariant, PTL

(* A script that fails or rolls back by itself leaves in the runtime file what
   it found there, after any history of earlier runs (run-compose.sh:242-262). *)
LEMMA RestoredStep == ScriptInv /\ PreviousRestored /\ [ScriptNext]_scriptVars => PreviousRestored'
<1> SUFFICES ASSUME ScriptTypeOK, FileInv, PreviousRestored, [ScriptNext]_scriptVars PROVE PreviousRestored'
  BY DEF ScriptInv
<1>0. script.g \in 0..Scripts
  BY DEF ScriptTypeOK
<1>1. CASE UNCHANGED <<script, runtime, outcome>>
  BY <1>1 DEF PreviousRestored, At
<1>2. CASE script'.pc # "ended"
  BY <1>2 DEF PreviousRestored, At
<1>3. ASSUME NEW how \in Ways, Ends(how), runtime' = runtime,
             how \in {"failed", "rolled_back"} => runtime = Before
      PROVE  PreviousRestored'
  BY <1>0, <1>3, ScriptEnds DEF PreviousRestored, Before
<1>4. CASE StopFails \/ RestoreUp
  <2>1. runtime = Before /\ runtime' = runtime /\ (Ends("failed") \/ Ends("rolled_back"))
    BY <1>4 DEF StopFails, RestoreUp, At, FileInv, Untouched
  <2> QED
    BY <2>1, <1>3 DEF Ways
<1>5. CASE Activate \/ ActivateFails
  BY <1>5, <1>3 DEF Activate, ActivateFails, Ways
<1>6. CASE CommandFails \/ KillScript
  <2>1. script.pc \notin Ended /\ runtime' = runtime
        /\ (Ends("cut") \/ (runtime # script.g /\ Ends("failed")))
    BY <1>6 DEF CommandFails, KillScript, Ended
  <2>2. runtime # script.g => runtime = Before
    BY <2>1 DEF FileInv, ScriptTypeOK, ScriptSteps, Untouched, Preparing, Switched, Ended
  <2> QED
    BY <2>1, <2>2, <1>3 DEF Ways
<1>7. CASE OperatorStarts \/ OperatorStops \/ UNCHANGED scriptVars
  BY <1>7, <1>1 DEF OperatorStarts, OperatorStops, scriptVars
<1>8. CASE StartScript \/ BulkExport \/ BulkZvec \/ BulkImport \/ BackupRuntime \/ StopServing
           \/ WriteRuntime \/ UpGraph \/ UpGraphFails \/ Bootstrap \/ ValidateIndex
           \/ ValidateFails \/ Discard \/ StopForRestore \/ RestoreRuntime
  <2>1. script'.pc # "ended"
    <3>1. CASE StartScript \/ BackupRuntime \/ Discard
      <4>1. script'.pc \in {"export", "stop", "activate"}
        <5>1. script \in [pc : ScriptSteps, g : 0..Scripts, backup : 0..Scripts]
          BY DEF ScriptTypeOK
        <5>2. CASE StartScript
          BY <5>2 DEF StartScript
        <5>3. CASE BackupRuntime
          BY <5>1, <5>3 DEF BackupRuntime
        <5>4. CASE Discard
          BY <5>1, <5>4 DEF Discard
        <5> QED
          BY <3>1, <5>2, <5>3, <5>4
      <4> QED
        BY <4>1
    <3>2. ASSUME NEW pc \in ScriptSteps \ {"ended"}, Continue(pc) PROVE script'.pc # "ended"
      BY <3>2, ScriptGoesOn
    <3>3. CASE BulkExport \/ BulkZvec \/ BulkImport \/ StopServing \/ WriteRuntime \/ UpGraph
      BY <3>3, <3>2 DEF BulkExport, BulkZvec, BulkImport, StopServing, WriteRuntime, UpGraph, ScriptSteps
    <3>4. CASE UpGraphFails \/ Bootstrap \/ ValidateIndex \/ ValidateFails \/ StopForRestore
               \/ RestoreRuntime
      BY <3>4, <3>2 DEF UpGraphFails, Bootstrap, ValidateIndex, ValidateFails, StopForRestore,
                        RestoreRuntime, ScriptSteps
    <3> QED
      BY <1>8, <3>1, <3>3, <3>4
  <2> QED
    BY <2>1, <1>2
<1> QED
  BY <1>4, <1>5, <1>6, <1>7, <1>8 DEF ScriptNext

(* However often the script runs and wherever it fails by itself: what was
   current before it is current again when it has ended, unless a command
   failed while it restored (run-compose.sh:242-262).                        *)
THEOREM FailureRestores == ScriptSpec => []PreviousRestored
<1>1. ScriptInit => PreviousRestored
  BY DEF ScriptInit, PreviousRestored, At
<1> QED
  BY <1>1, RestoredStep, ScriptInvariant, PTL DEF ScriptSpec
=============================================================================
