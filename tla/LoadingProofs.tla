----------------------------- MODULE LoadingProofs -----------------------------
(***************************************************************************)
(* Theorems about the two ways a graph gets into a database.               *)
(* CandidateLifecycle, for any number of operators, candidate names and    *)
(* generations: a started container serves its generation whole, a marker  *)
(* vouches for counted data, and a second marker appears only if two       *)
(* MERGEs both found none.  RepositoryIndex, for any                       *)
(* sources that parsers hand over and any size of a batch: what the graph  *)
(* and the lexical index hold while repositories are indexed, again and    *)
(* again, and calls of either store fail.                                  *)
(***************************************************************************)
EXTENDS CandidateLifecycle, RepositoryIndex, DataProofs

AllSteps == {"idle"} \cup PrepareSteps \cup BootstrapSteps

LEMMA NameTypes ==
  ASSUME NEW n \in Names
  PROVE  n[1] \in Generations /\ n[2] \in Tokens
BY CandidateAssumption

LEMMA VolumeUpdate ==
  ASSUME NEW v \in Volume, NEW data \in Generations \cup {"empty", "partial"},
         NEW importing \in BOOLEAN
  PROVE  /\ [v EXCEPT !.data = data, !.importing = importing] \in Volume
         /\ [v EXCEPT !.data = data, !.importing = importing].data = data
         /\ [v EXCEPT !.data = data, !.importing = importing].importing = importing
         /\ [v EXCEPT !.data = data, !.importing = importing].label = v.label
BY DEF Volume

LEMMA IdleType == Unused \in Command /\ Unused.pc = "idle"
<1>1. (CHOOSE n \in Names : TRUE) \in Names
  BY CandidateAssumption
<1> QED
  BY <1>1, NameTypes DEF Unused, Command

(* What Goto does to the command of o and to the others.                    *)
LEMMA GotoMoves ==
  ASSUME op \in [Operators -> Command], NEW o \in Operators, NEW pc \in AllSteps,
         Goto(o, pc)
  PROVE  /\ op' \in [Operators -> Command]
         /\ op'[o].pc = pc
         /\ pc # "idle" => op'[o].name = op[o].name /\ op'[o].generation = op[o].generation
         /\ \A p \in Operators \ {o} : op'[p] = op[p]
<1>1. op[o] \in Command
  OBVIOUS
<1>2. CASE pc = "idle"
  BY <1>2, IdleType DEF Goto
<1>3. CASE pc # "idle"
  <2>1. op' = [op EXCEPT ![o] = [op[o] EXCEPT !.pc = pc]]
    BY <1>3 DEF Goto
  <2>2. [op[o] EXCEPT !.pc = pc] \in Command
    BY <1>1 DEF Command, AllSteps
  <2> QED
    BY <1>1, <1>3, <2>1, <2>2 DEF Command
<1> QED
  BY <1>2, <1>3

LEMMA CallMoves ==
  ASSUME TypeOK, NEW o \in Operators, NEW from, NEW to \in AllSteps, Call(o, from, to)
  PROVE  /\ op' \in [Operators -> Command]
         /\ op[o].pc = from /\ op'[o].pc = to
         /\ to # "idle" => op'[o].name = op[o].name /\ op'[o].generation = op[o].generation
         /\ \A p \in Operators \ {o} : op'[p] = op[p]
         /\ container[op[o].name].running
         /\ volume' = volume /\ container' = container
BY GotoMoves DEF Call, Server, TypeOK

-----------------------------------------------------------------------------
LEMMA TypeInit == Init => TypeOK
BY IdleType DEF Init, TypeOK, NoVolume, NoContainer, Volume, Container

LEMMA TypeStep == TypeOK /\ [Next]_lifecycleVars => TypeOK'
<1> SUFFICES ASSUME TypeOK, [Next]_lifecycleVars PROVE TypeOK'
  OBVIOUS
<1> USE CandidateAssumption
<1>a. /\ \A n \in Names : volume[n] \in Volume /\ container[n] \in Container
      /\ \A o \in Operators : op[o] \in Command /\ op[o].name \in Names
                              /\ op[o].generation \in Generations
  BY DEF TypeOK, Command
<1>b. \A o \in Operators : TokenOf[o] \in Tokens
  BY DEF Tokens
(* Steps that only move a command.                                          *)
<1>1. ASSUME NEW o \in Operators, NEW pc \in AllSteps, Goto(o, pc),
             UNCHANGED <<volume, container, markers>>
      PROVE  TypeOK'
  BY <1>1, GotoMoves DEF TypeOK
<1>2. ASSUME NEW o \in Operators, NEW from, NEW to \in AllSteps, Call(o, from, to),
             UNCHANGED markers
      PROVE  TypeOK'
  BY <1>2, CallMoves DEF TypeOK
<1>3. ASSUME NEW o \in Operators, NEW g \in Generations, BeginPrepare(o, g) PROVE TypeOK'
  <2>1. [pc |-> "containers", name |-> <<g, TokenOf[o]>>, generation |-> g] \in Command
    BY <1>3 DEF BeginPrepare, Command, PrepareSteps
  <2> QED
    BY <1>3, <2>1 DEF BeginPrepare, TypeOK
<1>4. ASSUME NEW o \in Operators,
             \/ ListContainers(o) \/ ListVolumes(o) \/ InspectVolume(o)
             \/ ImportSucceeded(o) \/ InspectRunning(o) \/ Abort(o)
      PROVE  TypeOK'
  <2>1. \E pc \in AllSteps : Goto(o, pc)
    BY <1>4 DEF ListContainers, ListVolumes, InspectVolume, ImportSucceeded,
                InspectRunning, Abort, AllSteps, PrepareSteps
  <2>2. UNCHANGED <<volume, container, markers>>
    BY <1>4 DEF ListContainers, ListVolumes, InspectVolume, ImportSucceeded,
                InspectRunning, Abort
  <2> QED
    BY <1>1, <2>1, <2>2
<1>5. ASSUME NEW o \in Operators, CreateVolume(o) PROVE TypeOK'
  <2>1. [NoVolume EXCEPT !.label = TokenOf[o], !.maker = o] \in Volume
    BY <1>b DEF NoVolume, Volume
  <2>2. volume' \in [Names -> Volume]
    BY <1>5, <1>a, <2>1 DEF CreateVolume, TypeOK
  <2>3. op' \in [Operators -> Command]
    BY <1>5, GotoMoves DEF CreateVolume, TypeOK, AllSteps, PrepareSteps
  <2> QED
    BY <1>5, <2>2, <2>3 DEF CreateVolume, TypeOK
<1>6. ASSUME NEW o \in Operators, BeginImport(o) PROVE TypeOK'
  <2>1. volume' \in [Names -> Volume]
    <3>1. [volume[op[o].name] EXCEPT !.data = "partial", !.importing = TRUE] \in Volume
      BY <1>a, VolumeUpdate
    <3> QED
      BY <1>6, <3>1 DEF BeginImport, TypeOK
  <2>2. op' \in [Operators -> Command]
    BY <1>6, GotoMoves DEF BeginImport, TypeOK, AllSteps, PrepareSteps
  <2> QED
    BY <1>6, <2>1, <2>2 DEF BeginImport, TypeOK
<1>7. ASSUME NEW o \in Operators, RunContainer(o) PROVE TypeOK'
  <2>1. PICK started \in BOOLEAN :
          /\ container' = [container EXCEPT ![op[o].name] =
                             [label |-> TokenOf[o], running |-> started]]
          /\ Goto(o, IF started THEN "running" ELSE "idle")
    BY <1>7 DEF RunContainer
  <2>2. container' \in [Names -> Container]
    BY <1>b, <2>1 DEF TypeOK, Container
  <2>3. op' \in [Operators -> Command]
    BY <2>1, GotoMoves DEF TypeOK, AllSteps, PrepareSteps
  <2> QED
    BY <1>7, <2>2, <2>3 DEF RunContainer, TypeOK
<1>8. ASSUME NEW o \in Operators, CleanupContainer(o) PROVE TypeOK'
  <2>1. NoContainer \in Container
    BY DEF NoContainer, Container
  <2>2. container' \in [Names -> Container]
    BY <1>8, <2>1 DEF CleanupContainer, TypeOK
  <2>3. op' \in [Operators -> Command]
    BY <1>8, GotoMoves DEF CleanupContainer, TypeOK, AllSteps
  <2> QED
    BY <1>8, <2>2, <2>3 DEF CleanupContainer, TypeOK
<1>9. ASSUME NEW o \in Operators, NEW n \in Names, NEW g \in Generations,
             BeginBootstrap(o, n, g)
      PROVE  TypeOK'
  <2>1. [pc |-> "counts", name |-> n, generation |-> g] \in Command
    BY DEF Command, BootstrapSteps
  <2> QED
    BY <1>9, <2>1 DEF BeginBootstrap, TypeOK
<1>10. ASSUME NEW o \in Operators,
              \/ VerifyCounts(o) \/ ExistingMarker(o) \/ InspectMarker(o)
              \/ MergeMatches(o) \/ VerifyMarker(o)
       PROVE  TypeOK'
  <2>1. \E from, to \in AllSteps : Call(o, from, to)
    BY <1>10 DEF VerifyCounts, ExistingMarker, InspectMarker, MergeMatches, VerifyMarker,
                 AllSteps, BootstrapSteps
  <2>2. UNCHANGED markers
    BY <1>10 DEF VerifyCounts, ExistingMarker, InspectMarker, MergeMatches, VerifyMarker
  <2> QED
    BY <1>2, <2>1, <2>2
<1>11. ASSUME NEW o \in Operators, MergeCreates(o) PROVE TypeOK'
  <2>1. PICK to \in {"verify", "match"} : Call(o, "merge", to)
    BY <1>11 DEF MergeCreates
  <2>2. markers' \in [Names -> [Generations -> Nat]]
    <3>1. CASE markers' = markers
      BY <3>1, <1>a DEF TypeOK
    <3>2. CASE markers' = [markers EXCEPT ![op[o].name][op[o].generation] = @ + 1]
      BY <3>2, <1>a DEF TypeOK
    <3> QED
      BY <1>11, <3>1, <3>2 DEF MergeCreates
  <2>3. op' \in [Operators -> Command] /\ volume' = volume /\ container' = container
    BY <2>1, CallMoves DEF AllSteps, BootstrapSteps
  <2> QED
    BY <2>2, <2>3 DEF TypeOK
<1>12. ASSUME NEW n \in Names, Docker(n) PROVE TypeOK'
  <2>1. CASE ImportEnds(n)
    <3>1. PICK data \in {"partial", n[1]} :
            volume' = [volume EXCEPT ![n] = [@ EXCEPT !.data = data, !.importing = FALSE]]
      BY <2>1 DEF ImportEnds
    <3>2. [volume[n] EXCEPT !.data = data, !.importing = FALSE] \in Volume
      BY <1>a, NameTypes, VolumeUpdate
    <3> QED
      BY <2>1, <3>1, <3>2 DEF ImportEnds, TypeOK
  <2>2. CASE ForeignVolume(n)
    <3>1. [volume[n] EXCEPT !.label = Unowned] \in Volume
      BY <1>a DEF Volume
    <3> QED
      BY <2>2, <3>1 DEF ForeignVolume, TypeOK
  <2>3. CASE ForeignContainer(n)
    BY <2>3 DEF ForeignContainer, TypeOK, Container
  <2>4. CASE StopOrStart(n)
    <3>1. [container[n] EXCEPT !.running = ~@] \in Container
      BY <1>a DEF Container
    <3> QED
      BY <2>4, <3>1 DEF StopOrStart, TypeOK
  <2> QED
    BY <1>12, <2>1, <2>2, <2>3, <2>4 DEF Docker
<1>13. CASE UNCHANGED lifecycleVars
  BY <1>13 DEF lifecycleVars, TypeOK
<1> QED
  BY <1>3, <1>4, <1>5, <1>6, <1>7, <1>8, <1>9, <1>10, <1>11, <1>12, <1>13
     DEF Next, Prepare, Bootstrap

(* Every reachable state has its type, for every value of the constants.    *)
THEOREM TypeCorrect == Spec => []TypeOK
BY TypeInit, TypeStep, PTL DEF Spec

-----------------------------------------------------------------------------
(***************************************************************************)
(* A container is started on a finished import only.                       *)
(***************************************************************************)

(* A volume goes from absent to empty to partial to the generation it is
   named for, and a started container sits on the last.                     *)
VolumeSafe(n) ==
  /\ volume[n].label = Missing => volume[n].data = "empty"
  /\ volume[n].importing => volume[n].data = "partial"
  /\ volume[n].data \in Generations => volume[n].data = n[1]
  /\ container[n].label \in Tokens => volume[n].data = n[1]
  /\ container[n].running => container[n].label \in Tokens

(* A prepare imports what its name says, and runs only what it imported.    *)
PrepareSafe(o) ==
  /\ op[o].pc \in PrepareSteps => op[o].name[1] = op[o].generation
  /\ op[o].pc \in {"import", "importing"} => volume[op[o].name].label # Missing
  /\ op[o].pc = "run" => volume[op[o].name].data = op[o].generation

ImportSafe ==
  /\ TypeOK
  /\ \A n \in Names : VolumeSafe(n)
  /\ \A o \in Operators : PrepareSafe(o)

LEMMA ImportInit == Init => ImportSafe
<1> SUFFICES ASSUME Init PROVE ImportSafe
  OBVIOUS
<1>1. \A n \in Names : volume[n] = NoVolume /\ container[n] = NoContainer
  BY DEF Init
<1>2. \A o \in Operators : op[o].pc = "idle"
  BY IdleType DEF Init
<1>3. \A n \in Names : VolumeSafe(n)
  BY <1>1, CandidateAssumption DEF VolumeSafe, NoVolume, NoContainer
<1>4. \A o \in Operators : PrepareSafe(o)
  BY <1>2 DEF PrepareSafe, PrepareSteps
<1> QED
  BY <1>3, <1>4, TypeInit DEF ImportSafe

LEMMA ImportStep == ImportSafe /\ [Next]_lifecycleVars => ImportSafe'
<1> SUFFICES ASSUME ImportSafe, [Next]_lifecycleVars PROVE ImportSafe'
  OBVIOUS
<1>0. TypeOK /\ TypeOK'
  BY TypeStep DEF ImportSafe
<1> USE CandidateAssumption
<1>a. /\ \A n \in Names : volume[n] \in Volume /\ container[n] \in Container /\ VolumeSafe(n)
      /\ \A o \in Operators : /\ op[o] \in Command /\ op[o].name \in Names
                              /\ op[o].generation \in Generations /\ PrepareSafe(o)
      /\ \A o \in Operators : TokenOf[o] \in Tokens
  BY <1>0 DEF ImportSafe, TypeOK, Command, Tokens
(* Finished data stays, so a command that runs next stays safe.             *)
<1>b. ASSUME NEW o \in Operators,
             \A p \in Operators \ {o} : op'[p] = op[p],
             \A n \in Names : VolumeSafe(n)',
             \A n \in Names : volume[n].data \in Generations =>
                              volume'[n].data = volume[n].data,
             \A n \in Names : volume[n].label # Missing => volume'[n].label # Missing,
             PrepareSafe(o)'
      PROVE  ImportSafe'
  <2>1. ASSUME NEW p \in Operators PROVE PrepareSafe(p)'
    <3>1. CASE p = o
      BY <3>1, <1>b
    <3>2. CASE p # o
      BY <3>2, <1>b, <1>a DEF PrepareSafe
    <3> QED
      BY <3>1, <3>2
  <2> QED
    BY <2>1, <1>b, <1>0 DEF ImportSafe
(* A step that moves one command and nothing else.                          *)
<1>c. ASSUME NEW o \in Operators, \A p \in Operators \ {o} : op'[p] = op[p],
             volume' = volume, container' = container, PrepareSafe(o)'
      PROVE  ImportSafe'
  <2>1. \A n \in Names : VolumeSafe(n)'
    BY <1>a, <1>c DEF VolumeSafe
  <2> QED
    BY <2>1, <1>b, <1>c
<1>1. ASSUME NEW o \in Operators, NEW pc \in AllSteps, Goto(o, pc),
             volume' = volume, container' = container,
             pc \in PrepareSteps => op[o].pc \in PrepareSteps,
             pc \in {"import", "importing"} => volume[op[o].name].label # Missing,
             pc = "run" => volume[op[o].name].data = op[o].generation
      PROVE  ImportSafe'
  <2>1. PrepareSafe(o)'
    BY <1>1, <1>0, <1>a, GotoMoves DEF PrepareSafe, PrepareSteps, TypeOK
  <2> QED
    BY <2>1, <1>1, <1>c, <1>0, GotoMoves DEF TypeOK
<1>2. ASSUME NEW o \in Operators, NEW from, NEW to \in {"idle"} \cup BootstrapSteps,
             Call(o, from, to)
      PROVE  ImportSafe'
  <2>1. to \in AllSteps /\ to \notin PrepareSteps /\ to \notin {"import", "importing", "run"}
    BY DEF AllSteps, PrepareSteps, BootstrapSteps
  <2> QED
    BY <2>1, <1>2, <1>1 DEF Call
<1>3. ASSUME NEW o \in Operators, NEW g \in Generations, BeginPrepare(o, g)
      PROVE  ImportSafe'
  <2>1. op'[o].pc = "containers" /\ op'[o].name = <<g, TokenOf[o]>> /\ op'[o].generation = g
    BY <1>3, <1>0 DEF BeginPrepare, TypeOK
  <2>2. \A p \in Operators \ {o} : op'[p] = op[p]
    BY <1>3, <1>0 DEF BeginPrepare, TypeOK
  <2> QED
    BY <2>1, <2>2, <1>3, <1>c DEF BeginPrepare, PrepareSafe
<1>4. ASSUME NEW o \in Operators,
             \/ ListContainers(o) \/ ListVolumes(o) \/ InspectVolume(o)
             \/ ImportSucceeded(o) \/ InspectRunning(o) \/ Abort(o)
      PROVE  ImportSafe'
  <2>1. PICK pc \in AllSteps :
          /\ Goto(o, pc)
          /\ pc \in PrepareSteps => op[o].pc \in PrepareSteps
          /\ pc \in {"import", "importing"} => volume[op[o].name].label # Missing
          /\ pc = "run" => volume[op[o].name].data = op[o].generation
    BY <1>4, <1>a DEF ListContainers, ListVolumes, InspectVolume, ImportSucceeded,
                InspectRunning, Abort, AllSteps, PrepareSteps, Mine
  <2>2. volume' = volume /\ container' = container
    BY <1>4 DEF ListContainers, ListVolumes, InspectVolume, ImportSucceeded,
                InspectRunning, Abort
  <2> QED
    BY <1>1, <2>1, <2>2
<1>5. ASSUME NEW o \in Operators, CreateVolume(o) PROVE ImportSafe'
  <2> DEFINE n == op[o].name
  <2>1. /\ n \in Names /\ container' = container
        /\ op'[o].pc = "inspect" /\ op'[o].name = n /\ op'[o].generation = op[o].generation
        /\ \A p \in Operators \ {o} : op'[p] = op[p]
    BY <1>5, <1>0, <1>a, GotoMoves DEF CreateVolume, TypeOK, AllSteps, PrepareSteps
  <2>2. /\ \A m \in Names \ {n} : volume'[m] = volume[m]
        /\ volume[n].label # Missing => volume'[n] = volume[n]
        /\ volume'[n].data = volume[n].data
        /\ volume[n].label = Missing => volume'[n].importing = FALSE
                                      /\ volume'[n].label # Missing
    BY <1>5, <1>0, <1>a, <2>1 DEF CreateVolume, TypeOK, NoVolume, VolumeSafe
  <2>3. \A m \in Names : VolumeSafe(m)'
    BY <1>a, <2>1, <2>2 DEF VolumeSafe
  <2>4. PrepareSafe(o)'
    BY <1>5, <1>a, <2>1 DEF PrepareSafe, CreateVolume, PrepareSteps
  <2> QED
    BY <2>1, <2>2, <2>3, <2>4, <1>b
<1>6. ASSUME NEW o \in Operators, BeginImport(o) PROVE ImportSafe'
  <2> DEFINE n == op[o].name
  <2>1. /\ n \in Names /\ container' = container
        /\ op'[o].pc = "importing" /\ op'[o].name = n /\ op'[o].generation = op[o].generation
        /\ \A p \in Operators \ {o} : op'[p] = op[p]
    BY <1>6, <1>0, <1>a, GotoMoves DEF BeginImport, TypeOK, AllSteps, PrepareSteps
  <2>2. /\ \A m \in Names \ {n} : volume'[m] = volume[m]
        /\ volume[n].data = "empty" /\ volume'[n].data = "partial"
        /\ volume'[n].label = volume[n].label
    <3> DEFINE v == [volume[n] EXCEPT !.data = "partial", !.importing = TRUE]
    <3>0. volume[n] \in Volume
      BY <1>a, <2>1
    <3>1. v.data = "partial" /\ v.label = volume[n].label
      BY <3>0 DEF Volume
    <3>2. volume' = [volume EXCEPT ![n] = v] /\ volume[n].data = "empty"
      BY <1>6 DEF BeginImport, Mine
    <3> QED
      BY <1>0, <2>1, <3>1, <3>2 DEF TypeOK
  <2>3. volume[n].label # Missing
    BY <1>6, <1>a DEF PrepareSafe, BeginImport
  <2>4. \A m \in Names : VolumeSafe(m)'
    BY <1>a, <2>1, <2>2, <2>3, NameTypes DEF VolumeSafe
  <2>5. PrepareSafe(o)'
    BY <1>6, <1>a, <2>1, <2>2, <2>3 DEF PrepareSafe, BeginImport, PrepareSteps
  <2> QED
    BY <2>1, <2>2, <2>4, <2>5, <1>b
<1>7. ASSUME NEW o \in Operators, RunContainer(o) PROVE ImportSafe'
  <2> DEFINE n == op[o].name
  <2>1. PICK started \in BOOLEAN :
          /\ container' = [container EXCEPT ![n] =
                             [label |-> TokenOf[o], running |-> started]]
          /\ Goto(o, IF started THEN "running" ELSE "idle")
    BY <1>7 DEF RunContainer
  <2>2. /\ op[o].pc = "run" /\ volume' = volume /\ n \in Names
        /\ volume[n].data = n[1]
    BY <1>7, <1>a DEF RunContainer, PrepareSafe, PrepareSteps
  <2>3. \A m \in Names : VolumeSafe(m)'
    <3>1. /\ container'[n].label \in Tokens
          /\ \A m \in Names \ {n} : container'[m] = container[m]
      BY <1>0, <1>a, <2>1, <2>2 DEF TypeOK
    <3> QED
      BY <1>a, <2>2, <3>1 DEF VolumeSafe
  <2>4. /\ op'[o].pc \in {"running", "idle"}
        /\ op'[o].pc = "running" => op'[o].name = n /\ op'[o].generation = op[o].generation
        /\ \A p \in Operators \ {o} : op'[p] = op[p]
    BY <1>0, <2>1, GotoMoves DEF TypeOK, AllSteps, PrepareSteps
  <2>5. PrepareSafe(o)'
    BY <1>a, <2>2, <2>4 DEF PrepareSafe, PrepareSteps
  <2> QED
    BY <1>b, <2>2, <2>3, <2>4, <2>5
<1>8. ASSUME NEW o \in Operators, CleanupContainer(o) PROVE ImportSafe'
  <2> DEFINE n == op[o].name
  <2>1. /\ volume' = volume
        /\ op'[o].pc = "idle" /\ \A p \in Operators \ {o} : op'[p] = op[p]
    BY <1>8, <1>0, GotoMoves DEF CleanupContainer, TypeOK, AllSteps
  <2>2. \A m \in Names : container'[m] \in {container[m], NoContainer}
    BY <1>8, <1>0 DEF CleanupContainer, TypeOK
  <2>3. \A m \in Names : VolumeSafe(m)'
    BY <1>a, <2>1, <2>2 DEF VolumeSafe, NoContainer
  <2>4. PrepareSafe(o)'
    BY <2>1 DEF PrepareSafe, PrepareSteps
  <2> QED
    BY <1>b, <2>1, <2>3, <2>4
<1>9. ASSUME NEW o \in Operators, NEW n \in Names, NEW g \in Generations,
             BeginBootstrap(o, n, g)
      PROVE  ImportSafe'
  <2>1. /\ op'[o].pc = "counts" /\ volume' = volume /\ container' = container
        /\ \A p \in Operators \ {o} : op'[p] = op[p]
    BY <1>9, <1>0 DEF BeginBootstrap, TypeOK
  <2>2. PrepareSafe(o)'
    BY <2>1 DEF PrepareSafe, PrepareSteps
  <2> QED
    BY <2>1, <2>2, <1>c
<1>10. ASSUME NEW o \in Operators,
              \/ VerifyCounts(o) \/ ExistingMarker(o) \/ InspectMarker(o)
              \/ MergeMatches(o) \/ MergeCreates(o) \/ VerifyMarker(o)
       PROVE  ImportSafe'
  <2>1. \E from, to \in {"idle"} \cup BootstrapSteps : Call(o, from, to)
    BY <1>10 DEF VerifyCounts, ExistingMarker, InspectMarker, MergeMatches, MergeCreates,
                 VerifyMarker, BootstrapSteps
  <2> QED
    BY <2>1, <1>2
(* What other users of the daemon do leaves every command where it is.      *)
<1>11. ASSUME NEW n \in Names, Docker(n) PROVE ImportSafe'
  <2>1. op' = op
    BY <1>11 DEF Docker, ImportEnds, ForeignVolume, ForeignContainer, StopOrStart
  <2>2. /\ \A m \in Names : VolumeSafe(m)'
        /\ \A m \in Names : volume[m].data \in Generations => volume'[m].data = volume[m].data
        /\ \A m \in Names : volume[m].label # Missing => volume'[m].label # Missing
    <3>1. CASE ImportEnds(n)
      <4>1. PICK data \in {"partial", n[1]} :
              volume' = [volume EXCEPT ![n] = [@ EXCEPT !.data = data, !.importing = FALSE]]
        BY <3>1 DEF ImportEnds
      <4> DEFINE v == [volume[n] EXCEPT !.data = data, !.importing = FALSE]
      <4>2. v.data = data /\ v.importing = FALSE /\ v.label = volume[n].label
        BY <1>a DEF Volume
      <4>3. /\ container' = container /\ volume[n].importing
            /\ volume'[n].data \in {"partial", n[1]} /\ volume'[n].importing = FALSE
            /\ volume'[n].label = volume[n].label
            /\ \A m \in Names \ {n} : volume'[m] = volume[m]
        <5>1. volume' = [volume EXCEPT ![n] = v]
          BY <4>1
        <5>2. volume'[n] = v /\ \A m \in Names \ {n} : volume'[m] = volume[m]
          BY <1>0, <5>1 DEF TypeOK
        <5> QED
          BY <3>1, <4>2, <5>2 DEF ImportEnds
      <4>4. volume[n].data = "partial" /\ volume[n].data \notin Generations
            /\ volume[n].label # Missing /\ container[n].label \notin Tokens
        BY <1>a, <4>3, NameTypes DEF VolumeSafe
      <4> QED
        BY <1>a, <4>3, <4>4 DEF VolumeSafe
    <3>2. CASE ForeignVolume(n)
      <4>1. /\ volume'[n].label = Unowned /\ volume'[n].data = volume[n].data
            /\ volume'[n].importing = volume[n].importing /\ container' = container
            /\ \A m \in Names \ {n} : volume'[m] = volume[m]
        BY <1>0, <1>a, <3>2 DEF ForeignVolume, TypeOK, Volume
      <4> QED
        BY <1>a, <4>1 DEF VolumeSafe
    <3>3. CASE ForeignContainer(n)
      <4>1. /\ container'[n].label = Unowned /\ ~container'[n].running /\ volume' = volume
            /\ \A m \in Names \ {n} : container'[m] = container[m]
        BY <1>0, <3>3 DEF ForeignContainer, TypeOK
      <4> QED
        BY <1>a, <4>1 DEF VolumeSafe
    <3>4. CASE StopOrStart(n)
      <4>1. /\ container'[n].label \in Tokens /\ container'[n].label = container[n].label
            /\ volume' = volume /\ \A m \in Names \ {n} : container'[m] = container[m]
        BY <1>0, <1>a, <3>4 DEF StopOrStart, TypeOK, Container
      <4> QED
        BY <1>a, <4>1 DEF VolumeSafe
    <3> QED
      BY <1>11, <3>1, <3>2, <3>3, <3>4 DEF Docker
  <2>3. \A p \in Operators : PrepareSafe(p)'
    BY <1>a, <2>1, <2>2 DEF PrepareSafe
  <2> QED
    BY <1>0, <2>2, <2>3 DEF ImportSafe
<1>12. CASE UNCHANGED lifecycleVars
  BY <1>12, <1>0, <1>a DEF lifecycleVars, ImportSafe, VolumeSafe, PrepareSafe
<1> QED
  BY <1>3, <1>4, <1>5, <1>6, <1>7, <1>8, <1>9, <1>10, <1>11, <1>12
     DEF Next, Prepare, Bootstrap

(* A candidate container serves exactly the generation it is named for,
   whatever other commands and other users of the daemon do.                *)
THEOREM StartedImported == Spec => []StartedIsImported
<1>1. ImportSafe => StartedIsImported
  BY NameTypes, CandidateAssumption DEF ImportSafe, VolumeSafe, StartedIsImported
<1> QED
  BY <1>1, ImportInit, ImportStep, PTL DEF Spec

-----------------------------------------------------------------------------
(***************************************************************************)
(* A marker vouches for counted data.                                      *)
(***************************************************************************)

(* Imported data never changes again.                                       *)
LEMMA DataStays ==
  ASSUME ImportSafe, [Next]_lifecycleVars, NEW n \in Names, volume[n].data \in Generations
  PROVE  volume'[n].data = volume[n].data
<1>0. /\ volume \in [Names -> Volume] /\ op \in [Operators -> Command]
      /\ \A o \in Operators : op[o].name \in Names
      /\ \A m \in Names : VolumeSafe(m)
  BY DEF ImportSafe, TypeOK, Command
<1>1. volume[n].label # Missing /\ ~volume[n].importing /\ volume[n].data # "empty"
  BY <1>0, CandidateAssumption DEF VolumeSafe
<1>2. ASSUME NEW o \in Operators, CreateVolume(o) \/ BeginImport(o) PROVE volume'[n] = volume[n]
  BY <1>0, <1>1, <1>2 DEF CreateVolume, BeginImport, Mine
<1>3. ASSUME NEW m \in Names, ImportEnds(m) \/ ForeignVolume(m) PROVE volume'[n] = volume[n]
  BY <1>0, <1>1, <1>3 DEF ImportEnds, ForeignVolume
<1>4. CASE volume' = volume
  BY <1>4
<1> QED
  BY <1>2, <1>3, <1>4
     DEF Next, Prepare, Bootstrap, Docker, BeginPrepare, ListContainers, ListVolumes,
         InspectVolume, ImportSucceeded, RunContainer, InspectRunning, CleanupContainer,
         BeginBootstrap, Call, VerifyCounts, ExistingMarker, InspectMarker, MergeMatches,
         MergeCreates, VerifyMarker, ForeignContainer, StopOrStart, Abort, lifecycleVars

Vouched(n, g) ==
  volume[n].data \in Generations /\ CountsOf[volume[n].data] = CountsOf[g]

(* Past its counts a bootstrap may rely on them.                            *)
CountedSafe(o) ==
  op[o].pc \in BootstrapSteps \ {"counts"} => Vouched(op[o].name, op[o].generation)

CountedInv ==
  /\ ImportSafe
  /\ \A o \in Operators : CountedSafe(o)
  /\ MarkedWasCounted

LEMMA CountedInit == Init => CountedInv
<1> SUFFICES ASSUME Init PROVE CountedInv
  OBVIOUS
<1>1. \A o \in Operators : op[o].pc = "idle"
  BY IdleType DEF Init
<1>2. \A n \in Names : Marked(n) = {}
  BY DEF Init, Marked
<1> QED
  BY <1>1, <1>2, ImportInit DEF CountedInv, CountedSafe, MarkedWasCounted, BootstrapSteps

(* What a step does to the bootstraps: it moves one of them along, past its
   counts only when they match.                                             *)
LEMMA BootstrapMoves ==
  ASSUME ImportSafe, [Next]_lifecycleVars, NEW o \in Operators,
         op'[o].pc \in BootstrapSteps \ {"counts"}
  PROVE  /\ op'[o].name = op[o].name /\ op'[o].generation = op[o].generation
         /\ op[o].pc \in BootstrapSteps
         /\ op[o].pc = "counts" => /\ container[op[o].name].running
                                   /\ Counts(volume[op[o].name].data)
                                        = CountsOf[op[o].generation]
<1>0. TypeOK /\ op \in [Operators -> Command]
  BY DEF ImportSafe, TypeOK
<1>1. CASE op'[o] = op[o] /\ op[o].pc # "counts"
  BY <1>1
<1>2. ASSUME NEW p \in Operators, op'[p].pc \notin BootstrapSteps \ {"counts"},
             \A q \in Operators \ {p} : op'[q] = op[q]
      PROVE  op'[o] = op[o]
  BY <1>2
<1>3. ASSUME NEW p \in Operators, Prepare(p) \/ Abort(p) PROVE op'[o] = op[o]
  <2>1. CASE \E g \in Generations : BeginPrepare(p, g)
    <3>1. op'[p].pc = "containers" /\ \A q \in Operators \ {p} : op'[q] = op[q]
      BY <2>1, <1>0 DEF BeginPrepare
    <3> QED
      BY <3>1, <1>2 DEF BootstrapSteps
  <2>2. CASE ~\E g \in Generations : BeginPrepare(p, g)
    <3>1. PICK pc \in {"idle"} \cup PrepareSteps : Goto(p, pc)
      BY <1>3, <2>2
         DEF Prepare, ListContainers, ListVolumes, CreateVolume, InspectVolume, BeginImport,
             ImportSucceeded, RunContainer, InspectRunning, CleanupContainer, Abort, PrepareSteps
    <3>2. op'[p].pc = pc /\ \A q \in Operators \ {p} : op'[q] = op[q]
      BY <3>1, <1>0, GotoMoves DEF AllSteps
    <3> QED
      BY <3>2, <1>2 DEF BootstrapSteps, PrepareSteps
  <2> QED
    BY <2>1, <2>2
<1>4. ASSUME NEW p \in Operators, \E n \in Names, g \in Generations : BeginBootstrap(p, n, g)
      PROVE  op'[o] = op[o]
  <2>1. op'[p].pc = "counts" /\ \A q \in Operators \ {p} : op'[q] = op[q]
    BY <1>4, <1>0 DEF BeginBootstrap
  <2> QED
    BY <2>1, <1>2
<1>5. ASSUME NEW p \in Operators,
             \/ VerifyCounts(p) \/ ExistingMarker(p) \/ InspectMarker(p)
             \/ MergeMatches(p) \/ MergeCreates(p) \/ VerifyMarker(p)
      PROVE  /\ op'[o].name = op[o].name /\ op'[o].generation = op[o].generation
             /\ op[o].pc \in BootstrapSteps
             /\ op[o].pc = "counts" => o = p
  <2>1. PICK from \in BootstrapSteps, to \in {"idle"} \cup (BootstrapSteps \ {"counts"}) :
          Call(p, from, to)
    BY <1>5 DEF VerifyCounts, ExistingMarker, InspectMarker, MergeMatches, MergeCreates,
                VerifyMarker, BootstrapSteps
  <2>2. /\ op[p].pc = from /\ op'[p].pc = to
        /\ to # "idle" => op'[p].name = op[p].name /\ op'[p].generation = op[p].generation
        /\ \A q \in Operators \ {p} : op'[q] = op[q]
    BY <1>0, <2>1, CallMoves DEF AllSteps
  <2> QED
    BY <2>2 DEF BootstrapSteps
<1>6. ASSUME NEW p \in Operators, op[p].pc = "counts",
             \/ VerifyCounts(p) \/ ExistingMarker(p) \/ InspectMarker(p)
             \/ MergeMatches(p) \/ MergeCreates(p) \/ VerifyMarker(p)
      PROVE  /\ container[op[p].name].running
             /\ Counts(volume[op[p].name].data) = CountsOf[op[p].generation]
  BY <1>6 DEF VerifyCounts, ExistingMarker, InspectMarker, MergeMatches, MergeCreates,
              VerifyMarker, Call, Server, Mine
<1>7. CASE \E n \in Names : Docker(n)
  <2>1. op' = op
    BY <1>7 DEF Docker, ImportEnds, ForeignVolume, ForeignContainer, StopOrStart
  <2> QED
    BY <2>1
<1>8. CASE UNCHANGED lifecycleVars
  BY <1>8 DEF lifecycleVars
<1>9. ASSUME NEW p \in Operators, Bootstrap(p) PROVE \/ op'[o] = op[o]
                                                    \/ /\ op'[o].name = op[o].name
                                                       /\ op'[o].generation = op[o].generation
                                                       /\ op[o].pc \in BootstrapSteps
                                                       /\ op[o].pc = "counts" =>
                                                            /\ container[op[o].name].running
                                                            /\ Counts(volume[op[o].name].data)
                                                                 = CountsOf[op[o].generation]
  <2>1. CASE \E n \in Names, g \in Generations : BeginBootstrap(p, n, g)
    BY <2>1, <1>4
  <2>2. CASE ~\E n \in Names, g \in Generations : BeginBootstrap(p, n, g)
    BY <2>2, <1>5, <1>6, <1>9 DEF Bootstrap
  <2> QED
    BY <2>1, <2>2
<1> QED
  BY <1>3, <1>7, <1>8, <1>9 DEF Next

LEMMA CountedStep == CountedInv /\ [Next]_lifecycleVars => CountedInv'
<1> SUFFICES ASSUME CountedInv, [Next]_lifecycleVars PROVE CountedInv'
  OBVIOUS
<1>0. ImportSafe /\ ImportSafe' /\ TypeOK
  BY ImportStep DEF CountedInv, ImportSafe
<1>a. \A o \in Operators : op[o].name \in Names /\ op[o].generation \in Generations
  BY <1>0 DEF TypeOK, Command
<1>1. ASSUME NEW n \in Names, NEW g \in Generations, Vouched(n, g) PROVE Vouched(n, g)'
  BY <1>0, <1>1, DataStays DEF Vouched
<1>2. ASSUME NEW o \in Operators PROVE CountedSafe(o)'
  <2> SUFFICES ASSUME op'[o].pc \in BootstrapSteps \ {"counts"}
               PROVE  Vouched(op[o].name, op[o].generation)'
                      /\ op'[o].name = op[o].name /\ op'[o].generation = op[o].generation
    BY DEF CountedSafe, Vouched
  <2>1. /\ op'[o].name = op[o].name /\ op'[o].generation = op[o].generation
        /\ op[o].pc \in BootstrapSteps
        /\ op[o].pc = "counts" => /\ container[op[o].name].running
                                  /\ Counts(volume[op[o].name].data)
                                       = CountsOf[op[o].generation]
    BY <1>0, BootstrapMoves
  <2>2. CASE op[o].pc = "counts"
    <3>1. volume[op[o].name].data \in Generations
      BY <1>0, <1>a, <2>1, <2>2, NameTypes DEF ImportSafe, VolumeSafe
    <3>2. Vouched(op[o].name, op[o].generation)
      BY <2>1, <2>2, <3>1 DEF Vouched, Counts
    <3> QED
      BY <1>0, <1>a, <2>1, <3>1, <3>2, DataStays DEF Vouched
  <2>3. CASE op[o].pc # "counts"
    <3>1. Vouched(op[o].name, op[o].generation)
      BY <2>1, <2>3 DEF CountedInv, CountedSafe
    <3> QED
      BY <1>0, <1>a, <2>1, <3>1, DataStays DEF Vouched
  <2> QED
    BY <2>2, <2>3
<1>3. MarkedWasCounted'
  <2> SUFFICES ASSUME NEW n \in Names, NEW g \in Generations, markers'[n][g] > 0
               PROVE  Vouched(n, g)'
    BY DEF MarkedWasCounted, Marked, Vouched
  <2>1. CASE markers[n][g] > 0
    BY <1>1, <2>1 DEF CountedInv, MarkedWasCounted, Marked, Vouched
  <2>2. CASE ~(markers[n][g] > 0)
    <3>1. markers' # markers
      BY <2>2
    <3>2. PICK o \in Operators : MergeCreates(o)
      BY <3>1
         DEF Next, Prepare, Bootstrap, Docker, BeginPrepare, ListContainers, ListVolumes,
             CreateVolume, InspectVolume, BeginImport, ImportSucceeded, RunContainer,
             InspectRunning, CleanupContainer, BeginBootstrap, VerifyCounts, ExistingMarker,
             InspectMarker, MergeMatches, VerifyMarker, ImportEnds, ForeignVolume,
             ForeignContainer, StopOrStart, Abort, lifecycleVars
    <3>3. op[o].pc = "merge"
          /\ markers' = [markers EXCEPT ![op[o].name][op[o].generation] = @ + 1]
      BY <3>1, <3>2 DEF MergeCreates, Call
    <3>4. n = op[o].name /\ g = op[o].generation
      BY <1>0, <1>a, <2>2, <3>3 DEF TypeOK
    <3>5. Vouched(n, g)
      BY <3>3, <3>4 DEF CountedInv, CountedSafe, BootstrapSteps
    <3> QED
      BY <3>5, <1>1
  <2> QED
    BY <2>1, <2>2
<1> QED
  BY <1>0, <1>2, <1>3 DEF CountedInv

(* Every marker, whichever endpoint a bootstrap was pointed at, vouches for a
   finished import with the counts of the generation it names.              *)
THEOREM MarkedCounted == Spec => []MarkedWasCounted
<1>1. CountedInv => MarkedWasCounted
  BY DEF CountedInv
<1> QED
  BY <1>1, CountedInit, CountedStep, PTL DEF Spec

-----------------------------------------------------------------------------
(***************************************************************************)
(* One marker per database, unless two MERGEs race.                        *)
(***************************************************************************)

(* Only MergeCreates touches the markers.                                   *)
LEMMA MarkersMove ==
  ASSUME [Next]_lifecycleVars
  PROVE  markers' = markers \/ \E o \in Operators : MergeCreates(o)
BY DEF Next, Prepare, Bootstrap, Docker, BeginPrepare, ListContainers, ListVolumes,
       CreateVolume, InspectVolume, BeginImport, ImportSucceeded, RunContainer,
       InspectRunning, CleanupContainer, BeginBootstrap, VerifyCounts, ExistingMarker,
       InspectMarker, MergeMatches, VerifyMarker, ImportEnds, ForeignVolume,
       ForeignContainer, StopOrStart, Abort, lifecycleVars

(* MERGE is left to create only by a command that found no marker.          *)
LEMMA MergeOnly ==
  ASSUME ImportSafe, [Next]_lifecycleVars, NEW o \in Operators, op'[o].pc = "merge", op[o].pc # "merge"
  PROVE  /\ Marked(op[o].name) = {}
         /\ \A q \in Operators \ {o} : op'[q] = op[q]
<1>0. TypeOK /\ op \in [Operators -> Command]
  BY DEF ImportSafe, TypeOK
<1>1. ASSUME NEW p \in Operators, NEW pc \in AllSteps \ {"merge"}, Goto(p, pc) PROVE FALSE
  BY <1>0, <1>1, GotoMoves
<1>2. ASSUME NEW p \in Operators,
             \/ \E g \in Generations : BeginPrepare(p, g)
             \/ \E n \in Names, g \in Generations : BeginBootstrap(p, n, g)
      PROVE  FALSE
  <2>1. ASSUME NEW g \in Generations, BeginPrepare(p, g) PROVE FALSE
    BY <1>0, <2>1 DEF BeginPrepare
  <2>2. ASSUME NEW n \in Names, NEW g \in Generations, BeginBootstrap(p, n, g) PROVE FALSE
    BY <1>0, <2>2 DEF BeginBootstrap
  <2> QED
    BY <1>2, <2>1, <2>2
<1>3. ASSUME NEW p \in Operators, MergeMatches(p)
      PROVE  Marked(op[o].name) = {} /\ \A q \in Operators \ {o} : op'[q] = op[q]
  <2>1. CASE Marked(op[p].name) = {}
    <3>1. \A q \in Operators \ {p} : op'[q] = op[q]
      BY <1>0, <1>3, <2>1, CallMoves DEF MergeMatches, AllSteps, BootstrapSteps
    <3> QED
      BY <2>1, <3>1
  <2>2. CASE Marked(op[p].name) # {}
    BY <1>3, <2>2, <1>1 DEF MergeMatches, Call, AllSteps, BootstrapSteps
  <2> QED
    BY <2>1, <2>2
<1>4. ASSUME NEW p \in Operators,
             \/ ListContainers(p) \/ ListVolumes(p) \/ CreateVolume(p) \/ InspectVolume(p)
             \/ BeginImport(p) \/ ImportSucceeded(p) \/ RunContainer(p)
             \/ InspectRunning(p) \/ CleanupContainer(p) \/ Abort(p)
      PROVE  FALSE
  <2>1. \E pc \in AllSteps \ {"merge"} : Goto(p, pc)
    BY <1>4 DEF ListContainers, ListVolumes, CreateVolume, InspectVolume, BeginImport,
                ImportSucceeded, RunContainer, InspectRunning, CleanupContainer, Abort,
                AllSteps, PrepareSteps
  <2> QED
    BY <2>1, <1>1
<1>5. ASSUME NEW p \in Operators,
             \/ VerifyCounts(p) \/ ExistingMarker(p) \/ InspectMarker(p)
             \/ MergeCreates(p) \/ VerifyMarker(p)
      PROVE  FALSE
  <2>1. \E pc \in AllSteps \ {"merge"} : Goto(p, pc)
    BY <1>5 DEF VerifyCounts, ExistingMarker, InspectMarker, MergeCreates, VerifyMarker,
                Call, AllSteps, BootstrapSteps
  <2> QED
    BY <2>1, <1>1
<1>6. CASE (\E n \in Names : Docker(n)) \/ UNCHANGED lifecycleVars
  <2>1. op' = op
    BY <1>6 DEF Docker, ImportEnds, ForeignVolume, ForeignContainer, StopOrStart, lifecycleVars
  <2> QED
    BY <2>1
<1> QED
  BY <1>2, <1>3, <1>4, <1>5, <1>6 DEF Next, Prepare, Bootstrap

(* Who creates a marker in a database without one leaves one.               *)
LEMMA FirstMarker ==
  ASSUME ImportSafe, NEW o \in Operators, MergeCreates(o), markers' # markers
  PROVE  /\ op[o].pc = "merge" /\ op'[o].pc # "merge"
         /\ \A q \in Operators \ {o} : op'[q] = op[q]
         /\ op[o].name \in Names /\ op[o].generation \in Generations
         /\ \A n \in Names \ {op[o].name} : markers'[n] = markers[n]
         /\ Marked(op[o].name) = {} =>
              \E g \in Generations :
                markers'[op[o].name] = [h \in Generations |-> IF h = g THEN 1 ELSE 0]
<1> DEFINE n == op[o].name
           g == op[o].generation
<1>0. TypeOK /\ n \in Names /\ g \in Generations /\ op \in [Operators -> Command]
  BY DEF ImportSafe, TypeOK, Command
<1>1. Call(o, "merge", "verify")
  BY DEF MergeCreates
<1>2. op[o].pc = "merge" /\ op'[o].pc = "verify" /\ \A q \in Operators \ {o} : op'[q] = op[q]
      /\ op'[o].name = n /\ op'[o].generation = g
  BY <1>0, <1>1, CallMoves DEF AllSteps, BootstrapSteps
<1>3. markers' = [markers EXCEPT ![n][g] = @ + 1]
  BY DEF MergeCreates
<1>4. markers[n] \in [Generations -> Nat] /\ markers'[n] = [markers[n] EXCEPT ![g] = @ + 1]
  BY <1>0, <1>3 DEF TypeOK
<1>5. \A m \in Names \ {n} : markers'[m] = markers[m]
  BY <1>0, <1>3 DEF TypeOK
<1>6. ASSUME Marked(n) = {}
      PROVE  markers'[n] = [h \in Generations |-> IF h = g THEN 1 ELSE 0]
  <2>1. \A h \in Generations : markers[n][h] = 0
    BY <1>4, <1>6 DEF Marked
  <2> HIDE DEF n, g
  <2> QED
    BY <2>1, <1>0, <1>4
<1> QED
  BY <1>0, <1>2, <1>5, <1>6

(* Who is about to create a marker was so before, or has just found none.   *)
LEMMA CreatingBegins ==
  ASSUME ImportSafe, [Next]_lifecycleVars, NEW n \in Names, NEW o \in Creating(n)',
         o \notin Creating(n)
  PROVE  Marked(n) = {} /\ \A q \in Operators \ {o} : op'[q] = op[q]
<1>1. o \in Operators /\ op'[o].pc = "merge" /\ op'[o].name = n
  BY DEF Creating
<1>2. op[o].name = n
  BY <1>1, BootstrapMoves DEF BootstrapSteps
<1>3. op[o].pc # "merge"
  BY <1>1, <1>2 DEF Creating
<1> QED
  BY <1>1, <1>2, <1>3, MergeOnly

LEMMA SettledStep ==
  ASSUME ImportSafe, [Next]_lifecycleVars, NEW n \in Names, NEW g \in Generations,
         Settled(n, g)
  PROVE  Settled(n, g)'
<1>1. markers'[n] = markers[n]
  BY MarkersMove, FirstMarker DEF Settled, Creating
<1>2. Marked(n) # {}
  BY DEF Settled, OnlyMarker, Marked
<1>3. Creating(n)' = {}
  BY <1>2, CreatingBegins DEF Settled
<1> QED
  BY <1>1, <1>3 DEF Settled, OnlyMarker

LEMMA FirstStep ==
  ASSUME ImportSafe, [Next]_lifecycleVars, NEW n \in Names, FirstDue(n)
  PROVE  AtMostOne(n)' \/ Races(n)
<1>1. CASE markers'[n] = markers[n]
  <2>1. Marked(n) = {} /\ Marked(n)' = {}
    BY <1>1 DEF FirstDue, Marked
  <2>2. ASSUME NEW o \in Creating(n)', NEW p \in Creating(n)', o # p
        PROVE  \E q \in Creating(n) : q \in Creating(n)'
    <3>1. o \in Operators /\ p \in Operators
      BY DEF Creating
    <3>2. CASE o \in Creating(n)
      BY <3>2
    <3>3. CASE o \notin Creating(n)
      <4>1. op'[p] = op[p]
        BY <2>2, <3>1, <3>3, CreatingBegins
      <4> QED
        BY <4>1, <3>1 DEF Creating
    <3> QED
      BY <3>2, <3>3
  <2>3. CASE \A o, p \in Creating(n)' : o = p
    BY <2>1, <2>3 DEF AtMostOne, FirstDue
  <2> QED
    BY <2>1, <2>2, <2>3 DEF Races
<1>2. CASE markers'[n] # markers[n]
  <2>1. PICK o \in Operators : MergeCreates(o) /\ markers' # markers
    BY <1>2, MarkersMove
  <2>2. op[o].name = n /\ op[o].pc = "merge" /\ op'[o].pc # "merge"
        /\ \A q \in Operators \ {o} : op'[q] = op[q]
    BY <1>2, <2>1, FirstMarker
  <2>3. PICK g \in Generations :
               markers'[n] = [h \in Generations |-> IF h = g THEN 1 ELSE 0]
    BY <2>1, <2>2, FirstMarker DEF FirstDue
  <2>4. Creating(n)' = {}
    BY <2>2 DEF FirstDue, Creating
  <2>5. Settled(n, g)'
    BY <2>3, <2>4 DEF Settled, OnlyMarker
  <2> QED
    BY <2>5 DEF AtMostOne
<1> QED
  BY <1>1, <1>2

(* A database leaves the states with at most one marker, made or about to be
   made, only by the race of two MERGEs of which both found none; whatever is
   retried, killed, repeated or pointed at the wrong endpoint.              *)
THEOREM SecondMarkerNeedsRace == Spec => SecondMarkerOnlyByRace
<1>1. ImportSafe /\ [Next]_lifecycleVars
        => [\A n \in Names : AtMostOne(n) => AtMostOne(n)' \/ Races(n)]_lifecycleVars
  <2> SUFFICES ASSUME ImportSafe, [Next]_lifecycleVars, NEW n \in Names, AtMostOne(n)
               PROVE  AtMostOne(n)' \/ Races(n)
    OBVIOUS
  <2>1. CASE FirstDue(n)
    BY <2>1, FirstStep
  <2>2. ASSUME NEW g \in Generations, Settled(n, g) PROVE AtMostOne(n)'
    BY <2>2, SettledStep DEF AtMostOne
  <2> QED
    BY <2>1, <2>2 DEF AtMostOne
<1> QED
  BY <1>1, ImportInit, ImportStep, PTL DEF Spec, SecondMarkerOnlyByRace

(* Once a database has one marker and no MERGE that found none is still to
   create its own, that marker is its only one for good: no later bootstrap,
   of this generation or another, alone or not, adds a second.              *)
THEOREM MarkerSettles ==
  ASSUME NEW n \in Names, NEW g \in Generations
  PROVE  Spec => [](Settled(n, g) => []Settled(n, g))
<1>1. ImportSafe /\ Settled(n, g) /\ [Next]_lifecycleVars => Settled(n, g)'
  BY SettledStep
<1> QED
  BY <1>1, ImportInit, ImportStep, PTL DEF Spec

-----------------------------------------------------------------------------
(***************************************************************************)
(* A label tells who made the volume, as long as no token is used twice.   *)
(***************************************************************************)

LabelInv ==
  /\ TypeOK
  /\ \A n \in Names : volume[n].label \in Tokens =>
       volume[n].maker \in Operators /\ volume[n].label = TokenOf[volume[n].maker]
  /\ \A o \in Operators : op[o].pc = "import" => volume[op[o].name].label = TokenOf[o]

LEMMA LabelInit == Init => LabelInv
<1> SUFFICES ASSUME Init PROVE LabelInv
  OBVIOUS
<1>1. \A o \in Operators : op[o].pc = "idle"
  BY IdleType DEF Init
<1>2. \A n \in Names : volume[n].label = Missing
  BY DEF Init, NoVolume
<1> QED
  BY <1>1, <1>2, TypeInit, CandidateAssumption DEF LabelInv

(* A volume that exists keeps its label and its maker.                      *)
LEMMA LabelsStay ==
  ASSUME TypeOK, [Next]_lifecycleVars, NEW n \in Names
  PROVE  \/ volume'[n].label = volume[n].label /\ volume'[n].maker = volume[n].maker
         \/ volume[n].label = Missing /\ volume'[n].label = Unowned
         \/ \E o \in Operators : /\ volume[n].label = Missing
                                 /\ volume'[n].label = TokenOf[o] /\ volume'[n].maker = o
<1>0. /\ volume \in [Names -> Volume] /\ volume[n] \in Volume
      /\ \A o \in Operators : op[o].name \in Names
  BY DEF TypeOK, Command
<1>1. ASSUME NEW o \in Operators, CreateVolume(o)
      PROVE  \/ volume'[n] = volume[n]
             \/ volume[n].label = Missing /\ volume'[n].label = TokenOf[o]
                                         /\ volume'[n].maker = o
  BY <1>0, <1>1 DEF CreateVolume, NoVolume
<1>2. ASSUME NEW o \in Operators, BeginImport(o)
      PROVE  volume'[n].label = volume[n].label /\ volume'[n].maker = volume[n].maker
  <2>1. volume'[n] \in {volume[n], [volume[n] EXCEPT !.data = "partial", !.importing = TRUE]}
    BY <1>0, <1>2 DEF BeginImport
  <2> QED
    BY <1>0, <2>1 DEF Volume
<1>3. ASSUME NEW m \in Names, ImportEnds(m)
      PROVE  volume'[n].label = volume[n].label /\ volume'[n].maker = volume[n].maker
  <2>1. PICK data \in {"partial", m[1]} :
          volume' = [volume EXCEPT ![m] = [@ EXCEPT !.data = data, !.importing = FALSE]]
    BY <1>3 DEF ImportEnds
  <2>2. volume'[n] \in {volume[n], [volume[n] EXCEPT !.data = data, !.importing = FALSE]}
    BY <1>0, <2>1
  <2> QED
    BY <1>0, <2>2 DEF Volume
<1>4. ASSUME NEW m \in Names, ForeignVolume(m)
      PROVE  \/ volume'[n] = volume[n]
             \/ volume[n].label = Missing /\ volume'[n].label = Unowned
  <2>1. CASE n = m
    <3>1. volume'[n] = [volume[n] EXCEPT !.label = Unowned] /\ volume[n].label = Missing
      BY <1>0, <1>4, <2>1 DEF ForeignVolume
    <3> QED
      BY <1>0, <3>1 DEF Volume
  <2>2. CASE n # m
    BY <1>0, <1>4, <2>2 DEF ForeignVolume
  <2> QED
    BY <2>1, <2>2
<1>5. CASE volume' = volume
  BY <1>5
<1> QED
  BY <1>1, <1>2, <1>3, <1>4, <1>5
     DEF Next, Prepare, Bootstrap, Docker, BeginPrepare, ListContainers, ListVolumes,
         InspectVolume, ImportSucceeded, RunContainer, InspectRunning, CleanupContainer,
         BeginBootstrap, Call, VerifyCounts, ExistingMarker, InspectMarker, MergeMatches,
         MergeCreates, VerifyMarker, ForeignContainer, StopOrStart, Abort, lifecycleVars

LEMMA LabelStep == LabelInv /\ [Next]_lifecycleVars => LabelInv'
<1> SUFFICES ASSUME LabelInv, [Next]_lifecycleVars PROVE LabelInv'
  OBVIOUS
<1>0. TypeOK /\ TypeOK' /\ op \in [Operators -> Command]
  BY TypeStep DEF LabelInv, TypeOK
<1>a. \A o \in Operators : op[o].name \in Names /\ TokenOf[o] \in Tokens
  BY <1>0 DEF TypeOK, Command, Tokens
<1>1. ASSUME NEW n \in Names, volume'[n].label \in Tokens
      PROVE  volume'[n].maker \in Operators /\ volume'[n].label = TokenOf[volume'[n].maker]
  BY <1>0, <1>1, LabelsStay, CandidateAssumption DEF LabelInv
(* Only InspectVolume leads to the import.                                  *)
<1>2. ASSUME NEW o \in Operators, op'[o].pc = "import"
      PROVE  volume[op'[o].name].label = TokenOf[o] /\ op'[o].name \in Names
  <2>1. CASE op'[o] = op[o]
    BY <1>2, <1>a, <2>1 DEF LabelInv
  <2>2. ASSUME NEW p \in Operators, NEW pc \in AllSteps \ {"import"}, Goto(p, pc)
        PROVE  op'[o] = op[o]
    BY <1>0, <1>2, <2>2, GotoMoves
  <2>3. ASSUME NEW p \in Operators, NEW g \in Generations, BeginPrepare(p, g)
        PROVE  op'[o] = op[o]
    BY <1>0, <1>2, <2>3 DEF BeginPrepare
  <2>4. ASSUME NEW p \in Operators, NEW n \in Names, NEW g \in Generations,
               BeginBootstrap(p, n, g)
        PROVE  op'[o] = op[o]
    BY <1>0, <1>2, <2>4 DEF BeginBootstrap
  <2>5. ASSUME NEW p \in Operators, InspectVolume(p)
        PROVE  op'[o] = op[o] \/ (volume[op'[o].name].label = TokenOf[o]
                                 /\ op'[o].name \in Names)
    <3>1. op'[p].name = op[p].name /\ \A q \in Operators \ {p} : op'[q] = op[q]
      BY <1>0, <2>5, GotoMoves DEF InspectVolume, AllSteps, PrepareSteps
    <3> QED
      BY <1>a, <2>5, <3>1 DEF InspectVolume, Mine
  <2>6. ASSUME NEW p \in Operators,
               \/ ListContainers(p) \/ ListVolumes(p) \/ CreateVolume(p)
               \/ BeginImport(p) \/ ImportSucceeded(p) \/ RunContainer(p)
               \/ InspectRunning(p) \/ CleanupContainer(p) \/ Abort(p)
               \/ VerifyCounts(p) \/ ExistingMarker(p) \/ InspectMarker(p)
               \/ MergeMatches(p) \/ MergeCreates(p) \/ VerifyMarker(p)
        PROVE  op'[o] = op[o]
    <3>1. \E pc \in AllSteps \ {"import"} : Goto(p, pc)
      BY <2>6
         DEF ListContainers, ListVolumes, CreateVolume, BeginImport, ImportSucceeded,
             RunContainer, InspectRunning, CleanupContainer, Abort, VerifyCounts,
             ExistingMarker, InspectMarker, MergeMatches, MergeCreates, VerifyMarker,
             Call, AllSteps, PrepareSteps, BootstrapSteps
    <3> QED
      BY <3>1, <2>2
  <2>7. CASE (\E n \in Names : Docker(n)) \/ UNCHANGED lifecycleVars
    <3>1. op' = op
      BY <2>7 DEF Docker, ImportEnds, ForeignVolume, ForeignContainer, StopOrStart, lifecycleVars
    <3> QED
      BY <3>1, <2>1
  <2> QED
    BY <2>1, <2>3, <2>4, <2>5, <2>6, <2>7 DEF Next, Prepare, Bootstrap
<1>3. ASSUME NEW o \in Operators, op'[o].pc = "import"
      PROVE  volume'[op'[o].name].label = TokenOf[o]
  <2> DEFINE n == op'[o].name
  <2>1. volume[n].label = TokenOf[o] /\ n \in Names
    BY <1>2, <1>3
  <2>2. volume[n].label # Missing
    BY <1>a, <2>1, CandidateAssumption
  <2> HIDE DEF n
  <2>3. volume'[n].label = volume[n].label
    BY <1>0, <2>1, <2>2, LabelsStay
  <2> QED
    BY <2>1, <2>3 DEF n
<1> QED
  BY <1>0, <1>1, <1>3 DEF LabelInv

(* With fresh tokens a prepare imports only into the volume it created.     *)
THEOREM ImportsOwn ==
  ASSUME \A o, p \in Operators : TokenOf[o] = TokenOf[p] => o = p
  PROVE  Spec => ImportsOwnVolume
<1>1. ASSUME LabelInv
      PROVE  \A o \in Operators : BeginImport(o) => Mine(o).maker = o
  <2> SUFFICES ASSUME NEW o \in Operators, BeginImport(o) PROVE Mine(o).maker = o
    OBVIOUS
  <2>1. op[o].name \in Names /\ TokenOf[o] \in Tokens
    BY <1>1 DEF LabelInv, TypeOK, Command, Tokens
  <2>2. volume[op[o].name].label = TokenOf[o]
    BY <1>1 DEF LabelInv, BeginImport
  <2> QED
    BY <1>1, <2>1, <2>2 DEF LabelInv, Mine
<1> QED
  BY <1>1, LabelInit, LabelStep, PTL DEF Spec, ImportsOwnVolume

-----------------------------------------------------------------------------
WithStep(acc, at, st, cte) ==
  [b |-> ReadFrom(acc.b, at, cte.schema, cte.arg[1],
                  IF st.arg = <<"recursive">> THEN acc.scope \cup {st.body[n].name : n \in DOMAIN st.body}
                  ELSE acc.scope),
   scope |-> acc.scope \cup {cte.name}]

(* The common table expressions of a SELECT, one after the other.          *)
WithIter(iter, b, at, st) ==
  iter = [s \in SUBSET (DOMAIN st.body) |->
            IF s = {} THEN [b |-> b, scope |-> {}] ELSE WithStep(iter[s \ {Max(s)}], at, st, st.body[Max(s)])]

WithRun(f, n, b, at, st) ==
  /\ f[0] = [b |-> b, scope |-> {}]
  /\ \A k \in 1 .. n : f[k] = WithStep(f[k - 1], at, st, st.body[k])
  /\ Select(b, at, st) = ReadFrom(f[n].b, at, st.schema, st.name, f[n].scope)

LEMMA WithRuns ==
  ASSUME NEW b, NEW at, NEW st, NEW n \in Nat, DOMAIN st.body = 1 .. n
  PROVE  \E f : WithRun(f, n, b, at, st)
<1> DEFINE Take(q, k) == WithStep(q, at, st, st.body[k])
           start == [b |-> b, scope |-> {}]
           Goes(iter, m) == iter = [s \in SUBSET (1 .. m) |->
                              IF s = {} THEN start ELSE Take(iter[s \ {Max(s)}], Max(s))]
           T == {m \in Nat : \E iter : Goes(iter, m)}
           c == CHOOSE iter : WithIter(iter, b, at, st)
<1>1. 0 \in T
  <2> DEFINE none == [s \in SUBSET (1 .. 0) |-> start]
  <2>1. \A s \in SUBSET (1 .. 0) : s = {}
    OBVIOUS
  <2> HIDE DEF Take, start
  <2>2. Goes(none, 0)
    BY <2>1
  <2> HIDE DEF none, Goes
  <2> QED
    BY <2>2
<1>2. ASSUME NEW m \in Nat, m \in T PROVE m + 1 \in T
  <2> HIDE DEF Take, start
  <2>1. PICK it : Goes(it, m)
    BY <1>2
  <2> DEFINE more == [s \in SUBSET (1 .. m + 1) |->
                        IF m + 1 \in s THEN Take(it[s \ {m + 1}], m + 1) ELSE it[s]]
             Next1(s) == IF s = {} THEN start ELSE Take(more[s \ {Max(s)}], Max(s))
  <2>2. ASSUME NEW s \in SUBSET (1 .. m + 1) PROVE more[s] = Next1(s)
    <3>1. CASE s = {}
      <4>1. {} \in SUBSET (1 .. m) /\ m + 1 \notin s
        BY <3>1
      <4>2. more[s] = it[{}] /\ it[{}] = start
        BY <2>1, <3>1, <4>1
      <4> QED
        BY <3>1, <4>2
    <3>2. CASE s # {} /\ m + 1 \in s
      <4>1. Max(s) = m + 1
        <5>1. m + 1 \in Nat
          OBVIOUS
        <5>2. Max(s) \in s /\ \A x \in s : x <= Max(s)
          BY <3>2, <5>1, GreatestMember
        <5>3. PICK top : top = Max(s)
          OBVIOUS
        <5>4. top \in 1 .. m + 1 /\ m + 1 <= top
          BY <3>2, <5>2, <5>3
        <5> QED
          BY <5>1, <5>3, <5>4
      <4>2. s \ {m + 1} \in SUBSET (1 .. m) /\ s \ {m + 1} \in SUBSET (1 .. m + 1) /\ m + 1 \notin s \ {m + 1}
        OBVIOUS
      <4>3. more[s \ {m + 1}] = it[s \ {m + 1}] /\ more[s] = Take(it[s \ {m + 1}], m + 1)
        BY <3>2, <4>2
      <4> HIDE DEF more
      <4> QED
        BY <3>2, <4>1, <4>3
    <3>3. CASE s # {} /\ m + 1 \notin s
      <4>1. s \in SUBSET (1 .. m)
        BY <3>3
      <4>2. Max(s) \in s
        BY <3>3, <4>1, GreatestMember
      <4>3. s \ {Max(s)} \in SUBSET (1 .. m + 1) /\ m + 1 \notin s \ {Max(s)}
        BY <3>3
      <4>4. more[s] = it[s] /\ more[s \ {Max(s)}] = it[s \ {Max(s)}]
        BY <3>3, <4>3
      <4>5. it[s] = Take(it[s \ {Max(s)}], Max(s))
        BY <2>1, <3>3, <4>1
      <4> HIDE DEF more
      <4> QED
        BY <3>3, <4>4, <4>5
    <3> QED
      BY <3>1, <3>2, <3>3
  <2>3. Goes(more, m + 1)
    <3>1. more = [s \in SUBSET (1 .. m + 1) |-> more[s]]
      OBVIOUS
    <3> HIDE DEF more
    <3> QED
      BY <2>2, <3>1
  <2> HIDE DEF more, Goes
  <2> QED
    BY <2>3
<1>3. PICK iter : Goes(iter, n)
  <2> HIDE DEF T
  <2>1. n \in T
    BY <1>1, <1>2, Induction
  <2> QED
    BY <2>1 DEF T
<1>4. WithIter(c, b, at, st)
  <2>1. WithIter(iter, b, at, st)
    BY <1>3 DEF WithIter
  <2> QED
    BY <2>1
<1>5. Select(b, at, st) = ReadFrom(c[1 .. n].b, at, st.schema, st.name, c[1 .. n].scope)
  <2>1. Select(b, at, st) = ReadFrom((CHOOSE iter1 : WithIter(iter1, b, at, st))[DOMAIN st.body].b, at, st.schema, st.name, (CHOOSE iter1 : WithIter(iter1, b, at, st))[DOMAIN st.body].scope)
    BY DEF Select, WithStep, FoldLeft, MapThenFoldSet, WithIter
  <2> QED
    BY <2>1
<1> DEFINE f == [k \in 0 .. n |-> c[1 .. k]]
<1> HIDE DEF c, Goes, T
<1>6. c[1 .. 0] = start
  <2>1. 1 .. 0 = {} /\ {} \in SUBSET (1 .. n)
    OBVIOUS
  <2> QED
    BY <1>4, <2>1 DEF WithIter
<1>7. ASSUME NEW k \in 1 .. n PROVE c[1 .. k] = Take(c[1 .. k - 1], k)
  <2>1. k - 1 \in Nat /\ (k - 1) + 1 = k
    OBVIOUS
  <2>2. Max(1 .. k) = k /\ (1 .. k) \ {Max(1 .. k)} = 1 .. k - 1
    BY <2>1, GreatestOf
  <2>3. PICK some : some = 1 .. k
    OBVIOUS
  <2>5. some \in SUBSET (1 .. n) /\ some # {}
    BY <2>3
  <2>4. c[some] = Take(c[some \ {Max(some)}], Max(some))
    BY <1>4, <2>5 DEF WithIter
  <2> HIDE DEF Take
  <2> QED
    BY <2>2, <2>3, <2>4
<1>8. /\ f[0] = c[1 .. 0] /\ f[n] = c[1 .. n]
      /\ \A k \in 1 .. n : f[k] = c[1 .. k] /\ f[k - 1] = c[1 .. k - 1]
  OBVIOUS
<1>9. \A k \in 1 .. n : f[k] = Take(f[k - 1], k)
  <2> HIDE DEF Take, f
  <2> QED
    BY <1>7, <1>8
<1>10. Select(b, at, st) = ReadFrom(f[n].b, at, st.schema, st.name, f[n].scope)
  <2> HIDE DEF f, Take
  <2> QED
    BY <1>5, <1>8
<1>11. WithRun(f, n, b, at, st)
  <2> HIDE DEF f
  <2> QED
    BY <1>6, <1>8, <1>9, <1>10 DEF WithRun
<1> QED
  BY <1>11

(* What fills a temporary table, one name after the other.                 *)
FillingIter(iter, b, at, st) ==
  iter = [s \in SUBSET (DOMAIN st.arg) |->
            IF s = {} THEN RangeRef(b, at, "define", "temporary_table", st.schema, st.name) ELSE ReadFrom(iter[s \ {Max(s)}], at, None, st.arg[Max(s)], {})]

FillingRun(f, n, b, at, st) ==
  /\ f[0] = RangeRef(b, at, "define", "temporary_table", st.schema, st.name)
  /\ \A k \in 1 .. n : f[k] = ReadFrom(f[k - 1], at, None, st.arg[k], {})
  /\ CreateTemporary(b, at, st) = [f[n] EXCEPT !.temporary = @ \cup {st.name}]

LEMMA FillingRuns ==
  ASSUME NEW b, NEW at, NEW st, NEW n \in Nat, DOMAIN st.arg = 1 .. n
  PROVE  \E f : FillingRun(f, n, b, at, st)
<1> DEFINE Take(q, k) == ReadFrom(q, at, None, st.arg[k], {})
           start == RangeRef(b, at, "define", "temporary_table", st.schema, st.name)
           Goes(iter, m) == iter = [s \in SUBSET (1 .. m) |->
                              IF s = {} THEN start ELSE Take(iter[s \ {Max(s)}], Max(s))]
           T == {m \in Nat : \E iter : Goes(iter, m)}
           c == CHOOSE iter : FillingIter(iter, b, at, st)
<1>1. 0 \in T
  <2> DEFINE none == [s \in SUBSET (1 .. 0) |-> start]
  <2>1. \A s \in SUBSET (1 .. 0) : s = {}
    OBVIOUS
  <2> HIDE DEF Take, start
  <2>2. Goes(none, 0)
    BY <2>1
  <2> HIDE DEF none, Goes
  <2> QED
    BY <2>2
<1>2. ASSUME NEW m \in Nat, m \in T PROVE m + 1 \in T
  <2> HIDE DEF Take, start
  <2>1. PICK it : Goes(it, m)
    BY <1>2
  <2> DEFINE more == [s \in SUBSET (1 .. m + 1) |->
                        IF m + 1 \in s THEN Take(it[s \ {m + 1}], m + 1) ELSE it[s]]
             Next1(s) == IF s = {} THEN start ELSE Take(more[s \ {Max(s)}], Max(s))
  <2>2. ASSUME NEW s \in SUBSET (1 .. m + 1) PROVE more[s] = Next1(s)
    <3>1. CASE s = {}
      <4>1. {} \in SUBSET (1 .. m) /\ m + 1 \notin s
        BY <3>1
      <4>2. more[s] = it[{}] /\ it[{}] = start
        BY <2>1, <3>1, <4>1
      <4> QED
        BY <3>1, <4>2
    <3>2. CASE s # {} /\ m + 1 \in s
      <4>1. Max(s) = m + 1
        <5>1. m + 1 \in Nat
          OBVIOUS
        <5>2. Max(s) \in s /\ \A x \in s : x <= Max(s)
          BY <3>2, <5>1, GreatestMember
        <5>3. PICK top : top = Max(s)
          OBVIOUS
        <5>4. top \in 1 .. m + 1 /\ m + 1 <= top
          BY <3>2, <5>2, <5>3
        <5> QED
          BY <5>1, <5>3, <5>4
      <4>2. s \ {m + 1} \in SUBSET (1 .. m) /\ s \ {m + 1} \in SUBSET (1 .. m + 1) /\ m + 1 \notin s \ {m + 1}
        OBVIOUS
      <4>3. more[s \ {m + 1}] = it[s \ {m + 1}] /\ more[s] = Take(it[s \ {m + 1}], m + 1)
        BY <3>2, <4>2
      <4> HIDE DEF more
      <4> QED
        BY <3>2, <4>1, <4>3
    <3>3. CASE s # {} /\ m + 1 \notin s
      <4>1. s \in SUBSET (1 .. m)
        BY <3>3
      <4>2. Max(s) \in s
        BY <3>3, <4>1, GreatestMember
      <4>3. s \ {Max(s)} \in SUBSET (1 .. m + 1) /\ m + 1 \notin s \ {Max(s)}
        BY <3>3
      <4>4. more[s] = it[s] /\ more[s \ {Max(s)}] = it[s \ {Max(s)}]
        BY <3>3, <4>3
      <4>5. it[s] = Take(it[s \ {Max(s)}], Max(s))
        BY <2>1, <3>3, <4>1
      <4> HIDE DEF more
      <4> QED
        BY <3>3, <4>4, <4>5
    <3> QED
      BY <3>1, <3>2, <3>3
  <2>3. Goes(more, m + 1)
    <3>1. more = [s \in SUBSET (1 .. m + 1) |-> more[s]]
      OBVIOUS
    <3> HIDE DEF more
    <3> QED
      BY <2>2, <3>1
  <2> HIDE DEF more, Goes
  <2> QED
    BY <2>3
<1>3. PICK iter : Goes(iter, n)
  <2> HIDE DEF T
  <2>1. n \in T
    BY <1>1, <1>2, Induction
  <2> QED
    BY <2>1 DEF T
<1>4. FillingIter(c, b, at, st)
  <2>1. FillingIter(iter, b, at, st)
    BY <1>3 DEF FillingIter
  <2> QED
    BY <2>1
<1>5. CreateTemporary(b, at, st) = [c[1 .. n] EXCEPT !.temporary = @ \cup {st.name}]
  <2>1. CreateTemporary(b, at, st) = [(CHOOSE iter1 : FillingIter(iter1, b, at, st))[DOMAIN st.arg] EXCEPT !.temporary = @ \cup {st.name}]
    BY DEF CreateTemporary, FoldLeft, MapThenFoldSet, FillingIter
  <2> QED
    BY <2>1
<1> DEFINE f == [k \in 0 .. n |-> c[1 .. k]]
<1> HIDE DEF c, Goes, T
<1>6. c[1 .. 0] = start
  <2>1. 1 .. 0 = {} /\ {} \in SUBSET (1 .. n)
    OBVIOUS
  <2> QED
    BY <1>4, <2>1 DEF FillingIter
<1>7. ASSUME NEW k \in 1 .. n PROVE c[1 .. k] = Take(c[1 .. k - 1], k)
  <2>1. k - 1 \in Nat /\ (k - 1) + 1 = k
    OBVIOUS
  <2>2. Max(1 .. k) = k /\ (1 .. k) \ {Max(1 .. k)} = 1 .. k - 1
    BY <2>1, GreatestOf
  <2>3. PICK some : some = 1 .. k
    OBVIOUS
  <2>5. some \in SUBSET (1 .. n) /\ some # {}
    BY <2>3
  <2>4. c[some] = Take(c[some \ {Max(some)}], Max(some))
    BY <1>4, <2>5 DEF FillingIter
  <2> HIDE DEF Take
  <2> QED
    BY <2>2, <2>3, <2>4
<1>8. /\ f[0] = c[1 .. 0] /\ f[n] = c[1 .. n]
      /\ \A k \in 1 .. n : f[k] = c[1 .. k] /\ f[k - 1] = c[1 .. k - 1]
  OBVIOUS
<1>9. \A k \in 1 .. n : f[k] = Take(f[k - 1], k)
  <2> HIDE DEF Take, f
  <2> QED
    BY <1>7, <1>8
<1>10. CreateTemporary(b, at, st) = [f[n] EXCEPT !.temporary = @ \cup {st.name}]
  <2> HIDE DEF f, Take
  <2> QED
    BY <1>5, <1>8
<1>11. FillingRun(f, n, b, at, st)
  <2> HIDE DEF f
  <2> QED
    BY <1>6, <1>8, <1>9, <1>10 DEF FillingRun
<1> QED
  BY <1>11

InsideRoutine(b, at, st) ==
  IF st.option = None THEN RoutineRef(b, <<at>>, st) ELSE SetPath(RoutineRef(b, <<at>>, st), st.option)

(* The statements of a routine, one after the other.                       *)
BodyIter(iter, b, at, st, items) ==
  iter = [s \in SUBSET (DOMAIN items) |->
            IF s = {} THEN InsideRoutine(b, at, st) ELSE Extract(iter[s \ {Max(s)}], <<at, items[Max(s)]>>, st.body[items[Max(s)]])]

BodyRun(f, n, b, at, st, items) ==
  /\ f[0] = InsideRoutine(b, at, st)
  /\ \A k \in 1 .. n : f[k] = Extract(f[k - 1], <<at, items[k]>>, st.body[items[k]])
  /\ CreateRoutine(b, at, st) = EndRoutine(f[n], b)

LEMMA BodyRuns ==
  ASSUME NEW b, NEW at, NEW st, NEW items, items = [k \in DOMAIN st.body |-> k], NEW n \in Nat, DOMAIN items = 1 .. n
  PROVE  \E f : BodyRun(f, n, b, at, st, items)
<1> DEFINE Take(q, k) == Extract(q, <<at, items[k]>>, st.body[items[k]])
           start == InsideRoutine(b, at, st)
           Goes(iter, m) == iter = [s \in SUBSET (1 .. m) |->
                              IF s = {} THEN start ELSE Take(iter[s \ {Max(s)}], Max(s))]
           T == {m \in Nat : \E iter : Goes(iter, m)}
           c == CHOOSE iter : BodyIter(iter, b, at, st, items)
<1>1. 0 \in T
  <2> DEFINE none == [s \in SUBSET (1 .. 0) |-> start]
  <2>1. \A s \in SUBSET (1 .. 0) : s = {}
    OBVIOUS
  <2> HIDE DEF Take, start
  <2>2. Goes(none, 0)
    BY <2>1
  <2> HIDE DEF none, Goes
  <2> QED
    BY <2>2
<1>2. ASSUME NEW m \in Nat, m \in T PROVE m + 1 \in T
  <2> HIDE DEF Take, start
  <2>1. PICK it : Goes(it, m)
    BY <1>2
  <2> DEFINE more == [s \in SUBSET (1 .. m + 1) |->
                        IF m + 1 \in s THEN Take(it[s \ {m + 1}], m + 1) ELSE it[s]]
             Next1(s) == IF s = {} THEN start ELSE Take(more[s \ {Max(s)}], Max(s))
  <2>2. ASSUME NEW s \in SUBSET (1 .. m + 1) PROVE more[s] = Next1(s)
    <3>1. CASE s = {}
      <4>1. {} \in SUBSET (1 .. m) /\ m + 1 \notin s
        BY <3>1
      <4>2. more[s] = it[{}] /\ it[{}] = start
        BY <2>1, <3>1, <4>1
      <4> QED
        BY <3>1, <4>2
    <3>2. CASE s # {} /\ m + 1 \in s
      <4>1. Max(s) = m + 1
        <5>1. m + 1 \in Nat
          OBVIOUS
        <5>2. Max(s) \in s /\ \A x \in s : x <= Max(s)
          BY <3>2, <5>1, GreatestMember
        <5>3. PICK top : top = Max(s)
          OBVIOUS
        <5>4. top \in 1 .. m + 1 /\ m + 1 <= top
          BY <3>2, <5>2, <5>3
        <5> QED
          BY <5>1, <5>3, <5>4
      <4>2. s \ {m + 1} \in SUBSET (1 .. m) /\ s \ {m + 1} \in SUBSET (1 .. m + 1) /\ m + 1 \notin s \ {m + 1}
        OBVIOUS
      <4>3. more[s \ {m + 1}] = it[s \ {m + 1}] /\ more[s] = Take(it[s \ {m + 1}], m + 1)
        BY <3>2, <4>2
      <4> HIDE DEF more
      <4> QED
        BY <3>2, <4>1, <4>3
    <3>3. CASE s # {} /\ m + 1 \notin s
      <4>1. s \in SUBSET (1 .. m)
        BY <3>3
      <4>2. Max(s) \in s
        BY <3>3, <4>1, GreatestMember
      <4>3. s \ {Max(s)} \in SUBSET (1 .. m + 1) /\ m + 1 \notin s \ {Max(s)}
        BY <3>3
      <4>4. more[s] = it[s] /\ more[s \ {Max(s)}] = it[s \ {Max(s)}]
        BY <3>3, <4>3
      <4>5. it[s] = Take(it[s \ {Max(s)}], Max(s))
        BY <2>1, <3>3, <4>1
      <4> HIDE DEF more
      <4> QED
        BY <3>3, <4>4, <4>5
    <3> QED
      BY <3>1, <3>2, <3>3
  <2>3. Goes(more, m + 1)
    <3>1. more = [s \in SUBSET (1 .. m + 1) |-> more[s]]
      OBVIOUS
    <3> HIDE DEF more
    <3> QED
      BY <2>2, <3>1
  <2> HIDE DEF more, Goes
  <2> QED
    BY <2>3
<1>3. PICK iter : Goes(iter, n)
  <2> HIDE DEF T
  <2>1. n \in T
    BY <1>1, <1>2, Induction
  <2> QED
    BY <2>1 DEF T
<1>4. BodyIter(c, b, at, st, items)
  <2>1. BodyIter(iter, b, at, st, items)
    BY <1>3 DEF BodyIter
  <2> QED
    BY <2>1
<1>5. CreateRoutine(b, at, st) = EndRoutine(c[1 .. n], b)
  <2>1. CreateRoutine(b, at, st) = EndRoutine((CHOOSE iter1 : BodyIter(iter1, b, at, st, [k \in DOMAIN st.body |-> k]))[DOMAIN [k \in DOMAIN st.body |-> k]], b)
    BY DEF CreateRoutine, InsideRoutine, FoldLeft, MapThenFoldSet, BodyIter
  <2> QED
    BY <2>1
<1> DEFINE f == [k \in 0 .. n |-> c[1 .. k]]
<1> HIDE DEF c, Goes, T
<1>6. c[1 .. 0] = start
  <2>1. 1 .. 0 = {} /\ {} \in SUBSET (1 .. n)
    OBVIOUS
  <2> QED
    BY <1>4, <2>1 DEF BodyIter
<1>7. ASSUME NEW k \in 1 .. n PROVE c[1 .. k] = Take(c[1 .. k - 1], k)
  <2>1. k - 1 \in Nat /\ (k - 1) + 1 = k
    OBVIOUS
  <2>2. Max(1 .. k) = k /\ (1 .. k) \ {Max(1 .. k)} = 1 .. k - 1
    BY <2>1, GreatestOf
  <2>3. PICK some : some = 1 .. k
    OBVIOUS
  <2>5. some \in SUBSET (1 .. n) /\ some # {}
    BY <2>3
  <2>4. c[some] = Take(c[some \ {Max(some)}], Max(some))
    BY <1>4, <2>5 DEF BodyIter
  <2> HIDE DEF Take
  <2> QED
    BY <2>2, <2>3, <2>4
<1>8. /\ f[0] = c[1 .. 0] /\ f[n] = c[1 .. n]
      /\ \A k \in 1 .. n : f[k] = c[1 .. k] /\ f[k - 1] = c[1 .. k - 1]
  OBVIOUS
<1>9. \A k \in 1 .. n : f[k] = Take(f[k - 1], k)
  <2> HIDE DEF Take, f
  <2> QED
    BY <1>7, <1>8
<1>10. CreateRoutine(b, at, st) = EndRoutine(f[n], b)
  <2> HIDE DEF f, Take
  <2> QED
    BY <1>5, <1>8
<1>11. BodyRun(f, n, b, at, st, items)
  <2> HIDE DEF f
  <2> QED
    BY <1>6, <1>8, <1>9, <1>10 DEF BodyRun
<1> QED
  BY <1>11

(* The statements of a script, one after the other.                        *)
ScriptIter(iter, script, items) ==
  iter = [s \in SUBSET (DOMAIN items) |->
            IF s = {} THEN Builder(script) ELSE ProcessStatement(iter[s \ {Max(s)}], items[Max(s)], script.statements[items[Max(s)]])]

ScriptRun(f, n, script, items) ==
  /\ f[0] = Builder(script)
  /\ \A k \in 1 .. n : f[k] = ProcessStatement(f[k - 1], items[k], script.statements[items[k]])
  /\ ScriptRefs(script) = f[n].refs

LEMMA ScriptRuns ==
  ASSUME NEW script, NEW items, items = [k \in DOMAIN script.statements |-> k], NEW n \in Nat, DOMAIN items = 1 .. n
  PROVE  \E f : ScriptRun(f, n, script, items)
<1> DEFINE Take(q, k) == ProcessStatement(q, items[k], script.statements[items[k]])
           start == Builder(script)
           Goes(iter, m) == iter = [s \in SUBSET (1 .. m) |->
                              IF s = {} THEN start ELSE Take(iter[s \ {Max(s)}], Max(s))]
           T == {m \in Nat : \E iter : Goes(iter, m)}
           c == CHOOSE iter : ScriptIter(iter, script, items)
<1>1. 0 \in T
  <2> DEFINE none == [s \in SUBSET (1 .. 0) |-> start]
  <2>1. \A s \in SUBSET (1 .. 0) : s = {}
    OBVIOUS
  <2> HIDE DEF Take, start
  <2>2. Goes(none, 0)
    BY <2>1
  <2> HIDE DEF none, Goes
  <2> QED
    BY <2>2
<1>2. ASSUME NEW m \in Nat, m \in T PROVE m + 1 \in T
  <2> HIDE DEF Take, start
  <2>1. PICK it : Goes(it, m)
    BY <1>2
  <2> DEFINE more == [s \in SUBSET (1 .. m + 1) |->
                        IF m + 1 \in s THEN Take(it[s \ {m + 1}], m + 1) ELSE it[s]]
             Next1(s) == IF s = {} THEN start ELSE Take(more[s \ {Max(s)}], Max(s))
  <2>2. ASSUME NEW s \in SUBSET (1 .. m + 1) PROVE more[s] = Next1(s)
    <3>1. CASE s = {}
      <4>1. {} \in SUBSET (1 .. m) /\ m + 1 \notin s
        BY <3>1
      <4>2. more[s] = it[{}] /\ it[{}] = start
        BY <2>1, <3>1, <4>1
      <4> QED
        BY <3>1, <4>2
    <3>2. CASE s # {} /\ m + 1 \in s
      <4>1. Max(s) = m + 1
        <5>1. m + 1 \in Nat
          OBVIOUS
        <5>2. Max(s) \in s /\ \A x \in s : x <= Max(s)
          BY <3>2, <5>1, GreatestMember
        <5>3. PICK top : top = Max(s)
          OBVIOUS
        <5>4. top \in 1 .. m + 1 /\ m + 1 <= top
          BY <3>2, <5>2, <5>3
        <5> QED
          BY <5>1, <5>3, <5>4
      <4>2. s \ {m + 1} \in SUBSET (1 .. m) /\ s \ {m + 1} \in SUBSET (1 .. m + 1) /\ m + 1 \notin s \ {m + 1}
        OBVIOUS
      <4>3. more[s \ {m + 1}] = it[s \ {m + 1}] /\ more[s] = Take(it[s \ {m + 1}], m + 1)
        BY <3>2, <4>2
      <4> HIDE DEF more
      <4> QED
        BY <3>2, <4>1, <4>3
    <3>3. CASE s # {} /\ m + 1 \notin s
      <4>1. s \in SUBSET (1 .. m)
        BY <3>3
      <4>2. Max(s) \in s
        BY <3>3, <4>1, GreatestMember
      <4>3. s \ {Max(s)} \in SUBSET (1 .. m + 1) /\ m + 1 \notin s \ {Max(s)}
        BY <3>3
      <4>4. more[s] = it[s] /\ more[s \ {Max(s)}] = it[s \ {Max(s)}]
        BY <3>3, <4>3
      <4>5. it[s] = Take(it[s \ {Max(s)}], Max(s))
        BY <2>1, <3>3, <4>1
      <4> HIDE DEF more
      <4> QED
        BY <3>3, <4>4, <4>5
    <3> QED
      BY <3>1, <3>2, <3>3
  <2>3. Goes(more, m + 1)
    <3>1. more = [s \in SUBSET (1 .. m + 1) |-> more[s]]
      OBVIOUS
    <3> HIDE DEF more
    <3> QED
      BY <2>2, <3>1
  <2> HIDE DEF more, Goes
  <2> QED
    BY <2>3
<1>3. PICK iter : Goes(iter, n)
  <2> HIDE DEF T
  <2>1. n \in T
    BY <1>1, <1>2, Induction
  <2> QED
    BY <2>1 DEF T
<1>4. ScriptIter(c, script, items)
  <2>1. ScriptIter(iter, script, items)
    BY <1>3 DEF ScriptIter
  <2> QED
    BY <2>1
<1>5. ScriptRefs(script) = c[1 .. n].refs
  <2>1. ScriptRefs(script) = (CHOOSE iter1 : ScriptIter(iter1, script, [k \in DOMAIN script.statements |-> k]))[DOMAIN [k \in DOMAIN script.statements |-> k]].refs
    BY DEF ScriptRefs, FoldLeft, MapThenFoldSet, ScriptIter
  <2> QED
    BY <2>1
<1> DEFINE f == [k \in 0 .. n |-> c[1 .. k]]
<1> HIDE DEF c, Goes, T
<1>6. c[1 .. 0] = start
  <2>1. 1 .. 0 = {} /\ {} \in SUBSET (1 .. n)
    OBVIOUS
  <2> QED
    BY <1>4, <2>1 DEF ScriptIter
<1>7. ASSUME NEW k \in 1 .. n PROVE c[1 .. k] = Take(c[1 .. k - 1], k)
  <2>1. k - 1 \in Nat /\ (k - 1) + 1 = k
    OBVIOUS
  <2>2. Max(1 .. k) = k /\ (1 .. k) \ {Max(1 .. k)} = 1 .. k - 1
    BY <2>1, GreatestOf
  <2>3. PICK some : some = 1 .. k
    OBVIOUS
  <2>5. some \in SUBSET (1 .. n) /\ some # {}
    BY <2>3
  <2>4. c[some] = Take(c[some \ {Max(some)}], Max(some))
    BY <1>4, <2>5 DEF ScriptIter
  <2> HIDE DEF Take
  <2> QED
    BY <2>2, <2>3, <2>4
<1>8. /\ f[0] = c[1 .. 0] /\ f[n] = c[1 .. n]
      /\ \A k \in 1 .. n : f[k] = c[1 .. k] /\ f[k - 1] = c[1 .. k - 1]
  OBVIOUS
<1>9. \A k \in 1 .. n : f[k] = Take(f[k - 1], k)
  <2> HIDE DEF Take, f
  <2> QED
    BY <1>7, <1>8
<1>10. ScriptRefs(script) = f[n].refs
  <2> HIDE DEF f, Take
  <2> QED
    BY <1>5, <1>8
<1>11. ScriptRun(f, n, script, items)
  <2> HIDE DEF f
  <2> QED
    BY <1>6, <1>8, <1>9, <1>10 DEF ScriptRun
<1> QED
  BY <1>11

(* Rows are merged one after the other.                                    *)
MergeIter(iter, g, rows) ==
  iter = [s \in SUBSET (DOMAIN rows) |->
            IF s = {} THEN g ELSE Merge(iter[s \ {Max(s)}], rows[Max(s)])]

MergeRun(f, n, g, rows) ==
  /\ f[0] = g
  /\ \A k \in 1 .. n : f[k] = Merge(f[k - 1], rows[k])
  /\ MergeRows(g, rows) = f[n]

LEMMA MergeRuns ==
  ASSUME NEW g, NEW rows, NEW n \in Nat, DOMAIN rows = 1 .. n
  PROVE  \E f : MergeRun(f, n, g, rows)
<1> DEFINE Take(q, k) == Merge(q, rows[k])
           start == g
           Goes(iter, m) == iter = [s \in SUBSET (1 .. m) |->
                              IF s = {} THEN start ELSE Take(iter[s \ {Max(s)}], Max(s))]
           T == {m \in Nat : \E iter : Goes(iter, m)}
           c == CHOOSE iter : MergeIter(iter, g, rows)
<1>1. 0 \in T
  <2> DEFINE none == [s \in SUBSET (1 .. 0) |-> start]
  <2>1. \A s \in SUBSET (1 .. 0) : s = {}
    OBVIOUS
  <2> HIDE DEF Take, start
  <2>2. Goes(none, 0)
    BY <2>1
  <2> HIDE DEF none, Goes
  <2> QED
    BY <2>2
<1>2. ASSUME NEW m \in Nat, m \in T PROVE m + 1 \in T
  <2> HIDE DEF Take, start
  <2>1. PICK it : Goes(it, m)
    BY <1>2
  <2> DEFINE more == [s \in SUBSET (1 .. m + 1) |->
                        IF m + 1 \in s THEN Take(it[s \ {m + 1}], m + 1) ELSE it[s]]
             Next1(s) == IF s = {} THEN start ELSE Take(more[s \ {Max(s)}], Max(s))
  <2>2. ASSUME NEW s \in SUBSET (1 .. m + 1) PROVE more[s] = Next1(s)
    <3>1. CASE s = {}
      <4>1. {} \in SUBSET (1 .. m) /\ m + 1 \notin s
        BY <3>1
      <4>2. more[s] = it[{}] /\ it[{}] = start
        BY <2>1, <3>1, <4>1
      <4> QED
        BY <3>1, <4>2
    <3>2. CASE s # {} /\ m + 1 \in s
      <4>1. Max(s) = m + 1
        <5>1. m + 1 \in Nat
          OBVIOUS
        <5>2. Max(s) \in s /\ \A x \in s : x <= Max(s)
          BY <3>2, <5>1, GreatestMember
        <5>3. PICK top : top = Max(s)
          OBVIOUS
        <5>4. top \in 1 .. m + 1 /\ m + 1 <= top
          BY <3>2, <5>2, <5>3
        <5> QED
          BY <5>1, <5>3, <5>4
      <4>2. s \ {m + 1} \in SUBSET (1 .. m) /\ s \ {m + 1} \in SUBSET (1 .. m + 1) /\ m + 1 \notin s \ {m + 1}
        OBVIOUS
      <4>3. more[s \ {m + 1}] = it[s \ {m + 1}] /\ more[s] = Take(it[s \ {m + 1}], m + 1)
        BY <3>2, <4>2
      <4> HIDE DEF more
      <4> QED
        BY <3>2, <4>1, <4>3
    <3>3. CASE s # {} /\ m + 1 \notin s
      <4>1. s \in SUBSET (1 .. m)
        BY <3>3
      <4>2. Max(s) \in s
        BY <3>3, <4>1, GreatestMember
      <4>3. s \ {Max(s)} \in SUBSET (1 .. m + 1) /\ m + 1 \notin s \ {Max(s)}
        BY <3>3
      <4>4. more[s] = it[s] /\ more[s \ {Max(s)}] = it[s \ {Max(s)}]
        BY <3>3, <4>3
      <4>5. it[s] = Take(it[s \ {Max(s)}], Max(s))
        BY <2>1, <3>3, <4>1
      <4> HIDE DEF more
      <4> QED
        BY <3>3, <4>4, <4>5
    <3> QED
      BY <3>1, <3>2, <3>3
  <2>3. Goes(more, m + 1)
    <3>1. more = [s \in SUBSET (1 .. m + 1) |-> more[s]]
      OBVIOUS
    <3> HIDE DEF more
    <3> QED
      BY <2>2, <3>1
  <2> HIDE DEF more, Goes
  <2> QED
    BY <2>3
<1>3. PICK iter : Goes(iter, n)
  <2> HIDE DEF T
  <2>1. n \in T
    BY <1>1, <1>2, Induction
  <2> QED
    BY <2>1 DEF T
<1>4. MergeIter(c, g, rows)
  <2>1. MergeIter(iter, g, rows)
    BY <1>3 DEF MergeIter
  <2> QED
    BY <2>1
<1>5. MergeRows(g, rows) = c[1 .. n]
  <2>1. MergeRows(g, rows) = (CHOOSE iter1 : MergeIter(iter1, g, rows))[DOMAIN rows]
    BY DEF MergeRows, FoldLeft, MapThenFoldSet, MergeIter
  <2> QED
    BY <2>1
<1> DEFINE f == [k \in 0 .. n |-> c[1 .. k]]
<1> HIDE DEF c, Goes, T
<1>6. c[1 .. 0] = start
  <2>1. 1 .. 0 = {} /\ {} \in SUBSET (1 .. n)
    OBVIOUS
  <2> QED
    BY <1>4, <2>1 DEF MergeIter
<1>7. ASSUME NEW k \in 1 .. n PROVE c[1 .. k] = Take(c[1 .. k - 1], k)
  <2>1. k - 1 \in Nat /\ (k - 1) + 1 = k
    OBVIOUS
  <2>2. Max(1 .. k) = k /\ (1 .. k) \ {Max(1 .. k)} = 1 .. k - 1
    BY <2>1, GreatestOf
  <2>3. PICK some : some = 1 .. k
    OBVIOUS
  <2>5. some \in SUBSET (1 .. n) /\ some # {}
    BY <2>3
  <2>4. c[some] = Take(c[some \ {Max(some)}], Max(some))
    BY <1>4, <2>5 DEF MergeIter
  <2> HIDE DEF Take
  <2> QED
    BY <2>2, <2>3, <2>4
<1>8. /\ f[0] = c[1 .. 0] /\ f[n] = c[1 .. n]
      /\ \A k \in 1 .. n : f[k] = c[1 .. k] /\ f[k - 1] = c[1 .. k - 1]
  OBVIOUS
<1>9. \A k \in 1 .. n : f[k] = Take(f[k - 1], k)
  <2> HIDE DEF Take, f
  <2> QED
    BY <1>7, <1>8
<1>10. MergeRows(g, rows) = f[n]
  <2> HIDE DEF f, Take
  <2> QED
    BY <1>5, <1>8
<1>11. MergeRun(f, n, g, rows)
  <2> HIDE DEF f
  <2> QED
    BY <1>6, <1>8, <1>9, <1>10 DEF MergeRun
<1> QED
  BY <1>11

(***************************************************************************)
(* The references of a script are a list, each at a place of the script.   *)
(***************************************************************************)
Roles == {"define", "read", "write", "call", "alter", "drop"}

Builds(b, P) ==
  /\ b = [path |-> b.path, creation |-> b.creation, temporary |-> b.temporary, refs |-> b.refs]
  /\ b.refs \in Seq(ToSet(b.refs))
  /\ \A r \in ToSet(b.refs) : r.at \in P /\ r.role \in Roles

(* A list with one more entry.                                               *)
LEMMA Listed ==
  ASSUME NEW s, s \in Seq(ToSet(s)), NEW x
  PROVE  Append(s, x) \in Seq(ToSet(Append(s, x))) /\ ToSet(Append(s, x)) = ToSet(s) \cup {x}
<1> DEFINE S == ToSet(s) \cup {x}
           t == Append(s, x)
<1>1. s \in Seq(S) /\ x \in S
  OBVIOUS
<1> HIDE DEF S
<1>2. /\ t \in Seq(S) /\ Len(t) = Len(s) + 1 /\ Len(s) \in Nat
      /\ \A n \in 1 .. Len(s) : t[n] = s[n]
      /\ t[Len(s) + 1] = x
  BY <1>1
<1>3. DOMAIN t = 1 .. Len(s) + 1 /\ DOMAIN s = 1 .. Len(s)
  BY <1>1, <1>2
<1>4. ToSet(t) = ToSet(s) \cup {x}
  <2>1. ToSet(t) \subseteq ToSet(s) \cup {x}
    <3> SUFFICES ASSUME NEW n \in 1 .. Len(s) + 1 PROVE t[n] \in ToSet(s) \cup {x}
      BY <1>3 DEF ToSet
    <3>1. n \in 1 .. Len(s) \/ n = Len(s) + 1
      BY <1>2
    <3> HIDE DEF t
    <3> QED
      BY <1>2, <1>3, <3>1 DEF ToSet
  <2>2. x \in ToSet(t)
    <3> HIDE DEF t
    <3>1. Len(s) + 1 \in DOMAIN t
      BY <1>2, <1>3
    <3> QED
      BY <1>2, <3>1 DEF ToSet
  <2>3. ToSet(s) \subseteq ToSet(t)
    <3> SUFFICES ASSUME NEW n \in 1 .. Len(s) PROVE s[n] \in ToSet(t)
      BY <1>3 DEF ToSet
    <3>1. n \in 1 .. Len(s) + 1
      BY <1>2
    <3> HIDE DEF t
    <3> QED
      BY <1>2, <1>3, <3>1 DEF ToSet
  <2> QED
    BY <2>1, <2>2, <2>3
<1> QED
  BY <1>2, <1>4 DEF S

LEMMA AddRefBuilds ==
  ASSUME NEW b, NEW P, Builds(b, P), NEW at \in P, NEW role \in Roles, NEW kind, NEW schema, NEW name, NEW signature
  PROVE  Builds(AddRef(b, at, role, kind, schema, name, signature), P)
<1> DEFINE x == [at |-> at, role |-> role, kind |-> kind, schema |-> schema, name |-> name,
                 signature |-> signature, path |-> b.path]
           c == AddRef(b, at, role, kind, schema, name, signature)
<1>1. c = [path |-> b.path, creation |-> b.creation, temporary |-> b.temporary, refs |-> Append(b.refs, x)]
  <2>1. PICK refs : refs = Append(b.refs, x)
    OBVIOUS
  <2>2. c = [b EXCEPT !.refs = refs]
    BY <2>1 DEF AddRef
  <2>3. DOMAIN b = {"path", "creation", "temporary", "refs"}
    <3>1. b = [path |-> b.path, creation |-> b.creation, temporary |-> b.temporary, refs |-> b.refs]
      BY DEF Builds
    <3>2. \A p, q, r, s : DOMAIN [path |-> p, creation |-> q, temporary |-> r, refs |-> s]
                           = {"path", "creation", "temporary", "refs"}
      OBVIOUS
    <3> HIDE DEF c, x
    <3> QED
      BY <3>1, <3>2
  <2> HIDE DEF c, x
  <2>4. /\ DOMAIN c = {"path", "creation", "temporary", "refs"} /\ c = [y \in DOMAIN c |-> c[y]]
        /\ c.path = b.path /\ c.creation = b.creation /\ c.temporary = b.temporary /\ c.refs = refs
    BY <2>2, <2>3
  <2> QED
    BY <2>1, <2>4
<1>2. x.at \in P /\ x.role \in Roles
  OBVIOUS
<1> HIDE DEF x
<1>3. PICK p, q, r, s : /\ p = b.path /\ q = b.creation /\ r = b.temporary /\ s = Append(b.refs, x)
                        /\ c = [path |-> p, creation |-> q, temporary |-> r, refs |-> s]
  BY <1>1
<1>4. c.path = p /\ c.creation = q /\ c.temporary = r /\ c.refs = s
  <2> HIDE DEF c
  <2> QED
    BY <1>3
<1>5. s \in Seq(ToSet(s)) /\ ToSet(s) = ToSet(b.refs) \cup {x}
  BY <1>3, Listed DEF Builds
<1>6. \A y \in ToSet(s) : y.at \in P /\ y.role \in Roles
  <2>1. \A y \in ToSet(b.refs) : y.at \in P /\ y.role \in Roles
    BY DEF Builds
  <2> QED
    BY <1>2, <1>5, <2>1
<1> HIDE DEF c
<1>7. c = [path |-> c.path, creation |-> c.creation, temporary |-> c.temporary, refs |-> c.refs]
  BY <1>3, <1>4
<1>8. c.refs \in Seq(ToSet(c.refs)) /\ \A y \in ToSet(c.refs) : y.at \in P /\ y.role \in Roles
  BY <1>4, <1>5, <1>6
<1>9. Builds(c, P)
  BY <1>7, <1>8 DEF Builds
<1> QED
  BY <1>9 DEF c

(* The rest of a builder does not matter.                                    *)
LEMMA BuildsAgain ==
  ASSUME NEW b, NEW P, Builds(b, P), NEW p, NEW q, NEW t
  PROVE  Builds([path |-> p, creation |-> q, temporary |-> t, refs |-> b.refs], P)
<1> DEFINE c == [path |-> p, creation |-> q, temporary |-> t, refs |-> b.refs]
<1>1. c.path = p /\ c.creation = q /\ c.temporary = t /\ c.refs = b.refs
  OBVIOUS
<1>2. b.refs \in Seq(ToSet(b.refs)) /\ \A y \in ToSet(b.refs) : y.at \in P /\ y.role \in Roles
  BY DEF Builds
<1>3. c = [path |-> c.path, creation |-> c.creation, temporary |-> c.temporary, refs |-> c.refs]
  BY <1>1
<1> HIDE DEF c
<1>4. Builds(c, P)
  BY <1>1, <1>2, <1>3 DEF Builds
<1> QED
  BY <1>4 DEF c

LEMMA RangeRefBuilds ==
  ASSUME NEW b, NEW P, Builds(b, P), NEW at \in P, NEW role \in Roles, NEW kind, NEW schema, NEW name
  PROVE  Builds(RangeRef(b, at, role, kind, schema, name), P)
BY AddRefBuilds DEF RangeRef

LEMMA ReadFromBuilds ==
  ASSUME NEW b, NEW P, Builds(b, P), NEW at \in P, NEW schema, NEW name, NEW scope
  PROVE  Builds(ReadFrom(b, at, schema, name, scope), P)
BY RangeRefBuilds DEF ReadFrom, Roles

LEMMA SelectBuilds ==
  ASSUME NEW b, NEW P, Builds(b, P), NEW at \in P, NEW st, IsList(st.body)
  PROVE  Builds(Select(b, at, st), P)
<1>1. Len(st.body) \in Nat /\ DOMAIN st.body = 1 .. Len(st.body)
  BY DEF IsList
<1>2. PICK f : WithRun(f, Len(st.body), b, at, st)
  BY <1>1, WithRuns
<1>3. /\ f[0] = [b |-> b, scope |-> {}]
      /\ \A k \in 1 .. Len(st.body) : f[k] = WithStep(f[k - 1], at, st, st.body[k])
      /\ Select(b, at, st) = ReadFrom(f[Len(st.body)].b, at, st.schema, st.name, f[Len(st.body)].scope)
  BY <1>2 DEF WithRun
<1> DEFINE V == {k \in Nat : k <= Len(st.body) => Builds(f[k].b, P)}
<1>4. 0 \in V
  BY <1>3
<1>5. ASSUME NEW k \in Nat, k \in V PROVE k + 1 \in V
  <2> SUFFICES ASSUME k + 1 <= Len(st.body) PROVE Builds(f[k + 1].b, P)
    OBVIOUS
  <2>1. k + 1 \in 1 .. Len(st.body) /\ (k + 1) - 1 = k /\ k <= Len(st.body)
    BY <1>1
  <2>2. f[k + 1] = WithStep(f[k], at, st, st.body[k + 1])
    BY <1>3, <2>1
  <2>3. PICK acc, cte : acc = f[k] /\ cte = st.body[k + 1] /\ Builds(acc.b, P)
    BY <1>5, <2>1
  <2>4. \A scope : Builds(ReadFrom(acc.b, at, cte.schema, cte.arg[1], scope), P)
    BY <2>3, ReadFromBuilds
  <2>5. Builds(WithStep(acc, at, st, cte).b, P)
    BY <2>4 DEF WithStep
  <2> QED
    BY <2>2, <2>3, <2>5
<1>6. Builds(f[Len(st.body)].b, P)
  <2> HIDE DEF V
  <2>1. Len(st.body) \in V
    BY <1>1, <1>4, <1>5, Induction
  <2> QED
    BY <1>1, <2>1 DEF V
<1> QED
  BY <1>3, <1>6, ReadFromBuilds

LEMMA TemporaryBuilds ==
  ASSUME NEW b, NEW P, Builds(b, P), NEW at \in P, NEW st, IsList(st.arg)
  PROVE  Builds(CreateTemporary(b, at, st), P)
<1>1. Len(st.arg) \in Nat /\ DOMAIN st.arg = 1 .. Len(st.arg)
  BY DEF IsList
<1>2. PICK f : FillingRun(f, Len(st.arg), b, at, st)
  BY <1>1, FillingRuns
<1>3. /\ f[0] = RangeRef(b, at, "define", "temporary_table", st.schema, st.name)
      /\ \A k \in 1 .. Len(st.arg) : f[k] = ReadFrom(f[k - 1], at, None, st.arg[k], {})
      /\ CreateTemporary(b, at, st) = [f[Len(st.arg)] EXCEPT !.temporary = @ \cup {st.name}]
  BY <1>2 DEF FillingRun
<1> DEFINE V == {k \in Nat : k <= Len(st.arg) => Builds(f[k], P)}
<1>4. 0 \in V
  BY <1>3, RangeRefBuilds DEF Roles
<1>5. ASSUME NEW k \in Nat, k \in V PROVE k + 1 \in V
  <2> SUFFICES ASSUME k + 1 <= Len(st.arg) PROVE Builds(f[k + 1], P)
    OBVIOUS
  <2>1. k + 1 \in 1 .. Len(st.arg) /\ (k + 1) - 1 = k /\ k <= Len(st.arg)
    BY <1>1
  <2>2. f[k + 1] = ReadFrom(f[k], at, None, st.arg[k + 1], {})
    BY <1>3, <2>1
  <2>3. Builds(f[k], P)
    BY <1>5, <2>1
  <2> QED
    BY <2>2, <2>3, ReadFromBuilds
<1>6. Builds(f[Len(st.arg)], P)
  <2> HIDE DEF V
  <2>1. Len(st.arg) \in V
    BY <1>1, <1>4, <1>5, Induction
  <2> QED
    BY <1>1, <2>1 DEF V
<1>7. PICK c : c = f[Len(st.arg)]
  OBVIOUS
<1>8. Builds([c EXCEPT !.temporary = @ \cup {st.name}], P)
  <2>1. c = [path |-> c.path, creation |-> c.creation, temporary |-> c.temporary, refs |-> c.refs]
    BY <1>6, <1>7 DEF Builds
  <2>2. [c EXCEPT !.temporary = @ \cup {st.name}]
          = [path |-> c.path, creation |-> c.creation, temporary |-> c.temporary \cup {st.name}, refs |-> c.refs]
    <3>1. PICK p, q, t, r : c = [path |-> p, creation |-> q, temporary |-> t, refs |-> r]
      BY <2>1
    <3> QED
      BY <3>1
  <2> QED
    BY <1>6, <1>7, <2>2, BuildsAgain
<1> QED
  BY <1>3, <1>7, <1>8

Rerouted(b, path, creation) == [b EXCEPT !.path = path, !.creation = creation]

LEMMA PathReplaced ==
  ASSUME NEW p, NEW q, NEW t, NEW r, NEW path, NEW creation,
         NEW rec, rec = [path |-> p, creation |-> q, temporary |-> t, refs |-> r]
  PROVE  Rerouted(rec, path, creation)
           = [path |-> path, creation |-> creation, temporary |-> t, refs |-> r]
<1>2. PICK c : c = [rec EXCEPT !.path = path, !.creation = creation]
  OBVIOUS
<1>3. DOMAIN rec = {"path", "creation", "temporary", "refs"} /\ rec.temporary = t /\ rec.refs = r
  OBVIOUS
<1>4. c.path = path /\ c.creation = creation /\ c.temporary = t /\ c.refs = r /\ DOMAIN c = DOMAIN rec
  BY <1>2, <1>3
<1>5. c = [x \in DOMAIN c |-> c[x]]
  BY <1>2
<1>6. c = [path |-> path, creation |-> creation, temporary |-> t, refs |-> r]
  BY <1>3, <1>4, <1>5
<1> QED
  BY <1>2, <1>6 DEF Rerouted

LEMMA SetPathBuilds ==
  ASSUME NEW b, NEW P, Builds(b, P), NEW path
  PROVE  Builds(SetPath(b, path), P)
<1>1. b = [path |-> b.path, creation |-> b.creation, temporary |-> b.temporary, refs |-> b.refs]
  BY DEF Builds
<1>2. SetPath(b, path) = [path |-> path, creation |-> First(path), temporary |-> b.temporary, refs |-> b.refs]
  <2>1. PICK p, q, t, r : b = [path |-> p, creation |-> q, temporary |-> t, refs |-> r]
    BY <1>1
  <2>2. PICK new : new = First(path)
    OBVIOUS
  <2>3. Rerouted(b, path, new) = [path |-> path, creation |-> new, temporary |-> t, refs |-> r]
    BY <2>1, PathReplaced
  <2>4. SetPath(b, path) = Rerouted(b, path, First(path))
    BY DEF SetPath, Rerouted
  <2> QED
    BY <2>1, <2>2, <2>3, <2>4
<1> QED
  BY <1>2, BuildsAgain

LEMMA ExtractBuilds ==
  ASSUME NEW b, NEW P, Builds(b, P), NEW at \in P, NEW st, IsSimple(st)
  PROVE  Builds(Extract(b, at, st), P)
<1>1. Builds(SetPath(b, st.arg), P)
  BY SetPathBuilds
<1>2. Builds(CreateTemporary(b, at, st), P)
  BY TemporaryBuilds DEF IsSimple
<1>3. Builds(Select(b, at, st), P)
  BY SelectBuilds DEF IsSimple
<1>4. \A role \in Roles : \A kind, schema, name : Builds(RangeRef(b, at, role, kind, schema, name), P)
  BY RangeRefBuilds
<1>5. \A role \in Roles : \A kind, schema, name, signature :
        Builds(AddRef(b, at, role, kind, schema, name, signature), P)
  BY AddRefBuilds
<1>6. Builds(CreateIndex(b, at, st), P)
  <2>1. PICK c : c = IF st.schema = None THEN b ELSE AddRef(b, at, "define", "index", st.schema, st.name, None)
    OBVIOUS
  <2>2. Builds(c, P)
    BY <1>5, <2>1 DEF Roles
  <2>3. Builds(ReadFrom(c, at, st.schema, st.arg[1], {}), P)
    BY <2>2, ReadFromBuilds
  <2> QED
    BY <2>1, <2>3 DEF CreateIndex
<1>7. Builds(Update(b, at, st), P)
  <2>1. PICK c : c = RangeRef(b, at, "write", "table", st.schema, st.name)
    OBVIOUS
  <2>2. Builds(c, P)
    BY <1>4, <2>1 DEF Roles
  <2>3. Builds(RangeRef(c, at, "read", "table", st.schema, st.name), P)
    BY <2>2, RangeRefBuilds DEF Roles
  <2> QED
    BY <2>1, <2>3 DEF Update
<1>8. st.do \in Simple
  BY DEF IsSimple
<1> USE DEF Roles
<1>9. CASE st.do \in {"set", "create temporary", "select", "create index", "update"}
  BY <1>1, <1>2, <1>3, <1>6, <1>7, <1>9 DEF Extract
<1>10. CASE st.do \in {"create", "alter", "insert"}
  BY <1>4, <1>10 DEF Extract
<1>11. CASE st.do \in {"create namespace", "drop", "drop routine", "call", "execute"}
  BY <1>5, <1>11 DEF Extract, DropObject, ObjectWithArgs, DynamicRef
<1> QED
  BY <1>8, <1>9, <1>10, <1>11 DEF Simple

LEMMA RoutineBuilds ==
  ASSUME NEW b, NEW P, Builds(b, P), NEW n, NEW st, <<n>> \in P, IsList(st.body),
         \A k \in DOMAIN st.body : <<n, k>> \in P /\ IsSimple(st.body[k])
  PROVE  Builds(CreateRoutine(b, n, st), P)
<1> DEFINE items == [k \in DOMAIN st.body |-> k]
           m == Len(st.body)
<1>1. m \in Nat /\ DOMAIN st.body = 1 .. m /\ DOMAIN items = 1 .. m
  BY DEF IsList
<1>2. PICK f : BodyRun(f, m, b, n, st, items)
  <2> HIDE DEF m
  <2> QED
    BY <1>1, BodyRuns
<1>3. /\ f[0] = InsideRoutine(b, n, st)
      /\ \A k \in 1 .. m : f[k] = Extract(f[k - 1], <<n, k>>, st.body[k])
      /\ CreateRoutine(b, n, st) = EndRoutine(f[m], b)
  <2>1. \A k \in 1 .. m : items[k] = k
    BY <1>1
  <2> HIDE DEF items, m
  <2> QED
    BY <1>2, <2>1 DEF BodyRun
<1> HIDE DEF items, m
<1> DEFINE V == {k \in Nat : k <= m => Builds(f[k], P)}
<1>4. 0 \in V
  <2>1. Builds(RoutineRef(b, <<n>>, st), P)
    BY AddRefBuilds DEF RoutineRef, Roles
  <2>2. Builds(InsideRoutine(b, n, st), P)
    BY <2>1, SetPathBuilds DEF InsideRoutine
  <2> QED
    BY <1>3, <2>2
<1>5. ASSUME NEW k \in Nat, k \in V PROVE k + 1 \in V
  <2> SUFFICES ASSUME k + 1 <= m PROVE Builds(f[k + 1], P)
    OBVIOUS
  <2>1. k + 1 \in 1 .. m /\ (k + 1) - 1 = k /\ k <= m
    BY <1>1
  <2>2. f[k + 1] = Extract(f[k], <<n, k + 1>>, st.body[k + 1])
    BY <1>3, <2>1
  <2>3. Builds(f[k], P) /\ <<n, k + 1>> \in P /\ IsSimple(st.body[k + 1])
    BY <1>1, <1>5, <2>1
  <2> QED
    BY <2>2, <2>3, ExtractBuilds
<1>6. Builds(f[m], P)
  <2> HIDE DEF V
  <2>1. m \in V
    BY <1>1, <1>4, <1>5, Induction
  <2> QED
    BY <1>1, <2>1 DEF V
<1>7. PICK c : c = f[m]
  OBVIOUS
<1>8. Builds(EndRoutine(c, b), P)
  <2>1. c = [path |-> c.path, creation |-> c.creation, temporary |-> c.temporary, refs |-> c.refs]
    BY <1>6, <1>7 DEF Builds
  <2>2. EndRoutine(c, b)
          = [path |-> b.path, creation |-> b.creation, temporary |-> c.temporary, refs |-> c.refs]
    <3>1. PICK p, q, t, r : c = [path |-> p, creation |-> q, temporary |-> t, refs |-> r]
      BY <2>1
    <3>2. PICK path, creation : path = b.path /\ creation = b.creation
      OBVIOUS
    <3>3. Rerouted(c, path, creation)
            = [path |-> path, creation |-> creation, temporary |-> t, refs |-> r]
      BY <3>1, PathReplaced
    <3>4. EndRoutine(c, b) = Rerouted(c, b.path, b.creation)
      BY DEF EndRoutine, Rerouted
    <3> QED
      BY <3>1, <3>2, <3>3, <3>4
  <2> QED
    BY <1>6, <1>7, <2>2, BuildsAgain
<1> QED
  BY <1>3, <1>7, <1>8

LEMMA ScriptRefsListed ==
  ASSUME NEW script, IsScript(script)
  PROVE  /\ IsList(ScriptRefs(script))
         /\ \A r \in ToSet(ScriptRefs(script)) : r.at \in Places(script) /\ r.role \in Roles
<1> DEFINE items == [k \in DOMAIN script.statements |-> k]
           m == Len(script.statements)
           P == Places(script)
<1>1. m \in Nat /\ DOMAIN script.statements = 1 .. m /\ DOMAIN items = 1 .. m
  <2>1. IsList(script.statements)
    BY DEF IsScript
  <2> QED
    BY <2>1 DEF IsList
<1>2. PICK f : ScriptRun(f, m, script, items)
  <2> HIDE DEF m
  <2> QED
    BY <1>1, ScriptRuns
<1>3. /\ f[0] = Builder(script)
      /\ \A k \in 1 .. m : f[k] = ProcessStatement(f[k - 1], k, script.statements[k])
      /\ ScriptRefs(script) = f[m].refs
  <2>1. \A k \in 1 .. m : items[k] = k
    BY <1>1
  <2> HIDE DEF items, m
  <2> QED
    BY <1>2, <2>1 DEF ScriptRun
<1> HIDE DEF items, m
<1>4. ASSUME NEW k \in 1 .. m, NEW b, Builds(b, P)
      PROVE  Builds(ProcessStatement(b, k, script.statements[k]), P)
  <2>1. PICK st : st = script.statements[k]
    OBVIOUS
  <2>2. st \in ToSet(script.statements) /\ <<k>> \in P
    BY <1>1, <2>1 DEF ToSet, Places
  <2>3. CASE st.do = "create routine"
    <3>1. IsList(st.body) /\ \A x \in ToSet(st.body) : IsSimple(x)
      BY <2>2, <2>3 DEF IsScript, IsSimple, Simple
    <3>2. \A j \in DOMAIN st.body : IsSimple(st.body[j])
      BY <3>1 DEF ToSet
    <3>4. ASSUME NEW j \in DOMAIN st.body PROVE <<k, j>> \in P
      <4>1. k \in {n \in DOMAIN script.statements : script.statements[n].do = "create routine"}
        BY <1>1, <2>1, <2>3
      <4>2. <<k, j>> \in {<<k, i>> : i \in DOMAIN script.statements[k].body}
        BY <2>1
      <4> QED
        BY <4>1, <4>2 DEF Places
    <3>3. Builds(CreateRoutine(b, k, st), P)
      <4> HIDE DEF P
      <4> QED
        BY <1>4, <2>2, <3>1, <3>2, <3>4, RoutineBuilds
    <3> QED
      BY <2>1, <2>3, <3>3 DEF ProcessStatement
  <2>4. CASE st.do # "create routine"
    <3>1. IsSimple(st)
      BY <2>2, <2>4 DEF IsScript
    <3>2. Builds(Extract(b, <<k>>, st), P)
      <4> HIDE DEF P
      <4> QED
        BY <1>4, <2>2, <3>1, ExtractBuilds
    <3> QED
      BY <2>1, <2>4, <3>2 DEF ProcessStatement
  <2> QED
    BY <2>3, <2>4
<1> HIDE DEF P
<1> DEFINE V == {k \in Nat : k <= m => Builds(f[k], P)}
<1>5. 0 \in V
  <2>1. <<>> \in Seq(ToSet(<<>>)) /\ ToSet(<<>>) = {}
    BY DEF ToSet
  <2>2. Builds(Builder(script), P)
    BY <2>1 DEF Builds, Builder
  <2> QED
    BY <1>3, <2>2
<1>6. ASSUME NEW k \in Nat, k \in V PROVE k + 1 \in V
  <2> SUFFICES ASSUME k + 1 <= m PROVE Builds(f[k + 1], P)
    OBVIOUS
  <2>1. k + 1 \in 1 .. m /\ (k + 1) - 1 = k /\ k <= m
    BY <1>1
  <2>2. f[k + 1] = ProcessStatement(f[k], k + 1, script.statements[k + 1])
    BY <1>3, <2>1
  <2>3. Builds(f[k], P)
    BY <1>6, <2>1
  <2> QED
    BY <1>4, <2>1, <2>2, <2>3
<1>7. Builds(f[m], P)
  <2> HIDE DEF V
  <2>1. m \in V
    BY <1>1, <1>5, <1>6, Induction
  <2> QED
    BY <1>1, <2>1 DEF V
<1>8. IsList(f[m].refs) /\ \A r \in ToSet(f[m].refs) : r.at \in P /\ r.role \in Roles
  BY <1>7 DEF Builds, IsList
<1> QED
  BY <1>3, <1>8 DEF P

(***************************************************************************)
(* What a snapshot is turned into are finite sets of rows.                 *)
(***************************************************************************)
LEMMA FiniteUnionOf ==
  ASSUME NEW S, IsFiniteSet(S), NEW f, \A x \in S : IsFiniteSet(f[x])
  PROVE  IsFiniteSet(UNION {f[x] : x \in S})
<1> DEFINE T == {f[x] : x \in S}
<1>1. IsFiniteSet(T)
  BY FiniteImage
<1>2. \A t \in T : IsFiniteSet(t)
  OBVIOUS
<1> HIDE DEF T
<1>3. IsFiniteSet(UNION T)
  BY <1>1, <1>2, FS_UNION
<1> QED
  BY <1>3 DEF T

LEMMA FiniteLinks ==
  ASSUME NEW rels, IsFiniteSet(rels)
  PROVE  IsFiniteSet(Links(rels))
<1> DEFINE h == [r \in rels |-> Row({}, {r})]
<1>1. {h[r] : r \in rels} = Links(rels)
  BY DEF Links
<1> HIDE DEF h
<1> QED
  BY <1>1, FiniteImage

LEMMA FinitePart ==
  ASSUME NEW S, IsFiniteSet(S), NEW T, T \subseteq S
  PROVE  IsFiniteSet(T)
BY FS_Subset

(* The rows of one file.                                                     *)
SymbolRows(f, label) == {SymbolRow(f, y) : y \in {z \in f.symbols : Label(z) = label}}

LEMMA FiniteFile ==
  ASSUME NEW ix, NEW f, IsParsed(f)
  PROVE  /\ IsFiniteSet({DiagnosticRow(f, n) : n \in 1 .. f.diagnostics})
         /\ \A label : IsFiniteSet(SymbolRows(f, label))
         /\ IsFiniteSet(MethodRels(ix, f)) /\ IsFiniteSet(ImportRels(f)) /\ IsFiniteSet(Inherits(ix, f))
         /\ IsFiniteSet(Resolved(ix, f))
<1>1. /\ IsFiniteSet(f.symbols) /\ IsFiniteSet(f.calls) /\ f.diagnostics \in Nat
      /\ IsFiniteSet(ToSet(f.imports)) /\ IsFiniteSet(ToSet(f.bases))
  <2>1. IsList(f.imports) /\ IsList(f.bases) /\ IsFiniteSet(f.symbols) /\ IsFiniteSet(f.calls) /\ f.diagnostics \in Nat
    BY DEF IsParsed
  <2> QED
    BY <2>1, FiniteRows DEF IsList
<1>2. IsFiniteSet({DiagnosticRow(f, n) : n \in 1 .. f.diagnostics})
  <2> DEFINE h == [n \in 1 .. f.diagnostics |-> DiagnosticRow(f, n)]
  <2>1. {h[n] : n \in 1 .. f.diagnostics} = {DiagnosticRow(f, n) : n \in 1 .. f.diagnostics}
    OBVIOUS
  <2>2. IsFiniteSet(1 .. f.diagnostics)
    BY <1>1, FS_Interval
  <2> HIDE DEF h
  <2> QED
    BY <2>1, <2>2, FiniteImage
<1>3. ASSUME NEW label PROVE IsFiniteSet(SymbolRows(f, label))
  <2> DEFINE S == {z \in f.symbols : Label(z) = label}
             h == [y \in S |-> SymbolRow(f, y)]
  <2>1. {h[y] : y \in S} = {SymbolRow(f, y) : y \in S}
    OBVIOUS
  <2>2. IsFiniteSet(S)
    BY <1>1, FinitePart
  <2> HIDE DEF h, S
  <2>3. IsFiniteSet({SymbolRow(f, y) : y \in S})
    BY <2>1, <2>2, FiniteImage
  <2> QED
    BY <2>3 DEF S, SymbolRows
<1>4. IsFiniteSet(MethodRels(ix, f))
  <2> DEFINE S == {m \in f.symbols : m.kind = "method" /\ Cardinality(Types(ix, {m.parent})) = 1}
             h == [y \in S |-> Rel("HAS_METHOD", The(Types(ix, {y.parent})).key, Ref(f, y).key, Plain)]
  <2>1. {h[y] : y \in S} = MethodRels(ix, f)
    BY DEF MethodRels
  <2>2. IsFiniteSet(S)
    BY <1>1, FinitePart
  <2> HIDE DEF h, S
  <2> QED
    BY <2>1, <2>2, FiniteImage
<1>5. IsFiniteSet(ImportRels(f))
  <2> DEFINE h == [i \in ToSet(f.imports) |-> Rel("IMPORTS", FileKey(f), ExternalKey(i.module), <<"import", i.name, i.alias>>)]
  <2>1. {h[y] : y \in ToSet(f.imports)} = ImportRels(f)
    BY DEF ImportRels
  <2> HIDE DEF h
  <2> QED
    BY <1>1, <2>1, FiniteImage
<1>6. IsFiniteSet(Inherits(ix, f))
  <2> DEFINE S == {e \in ToSet(f.bases) : Single(ix, e.type)}
             One(base) == LET names == CandidateNames(f, base)
                          IN  Rel("INHERITS", The(Types(ix, {base.type})).key,
                                  FirstOf(ix, names, {n \in DOMAIN names : Single(ix, names[n])}), Plain)
             h == [base \in S |-> One(base)]
             T == {h[base] : base \in S}
  <2>1. T = {One(base) : base \in S}
    <3> HIDE DEF One, S
    <3> QED
      OBVIOUS
  <2>2. IsFiniteSet(S)
    BY <1>1, FinitePart
  <2>3. Inherits(ix, f) = {r \in {One(base) : base \in S} : r.end \notin {None, r.start}}
    BY DEF Inherits
  <2> HIDE DEF One, S
  <2>4. Inherits(ix, f) \subseteq T
    BY <2>1, <2>3
  <2> HIDE DEF h
  <2>5. IsFiniteSet(T)
    BY <2>2, FiniteImage
  <2> HIDE DEF T
  <2> QED
    BY <2>4, <2>5, FinitePart
<1>7. IsFiniteSet(Resolved(ix, f))
  <2> DEFINE h == [c \in f.calls |-> [f |-> f, call |-> c, r |-> Resolve(ix, f, c)]]
  <2>1. {h[c] : c \in f.calls} = Resolved(ix, f)
    BY DEF Resolved
  <2> HIDE DEF h
  <2> QED
    BY <1>1, <2>1, FiniteImage
<1> QED
  BY <1>2, <1>3, <1>4, <1>5, <1>6, <1>7

(* The rows of the calls.                                                    *)
LEMMA FiniteCalls ==
  ASSUME NEW calls, IsFiniteSet(calls)
  PROVE  /\ IsFiniteSet({Row({CallNode(c.f, c.call, c.r)}, {}) : c \in calls})
         /\ IsFiniteSet(UNION {CallOwnerRel(c.f, c.call, c.r) : c \in calls})
         /\ IsFiniteSet(UNION {CalledRels(c.f, c.call, c.r) : c \in calls})
         /\ IsFiniteSet(UNION {ConstructRels(c.f, c.call, c.r) : c \in calls})
<1>1. IsFiniteSet({Row({CallNode(c.f, c.call, c.r)}, {}) : c \in calls})
  <2> DEFINE h == [c \in calls |-> Row({CallNode(c.f, c.call, c.r)}, {})]
  <2>1. {h[c] : c \in calls} = {Row({CallNode(c.f, c.call, c.r)}, {}) : c \in calls}
    OBVIOUS
  <2> HIDE DEF h
  <2> QED
    BY <2>1, FiniteImage
<1>2. \A x, y, z : IsFiniteSet({}) /\ IsFiniteSet({x}) /\ IsFiniteSet({x, y}) /\ IsFiniteSet({x, y, z})
  <2> TAKE x, y, z
  <2>1. IsFiniteSet({}) /\ IsFiniteSet({x}) /\ IsFiniteSet({y})
    BY FS_EmptySet, FS_Singleton
  <2>2. IsFiniteSet({x} \cup {y})
    BY <2>1, FS_AddElement
  <2>3. IsFiniteSet({x, y} \cup {z})
    <3>1. {x, y} = {x} \cup {y}
      OBVIOUS
    <3> QED
      BY <2>2, <3>1, FS_AddElement
  <2>4. {x, y} = {x} \cup {y} /\ {x, y, z} = {x, y} \cup {z}
    OBVIOUS
  <2> QED
    BY <2>1, <2>2, <2>3, <2>4
<1>3. ASSUME NEW c
      PROVE  /\ IsFiniteSet(CallOwnerRel(c.f, c.call, c.r)) /\ IsFiniteSet(CalledRels(c.f, c.call, c.r))
             /\ IsFiniteSet(ConstructRels(c.f, c.call, c.r))
  BY <1>2 DEF CallOwnerRel, CalledRels, ConstructRels
<1>4. IsFiniteSet(UNION {CallOwnerRel(c.f, c.call, c.r) : c \in calls})
  <2> DEFINE h == [c \in calls |-> CallOwnerRel(c.f, c.call, c.r)]
  <2>1. {h[c] : c \in calls} = {CallOwnerRel(c.f, c.call, c.r) : c \in calls}
    OBVIOUS
  <2>2. ASSUME NEW c \in calls PROVE IsFiniteSet(h[c])
    <3>1. h[c] = CallOwnerRel(c.f, c.call, c.r)
      OBVIOUS
    <3> HIDE DEF h
    <3> QED
      BY <1>3, <3>1
  <2> HIDE DEF h
  <2>3. IsFiniteSet(UNION {h[c] : c \in calls})
    BY <2>2, FiniteUnionOf
  <2> QED
    BY <2>1, <2>3
<1>5. IsFiniteSet(UNION {CalledRels(c.f, c.call, c.r) : c \in calls})
  <2> DEFINE h == [c \in calls |-> CalledRels(c.f, c.call, c.r)]
  <2>1. {h[c] : c \in calls} = {CalledRels(c.f, c.call, c.r) : c \in calls}
    OBVIOUS
  <2>2. ASSUME NEW c \in calls PROVE IsFiniteSet(h[c])
    <3>1. h[c] = CalledRels(c.f, c.call, c.r)
      OBVIOUS
    <3> HIDE DEF h
    <3> QED
      BY <1>3, <3>1
  <2> HIDE DEF h
  <2>3. IsFiniteSet(UNION {h[c] : c \in calls})
    BY <2>2, FiniteUnionOf
  <2> QED
    BY <2>1, <2>3
<1>6. IsFiniteSet(UNION {ConstructRels(c.f, c.call, c.r) : c \in calls})
  <2> DEFINE h == [c \in calls |-> ConstructRels(c.f, c.call, c.r)]
  <2>1. {h[c] : c \in calls} = {ConstructRels(c.f, c.call, c.r) : c \in calls}
    OBVIOUS
  <2>2. ASSUME NEW c \in calls PROVE IsFiniteSet(h[c])
    <3>1. h[c] = ConstructRels(c.f, c.call, c.r)
      OBVIOUS
    <3> HIDE DEF h
    <3> QED
      BY <1>3, <3>1
  <2> HIDE DEF h
  <2>3. IsFiniteSet(UNION {h[c] : c \in calls})
    BY <2>2, FiniteUnionOf
  <2> QED
    BY <2>1, <2>3
<1> QED
  BY <1>1, <1>4, <1>5, <1>6

(* All the rows of a snapshot but those of SQL.                              *)
IsSnapshot(s) ==
  /\ IsList(s) /\ \A f \in ToSet(s) : IsParsed(f)
  /\ \A f, g \in ToSet(s) : f.path = g.path => f = g
CallsIn(s) == UNION {Resolved(InMemoryIndex(s), f) : f \in ToSet(s)}

LEMMA FiniteOperations ==
  ASSUME NEW s, IsSnapshot(s), NEW n \in 1 .. 16
  PROVE  IsFiniteSet(Operations(s, InMemoryIndex(s), CallsIn(s))[n])
<1> DEFINE files == ToSet(s)
           ix == InMemoryIndex(s)
           calls == CallsIn(s)
           constructs == UNION {ConstructRels(c.f, c.call, c.r) : c \in calls}
           edges == UNION {CalledRels(c.f, c.call, c.r) : c \in calls}
<1>1. IsFiniteSet(files)
  BY FiniteRows DEF IsSnapshot, IsList
<1>2. \A f \in files : IsParsed(f)
  BY DEF IsSnapshot
<1>3. CallsIn(s) = UNION {Resolved(ix, f) : f \in files}
  BY DEF CallsIn
<1> HIDE DEF files, ix
<1>4. IsFiniteSet({FileRow(f) : f \in files}) /\ IsFiniteSet({InitRow(f) : f \in {g \in files : g.sql = None}})
  <2> DEFINE S == {g \in files : g.sql = None}
             h == [f \in files |-> FileRow(f)]
             i == [f \in S |-> InitRow(f)]
  <2>1. {h[f] : f \in files} = {FileRow(f) : f \in files} /\ {i[f] : f \in S} = {InitRow(f) : f \in S}
    OBVIOUS
  <2>2. IsFiniteSet(S)
    BY <1>1, FinitePart
  <2> HIDE DEF h, i, S
  <2>3. IsFiniteSet({h[f] : f \in files}) /\ IsFiniteSet({i[f] : f \in S})
    BY <1>1, <2>2, FiniteImage
  <2> QED
    BY <2>1, <2>3 DEF S
<1>5. IsFiniteSet(UNION {{DiagnosticRow(f, m) : m \in 1 .. f.diagnostics} : f \in files})
  <2> DEFINE h == [f \in files |-> {DiagnosticRow(f, m) : m \in 1 .. f.diagnostics}]
  <2>1. {h[f] : f \in files} = {{DiagnosticRow(f, m) : m \in 1 .. f.diagnostics} : f \in files}
    OBVIOUS
  <2>2. ASSUME NEW f \in files PROVE IsFiniteSet(h[f])
    <3>1. h[f] = {DiagnosticRow(f, m) : m \in 1 .. f.diagnostics}
      OBVIOUS
    <3> HIDE DEF h
    <3> QED
      BY <1>2, <3>1, FiniteFile
  <2> HIDE DEF h
  <2>3. IsFiniteSet(UNION {h[f] : f \in files})
    BY <1>1, <2>2, FiniteUnionOf
  <2> QED
    BY <2>1, <2>3
<1>6. ASSUME NEW label PROVE IsFiniteSet(Symbols(s, label))
  <2> DEFINE h == [f \in files |-> SymbolRows(f, label)]
  <2>1. Symbols(s, label) = UNION {h[f] : f \in files}
    BY DEF Symbols, SymbolRows, files
  <2>2. ASSUME NEW f \in files PROVE IsFiniteSet(h[f])
    <3>1. h[f] = SymbolRows(f, label)
      OBVIOUS
    <3> HIDE DEF h
    <3> QED
      BY <1>2, <3>1, FiniteFile
  <2> HIDE DEF h
  <2> QED
    BY <1>1, <2>1, <2>2, FiniteUnionOf
<1>7. /\ IsFiniteSet(UNION {MethodRels(ix, f) : f \in files}) /\ IsFiniteSet(UNION {ImportRels(f) : f \in files})
      /\ IsFiniteSet(UNION {Inherits(ix, f) : f \in files}) /\ IsFiniteSet(calls)
  <2> DEFINE h == [f \in files |-> MethodRels(ix, f)]
             i == [f \in files |-> ImportRels(f)]
             j == [f \in files |-> Inherits(ix, f)]
             k == [f \in files |-> Resolved(ix, f)]
  <2>1. /\ {h[f] : f \in files} = {MethodRels(ix, f) : f \in files}
        /\ {i[f] : f \in files} = {ImportRels(f) : f \in files}
    OBVIOUS
  <2>2. /\ {j[f] : f \in files} = {Inherits(ix, f) : f \in files}
        /\ {k[f] : f \in files} = {Resolved(ix, f) : f \in files}
    OBVIOUS
  <2>3. ASSUME NEW f \in files
        PROVE  IsFiniteSet(h[f]) /\ IsFiniteSet(i[f]) /\ IsFiniteSet(j[f]) /\ IsFiniteSet(k[f])
    <3>1. h[f] = MethodRels(ix, f) /\ i[f] = ImportRels(f) /\ j[f] = Inherits(ix, f) /\ k[f] = Resolved(ix, f)
      BY Zenon
    <3> HIDE DEF h, i, j, k
    <3>2. IsFiniteSet(MethodRels(ix, f)) /\ IsFiniteSet(ImportRels(f))
      BY <1>2, FiniteFile
    <3>3. IsFiniteSet(Inherits(ix, f)) /\ IsFiniteSet(Resolved(ix, f))
      BY <1>2, FiniteFile
    <3> QED
      BY <3>1, <3>2, <3>3
  <2> HIDE DEF h, i, j, k
  <2>4. IsFiniteSet(UNION {h[f] : f \in files}) /\ IsFiniteSet(UNION {i[f] : f \in files})
    BY <1>1, <2>3, FiniteUnionOf
  <2>5. IsFiniteSet(UNION {j[f] : f \in files}) /\ IsFiniteSet(UNION {k[f] : f \in files})
    BY <1>1, <2>3, FiniteUnionOf
  <2> QED
    BY <1>3, <2>1, <2>2, <2>4, <2>5
<1>8. IsFiniteSet({Row({Node("Module", r.end, Plain)}, {r}) : r \in UNION {ImportRels(f) : f \in files}})
  <2> DEFINE S == UNION {ImportRels(f) : f \in files}
             h == [r \in S |-> Row({Node("Module", r.end, Plain)}, {r})]
  <2>1. {h[r] : r \in S} = {Row({Node("Module", r.end, Plain)}, {r}) : r \in S}
    OBVIOUS
  <2> HIDE DEF h, S
  <2>2. IsFiniteSet({h[r] : r \in S})
    BY <1>7, FiniteImage DEF S
  <2>3. IsFiniteSet({Row({Node("Module", r.end, Plain)}, {r}) : r \in S})
    BY <2>1, <2>2
  <2> QED
    BY <2>3 DEF S
<1> HIDE DEF calls
<1>9. IsFiniteSet({Row({CallNode(c.f, c.call, c.r)}, {}) : c \in calls}) /\ IsFiniteSet(edges) /\ IsFiniteSet(constructs)
      /\ IsFiniteSet(UNION {CallOwnerRel(c.f, c.call, c.r) : c \in calls})
  BY <1>7, FiniteCalls
<1> HIDE DEF edges, constructs
<1>10. \A kind : IsFiniteSet(Links({e \in edges : e.kind = kind}))
  <2> TAKE kind
  <2>1. IsFiniteSet({e \in edges : e.kind = kind})
    BY <1>9, FinitePart
  <2> QED
    BY <2>1, FiniteLinks
<1>11. IsFiniteSet(Links({e \in constructs : e.start = e.of})) /\ IsFiniteSet(Links({e \in constructs : e.start # e.of}))
  <2>1. IsFiniteSet({e \in constructs : e.start = e.of}) /\ IsFiniteSet({e \in constructs : e.start # e.of})
    BY <1>9, FinitePart
  <2> QED
    BY <2>1, FiniteLinks
<1>12. /\ IsFiniteSet(Links(UNION {MethodRels(ix, f) : f \in files}))
       /\ IsFiniteSet(Links(UNION {Inherits(ix, f) : f \in files}))
       /\ IsFiniteSet(Links(UNION {CallOwnerRel(c.f, c.call, c.r) : c \in calls}))
  BY <1>7, <1>9, FiniteLinks
<1> DEFINE o1 == {FileRow(f) : f \in files}
           o2 == UNION {{DiagnosticRow(f, m) : m \in 1 .. f.diagnostics} : f \in files}
           o3 == {InitRow(f) : f \in {g \in files : g.sql = None}}
           o4 == Symbols(s, "Type")
           o5 == Symbols(s, "Function")
           o6 == Symbols(s, "Method")
           o7 == Links(UNION {MethodRels(ix, f) : f \in files})
           o8 == {Row({Node("Module", r.end, Plain)}, {r}) : r \in UNION {ImportRels(f) : f \in files}}
           o9 == Links(UNION {Inherits(ix, f) : f \in files})
           o10 == {Row({CallNode(c.f, c.call, c.r)}, {}) : c \in calls}
           o11 == Links(UNION {CallOwnerRel(c.f, c.call, c.r) : c \in calls})
           o12 == Links({e \in edges : e.kind = "CALLS"})
           o13 == Links({e \in edges : e.kind = "EXACT_CALLS"})
           o14 == Links({e \in edges : e.kind = "RESOLVES_TO"})
           o15 == Links({e \in constructs : e.start = e.of})
           o16 == Links({e \in constructs : e.start # e.of})
<1>13. Operations(s, ix, calls) = <<o1, o2, o3, o4, o5, o6, o7, o8,
                                     o9, o10, o11, o12, o13, o14, o15, o16>>
  BY DEF Operations, files, edges, constructs
<1>14. /\ IsFiniteSet(o1) /\ IsFiniteSet(o2) /\ IsFiniteSet(o3) /\ IsFiniteSet(o4)
       /\ IsFiniteSet(o5) /\ IsFiniteSet(o6) /\ IsFiniteSet(o7) /\ IsFiniteSet(o8)
       /\ IsFiniteSet(o9) /\ IsFiniteSet(o10) /\ IsFiniteSet(o11) /\ IsFiniteSet(o12)
       /\ IsFiniteSet(o13) /\ IsFiniteSet(o14) /\ IsFiniteSet(o15) /\ IsFiniteSet(o16)
  BY <1>4, <1>5, <1>6, <1>8, <1>9, <1>10, <1>11, <1>12
<1> HIDE DEF o1, o2, o3, o4, o5, o6, o7, o8, o9, o10, o11, o12, o13, o14, o15, o16
<1>15. IsFiniteSet(Operations(s, ix, calls)[n])
  BY <1>13, <1>14
<1> QED
  BY <1>15 DEF ix, calls

(* The rows of SQL.                                                          *)
LEMMA FinitePlaces ==
  ASSUME NEW script, IsScript(script)
  PROVE  IsFiniteSet(Places(script))
<1> DEFINE N == DOMAIN script.statements
           R == {m \in N : script.statements[m].do = "create routine"}
           one == [n \in N |-> <<n>>]
           Inner(n) == {<<n, k>> : k \in DOMAIN script.statements[n].body}
           inner == [n \in R |-> Inner(n)]
<1>1. IsFiniteSet(N)
  <2>1. IsList(script.statements)
    BY DEF IsScript
  <2>2. DOMAIN script.statements = 1 .. Len(script.statements) /\ Len(script.statements) \in Nat
    BY <2>1 DEF IsList
  <2> QED
    BY <2>2, FS_Interval
<1>2. IsFiniteSet(R)
  <2> HIDE DEF N
  <2> QED
    BY <1>1, FinitePart
<1>3. ASSUME NEW n \in R PROVE IsFiniteSet(inner[n])
  <2> DEFINE st == script.statements[n]
             K == DOMAIN st.body
             h == [k \in K |-> <<n, k>>]
  <2>1. st \in ToSet(script.statements) /\ st.do = "create routine"
    BY DEF ToSet
  <2>2. inner[n] = {<<n, k>> : k \in K}
    <3>1. n \in R
      BY <1>3
    <3>2. inner[n] = Inner(n)
      <4> HIDE DEF R, Inner
      <4> QED
        BY <3>1
    <3> HIDE DEF inner
    <3> QED
      BY <3>2
  <2> HIDE DEF st, h, inner, K, R, N, one
  <2>3. IsList(st.body)
    BY <2>1 DEF IsScript, IsSimple
  <2>4. \A b : IsList(b) => DOMAIN b = 1 .. Len(b) /\ Len(b) \in Nat
    BY DEF IsList
  <2>8. K = 1 .. Len(st.body) /\ Len(st.body) \in Nat
    BY <2>3, <2>4 DEF K
  <2> HIDE DEF K
  <2>5. IsFiniteSet(K)
    BY <2>8, FS_Interval
  <2>6. {h[k] : k \in K} = {<<n, k>> : k \in K}
    BY DEF h
  <2>7. IsFiniteSet({h[k] : k \in K})
    BY <2>5, FiniteImage
  <2> QED
    BY <2>2, <2>6, <2>7
<1>4. Places(script) = {one[n] : n \in N} \cup UNION {inner[n] : n \in R}
  <2>1. {one[n] : n \in N} = {<<n>> : n \in N}
    <3> HIDE DEF N
    <3> QED
      OBVIOUS
  <2>2. {inner[n] : n \in R} = {Inner(n) : n \in R}
    <3> HIDE DEF R, Inner
    <3> QED
      OBVIOUS
  <2>3. Places(script) = {<<n>> : n \in N} \cup UNION {Inner(n) : n \in R}
    <3> HIDE DEF one, inner
    <3> QED
      BY DEF Places
  <2> HIDE DEF one, inner, Inner, N, R
  <2> QED
    BY <2>1, <2>2, <2>3
<1> HIDE DEF N, R, one, inner, Inner
<1>5. IsFiniteSet({one[n] : n \in N})
  BY <1>1, FiniteImage
<1>6. IsFiniteSet(UNION {inner[n] : n \in R})
  BY <1>2, <1>3, FiniteUnionOf
<1> QED
  BY <1>4, <1>5, <1>6, FS_Union

LEMMA FiniteSqlIndex ==
  ASSUME NEW s, IsSnapshot(s)
  PROVE  /\ IsFiniteSet(SqlFiles(s)) /\ DOMAIN SqlIndex(s).refs = SqlFiles(s) /\ IsFiniteSet(SqlIndex(s).objects)
         /\ \A f \in SqlFiles(s) : /\ f \in ToSet(s) /\ IsScript(f.sql)
                                   /\ SqlIndex(s).refs[f] = ScriptRefs(f.sql) /\ IsList(SqlIndex(s).refs[f])
<1> DEFINE F == SqlFiles(s)
           refs == [f \in F |-> ScriptRefs(f.sql)]
           members == [f \in F |-> ToSet(refs[f])]
<1>1. IsFiniteSet(F)
  <2>1. IsFiniteSet(ToSet(s))
    BY FiniteRows DEF IsSnapshot, IsList
  <2> QED
    BY <2>1, FinitePart DEF SqlFiles
<1>2. ASSUME NEW f \in F PROVE f \in ToSet(s) /\ IsScript(f.sql) /\ refs[f] = ScriptRefs(f.sql) /\ IsList(refs[f])
  <2>1. f \in ToSet(s) /\ f.sql # None
    BY DEF SqlFiles
  <2>2. IsScript(f.sql)
    BY <2>1 DEF IsSnapshot, IsParsed
  <2>3. IsList(ScriptRefs(f.sql))
    BY <2>2, ScriptRefsListed
  <2> QED
    BY <2>1, <2>2, <2>3
<1>3. SqlIndex(s) = [refs |-> refs, objects |-> SqlObjects(UNION {ToSet(refs[f]) : f \in F})]
  BY DEF SqlIndex
<1>4. {members[f] : f \in F} = {ToSet(refs[f]) : f \in F}
  <2> HIDE DEF refs, F
  <2> QED
    OBVIOUS
<1>5. DOMAIN refs = F
  OBVIOUS
<1>6. \A f \in F : IsFiniteSet(members[f])
  <2> TAKE f \in F
  <2>1. members[f] = ToSet(refs[f])
    <3> HIDE DEF refs
    <3> QED
      OBVIOUS
  <2> HIDE DEF refs, members
  <2> QED
    BY <1>2, <2>1, FiniteRows DEF IsList
<1> DEFINE all == UNION {ToSet(refs[f]) : f \in F}
           defined == {d \in all : /\ d.role = "define" /\ d.kind \in Relations \cup Routines \cup Direct
                                   /\ Place(d) # None}
           h == [r \in defined |-> SqlObject(Place(r), r.kind, r.name, r.signature)]
<1> HIDE DEF members, refs, F
<1>7. IsFiniteSet(all)
  <2> HIDE DEF all
  <2>1. IsFiniteSet(UNION {members[f] : f \in F})
    BY <1>1, <1>6, FiniteUnionOf
  <2> QED
    BY <1>4, <2>1 DEF all
<1>8. SqlObjects(all) = {h[r] : r \in defined}
  <2> HIDE DEF all
  <2> QED
    BY DEF SqlObjects
<1>9. IsFiniteSet(defined)
  <2> HIDE DEF all
  <2> QED
    BY <1>7, FinitePart
<1> HIDE DEF h, defined
<1>10. IsFiniteSet(SqlObjects(all))
  BY <1>8, <1>9, FiniteImage
<1>11. SqlIndex(s).refs = refs /\ SqlIndex(s).objects = SqlObjects(all)
  BY <1>3
<1> HIDE DEF all
<1> QED
  BY <1>1, <1>2, <1>5, <1>10, <1>11 DEF F

LEMMA FiniteSqlFile ==
  ASSUME NEW s, IsSnapshot(s), NEW f \in SqlFiles(s)
  PROVE  IsFiniteSet(SqlNodes(SqlIndex(s), f)) /\ IsFiniteSet(SqlRels(SqlIndex(s), f))
<1> DEFINE ix == SqlIndex(s)
           N == DOMAIN ix.refs[f]
           P == Places(f.sql)
<1>1. IsFiniteSet(P)
  BY FiniteSqlIndex, FinitePlaces
<1>2. IsFiniteSet(N)
  <2>1. IsList(ix.refs[f])
    BY FiniteSqlIndex
  <2> HIDE DEF ix
  <2>2. N = 1 .. Len(ix.refs[f]) /\ Len(ix.refs[f]) \in Nat
    BY <2>1 DEF IsList
  <2> HIDE DEF N
  <2> QED
    BY <2>2, FS_Interval
<1> HIDE DEF ix
<1> DEFINE statements == [at \in P |-> Node("SqlStatement", StatementKey(f, at), Plain)]
           ofref(n) == LET r == ix.refs[f][n]
                       IN  Node("Reference", ReferenceKey(f, r.at, n), <<r.role, ResolveUncached(ix.objects, r)>>)
           references == [n \in N |-> ofref(n)]
<1>3. SqlNodes(ix, f) = {Node("SqlArtifact", ArtifactKey(f), Plain)}
                        \cup {statements[at] : at \in P} \cup {references[n] : n \in N}
  <2>1. {statements[at] : at \in P} = {Node("SqlStatement", StatementKey(f, at), Plain) : at \in P}
    <3> HIDE DEF P
    <3> QED
      OBVIOUS
  <2>2. {references[n] : n \in N} = {ofref(n) : n \in N}
    <3> HIDE DEF N, ofref
    <3> QED
      OBVIOUS
  <2> HIDE DEF statements, references
  <2>3. SqlNodes(ix, f) = {Node("SqlArtifact", ArtifactKey(f), Plain)}
                          \cup {Node("SqlStatement", StatementKey(f, at), Plain) : at \in P} \cup {ofref(n) : n \in N}
    BY DEF SqlNodes
  <2> HIDE DEF ofref, P, N
  <2> QED
    BY <2>1, <2>2, <2>3
<1> DEFINE hang == [at \in P |-> Rel("CONTAINS_SQL", ArtifactKey(f), StatementKey(f, at), Plain)]
           Q == {p \in P : Len(p) = 2}
           nest == [at \in Q |-> Rel("CONTAINS_SQL", StatementKey(f, <<at[1]>>), StatementKey(f, at), Plain)]
           own == [n \in N |-> RefRels(ix, f, n)]
<1>4. SqlRels(ix, f) = {Rel("CONTAINS_SQL", FileKey(f), ArtifactKey(f), Plain)}
                       \cup {hang[at] : at \in P} \cup {nest[at] : at \in Q} \cup UNION {own[n] : n \in N}
  <2>1. {hang[at] : at \in P} = {Rel("CONTAINS_SQL", ArtifactKey(f), StatementKey(f, at), Plain) : at \in P}
    <3> HIDE DEF P
    <3> QED
      OBVIOUS
  <2>2. {nest[at] : at \in Q} = {Rel("CONTAINS_SQL", StatementKey(f, <<at[1]>>), StatementKey(f, at), Plain) : at \in Q}
    <3> HIDE DEF Q
    <3> QED
      OBVIOUS
  <2>3. {own[n] : n \in N} = {RefRels(ix, f, n) : n \in N}
    <3> HIDE DEF N
    <3> QED
      OBVIOUS
  <2> HIDE DEF hang, nest, own
  <2>4. SqlRels(ix, f) = {Rel("CONTAINS_SQL", FileKey(f), ArtifactKey(f), Plain)}
          \cup {Rel("CONTAINS_SQL", ArtifactKey(f), StatementKey(f, at), Plain) : at \in P}
          \cup {Rel("CONTAINS_SQL", StatementKey(f, <<at[1]>>), StatementKey(f, at), Plain) : at \in Q}
          \cup UNION {RefRels(ix, f, n) : n \in N}
    BY DEF SqlRels
  <2> HIDE DEF P, Q, N
  <2> QED
    BY <2>1, <2>2, <2>3, <2>4
<1>5. IsFiniteSet({Node("SqlArtifact", ArtifactKey(f), Plain)})
      /\ IsFiniteSet({Rel("CONTAINS_SQL", FileKey(f), ArtifactKey(f), Plain)})
  BY FS_Singleton
<1>6. IsFiniteSet(Q)
  <2> HIDE DEF P
  <2> QED
    BY <1>1, FinitePart
<1>7. ASSUME NEW n \in N PROVE IsFiniteSet(own[n])
  <2>1. own[n] = RefRels(ix, f, n)
    <3> HIDE DEF N
    <3> QED
      OBVIOUS
  <2> HIDE DEF own, N
  <2>2. \A x, y, z : IsFiniteSet({x}) /\ IsFiniteSet({x} \cup {}) /\ IsFiniteSet({x} \cup {y, z})
    <3> TAKE x, y, z
    <3>1. IsFiniteSet({x}) /\ IsFiniteSet({})
      BY FS_Singleton, FS_EmptySet
    <3>2. IsFiniteSet({x} \cup {y})
      BY <3>1, FS_AddElement
    <3>3. IsFiniteSet(({x} \cup {y}) \cup {z})
      BY <3>2, FS_AddElement
    <3>4. {x} \cup {} = {x} /\ {x} \cup {y, z} = ({x} \cup {y}) \cup {z}
      OBVIOUS
    <3> QED
      BY <3>1, <3>3, <3>4
  <2>3. IsFiniteSet(RefRels(ix, f, n))
    <3> DEFINE r == ix.refs[f][n]
               answer == ResolveUncached(ix.objects, r)
               x == Rel("HAS_REFERENCE", StatementKey(f, r.at), ReferenceKey(f, r.at, n), Plain)
               y == Rel("REFERS_TO", ReferenceKey(f, r.at, n), ObjectKey(answer.target), Plain)
               z == Rel(RoleKind[r.role], StatementKey(f, r.at), ObjectKey(answer.target), Plain)
    <3>1. RefRels(ix, f, n) = {x} \cup IF answer.status # "exact" THEN {} ELSE {y, z}
      BY DEF RefRels
    <3> HIDE DEF x, y, z, answer
    <3> DEFINE more == IF answer.status # "exact" THEN {} ELSE {y, z}
    <3>2. more = {} \/ more = {y, z}
      OBVIOUS
    <3>3. RefRels(ix, f, n) = {x} \cup more
      BY <3>1
    <3>4. IsFiniteSet({x} \cup {}) /\ IsFiniteSet({x} \cup {y, z})
      BY <2>2
    <3> HIDE DEF more
    <3> QED
      BY <3>2, <3>3, <3>4
  <2> QED
    BY <2>1, <2>3
<1> HIDE DEF P, Q, N, statements, references, hang, nest, own
<1>8. IsFiniteSet({statements[at] : at \in P}) /\ IsFiniteSet({references[n] : n \in N})
      /\ IsFiniteSet({hang[at] : at \in P}) /\ IsFiniteSet({nest[at] : at \in Q})
  BY <1>1, <1>2, <1>6, FiniteImage
<1>9. IsFiniteSet(UNION {own[n] : n \in N})
  BY <1>2, <1>7, FiniteUnionOf
<1>10. \A a, b, c : IsFiniteSet(a) /\ IsFiniteSet(b) /\ IsFiniteSet(c) => IsFiniteSet(a \cup b \cup c)
  <2> SUFFICES ASSUME NEW a, NEW b, NEW c, IsFiniteSet(a), IsFiniteSet(b), IsFiniteSet(c)
               PROVE  IsFiniteSet(a \cup b \cup c)
    OBVIOUS
  <2>1. IsFiniteSet(a \cup b)
    BY FS_Union
  <2> QED
    BY <2>1, FS_Union
<1>11. IsFiniteSet(SqlNodes(ix, f))
  <2> DEFINE a == {Node("SqlArtifact", ArtifactKey(f), Plain)}
             b == {statements[at] : at \in P}
             c == {references[n] : n \in N}
  <2>1. IsFiniteSet(a) /\ IsFiniteSet(b) /\ IsFiniteSet(c) /\ SqlNodes(ix, f) = a \cup b \cup c
    BY <1>3, <1>5, <1>8
  <2> HIDE DEF a, b, c
  <2> QED
    BY <1>10, <2>1
<1>12. IsFiniteSet(SqlRels(ix, f))
  <2>1. IsFiniteSet({Rel("CONTAINS_SQL", FileKey(f), ArtifactKey(f), Plain)}
                    \cup {hang[at] : at \in P} \cup {nest[at] : at \in Q})
    <3> DEFINE a == {Rel("CONTAINS_SQL", FileKey(f), ArtifactKey(f), Plain)}
               b == {hang[at] : at \in P}
               c == {nest[at] : at \in Q}
    <3>1. IsFiniteSet(a) /\ IsFiniteSet(b) /\ IsFiniteSet(c)
      BY <1>5, <1>8
    <3>2. \A u, v, w : IsFiniteSet(u) /\ IsFiniteSet(v) /\ IsFiniteSet(w) => IsFiniteSet(u \cup v \cup w)
      BY <1>10
    <3> HIDE DEF a, b, c
    <3>3. IsFiniteSet(a \cup b \cup c)
      BY <3>1, <3>2
    <3> QED
      BY <3>3 DEF a, b, c
  <2> DEFINE first == {Rel("CONTAINS_SQL", FileKey(f), ArtifactKey(f), Plain)}
                      \cup {hang[at] : at \in P} \cup {nest[at] : at \in Q}
             rest == UNION {own[n] : n \in N}
  <2>2. IsFiniteSet(first) /\ IsFiniteSet(rest) /\ SqlRels(ix, f) = first \cup rest
    BY <1>4, <1>9, <2>1
  <2> HIDE DEF first, rest
  <2> QED
    BY <2>2, FS_Union
<1> QED
  BY <1>11, <1>12 DEF ix

LEMMA FiniteSqlPart ==
  ASSUME NEW s, IsSnapshot(s)
  PROVE  IsFiniteSet(SqlPart(s, SqlIndex(s)).nodes) /\ IsFiniteSet(SqlPart(s, SqlIndex(s)).rels)
<1> DEFINE ix == SqlIndex(s)
           F == SqlFiles(s)
           ranks == {f.rank : f \in ToSet(s)}
           D == DatabasesOf(ix, ranks)
           O == ObjectsOf(ix, ranks)
           dn == [key \in D |-> Node("Database", key, Plain)]
           on == [o \in O |-> Node("SqlObject", ObjectKey(o), <<"defined", Cardinality(DefinitionsOf(ix, o))>>)]
           dr == [key \in D |-> Rel("HAS_DATABASE", RepositoryKey, key, Plain)]
           or == [o \in O |-> Rel("HAS_OBJECT", DatabaseKey, ObjectKey(o), Plain)]
           fn == [f \in F |-> SqlNodes(ix, f)]
           fr == [f \in F |-> SqlRels(ix, f)]
<1>1. /\ SqlPart(s, ix).nodes = SqlGlobalNodes(ix, ranks) \cup UNION {SqlNodes(ix, f) : f \in F}
      /\ SqlPart(s, ix).rels = SqlGlobalRels(ix, ranks) \cup UNION {SqlRels(ix, f) : f \in F}
  <2> HIDE DEF ix, F
  <2> QED
    BY DEF SqlPart, F
<1>2. IsFiniteSet(F) /\ IsFiniteSet(ix.objects)
  BY FiniteSqlIndex
<1>3. \A f \in F : IsFiniteSet(SqlNodes(ix, f)) /\ IsFiniteSet(SqlRels(ix, f))
  BY FiniteSqlFile
<1> HIDE DEF ix, F, ranks
<1>4. IsFiniteSet(D)
  <2>1. D \subseteq {DatabaseKey}
    BY DEF DatabasesOf
  <2> HIDE DEF D
  <2> QED
    BY <2>1, FS_Singleton, FS_Subset
<1>5. IsFiniteSet(O)
  <2>1. O \subseteq ix.objects
    BY DEF ObjectsOf
  <2> HIDE DEF O
  <2> QED
    BY <1>2, <2>1, FS_Subset
<1>6. SqlGlobalNodes(ix, ranks) = {dn[key] : key \in D} \cup {on[o] : o \in O}
  <2>1. {dn[key] : key \in D} = {Node("Database", key, Plain) : key \in D}
    <3> HIDE DEF D
    <3> QED
      OBVIOUS
  <2>2. {on[o] : o \in O} = {Node("SqlObject", ObjectKey(o), <<"defined", Cardinality(DefinitionsOf(ix, o))>>) : o \in O}
    <3> HIDE DEF O
    <3> QED
      OBVIOUS
  <2> HIDE DEF dn, on
  <2> QED
    BY <2>1, <2>2 DEF SqlGlobalNodes
<1>7. SqlGlobalRels(ix, ranks) = {dr[key] : key \in D} \cup {or[o] : o \in O}
  <2>1. {dr[key] : key \in D} = {Rel("HAS_DATABASE", RepositoryKey, key, Plain) : key \in D}
    <3> HIDE DEF D
    <3> QED
      OBVIOUS
  <2>2. {or[o] : o \in O} = {Rel("HAS_OBJECT", DatabaseKey, ObjectKey(o), Plain) : o \in O}
    <3> HIDE DEF O
    <3> QED
      OBVIOUS
  <2> HIDE DEF dr, or
  <2> QED
    BY <2>1, <2>2 DEF SqlGlobalRels
<1>8. {fn[f] : f \in F} = {SqlNodes(ix, f) : f \in F} /\ {fr[f] : f \in F} = {SqlRels(ix, f) : f \in F}
  OBVIOUS
<1>9. ASSUME NEW f \in F PROVE IsFiniteSet(fn[f]) /\ IsFiniteSet(fr[f])
  <2>1. fn[f] = SqlNodes(ix, f) /\ fr[f] = SqlRels(ix, f)
    OBVIOUS
  <2> HIDE DEF fn, fr
  <2> QED
    BY <1>3, <2>1
<1> HIDE DEF D, O, dn, on, dr, or, fn, fr
<1>10. /\ IsFiniteSet({dn[key] : key \in D}) /\ IsFiniteSet({on[o] : o \in O})
       /\ IsFiniteSet({dr[key] : key \in D}) /\ IsFiniteSet({or[o] : o \in O})
  BY <1>4, <1>5, FiniteImage
<1>11. IsFiniteSet(UNION {fn[f] : f \in F}) /\ IsFiniteSet(UNION {fr[f] : f \in F})
  BY <1>2, <1>9, FiniteUnionOf
<1>14. \A x, y : IsFiniteSet(x) /\ IsFiniteSet(y) => IsFiniteSet(x \cup y)
  BY FS_Union
<1>12. IsFiniteSet(SqlGlobalNodes(ix, ranks)) /\ IsFiniteSet(SqlGlobalRels(ix, ranks))
  <2> DEFINE u == {dn[key] : key \in D}
             v == {on[o] : o \in O}
             w == {dr[key] : key \in D}
             x == {or[o] : o \in O}
  <2>1. IsFiniteSet(u) /\ IsFiniteSet(v) /\ IsFiniteSet(w) /\ IsFiniteSet(x)
    BY <1>10
  <2>2. SqlGlobalNodes(ix, ranks) = u \cup v /\ SqlGlobalRels(ix, ranks) = w \cup x
    BY <1>6, <1>7
  <2> HIDE DEF u, v, w, x
  <2> QED
    BY <1>14, <2>1, <2>2
<1>13. IsFiniteSet(SqlPart(s, ix).nodes) /\ IsFiniteSet(SqlPart(s, ix).rels)
  <2> DEFINE u == UNION {SqlNodes(ix, f) : f \in F}
             v == UNION {SqlRels(ix, f) : f \in F}
  <2>1. IsFiniteSet(u) /\ IsFiniteSet(v)
    BY <1>8, <1>11
  <2>2. SqlPart(s, ix).nodes = SqlGlobalNodes(ix, ranks) \cup u /\ SqlPart(s, ix).rels = SqlGlobalRels(ix, ranks) \cup v
    BY <1>1
  <2> HIDE DEF u, v
  <2> QED
    BY <1>12, <1>14, <2>1, <2>2
<1> QED
  BY <1>13 DEF ix

(* The operations of a load, and of its SQL, are lists of those rows.        *)
LEMMA OperationsListed ==
  ASSUME NEW s, IsSnapshot(s)
  PROVE  /\ DOMAIN OperationsOf(s) = 1 .. 16 /\ Len(OperationsOf(s)) = 16
         /\ \A n \in 1 .. 16 : /\ IsList(OperationsOf(s)[n])
                               /\ ToSet(OperationsOf(s)[n]) = Operations(s, InMemoryIndex(s), CallsIn(s))[n]
<1> DEFINE ops == Operations(s, InMemoryIndex(s), CallsIn(s))
<1>1. DOMAIN ops = 1 .. 16
  BY DEF Operations
<1>2. OperationsOf(s) = [n \in DOMAIN ops |-> SetToSeq(ops[n])]
  BY DEF OperationsOf, CallsIn
<1>3. \A n \in 1 .. 16 : IsFiniteSet(ops[n])
  BY FiniteOperations
<1> HIDE DEF ops
<1>4. OperationsOf(s) = [n \in 1 .. 16 |-> SetToSeq(ops[n])]
  BY <1>1, <1>2
<1>5. DOMAIN OperationsOf(s) = 1 .. 16 /\ Len(OperationsOf(s)) = 16
  BY <1>4
<1>6. ASSUME NEW n \in 1 .. 16
      PROVE  IsList(OperationsOf(s)[n]) /\ ToSet(OperationsOf(s)[n]) = ops[n]
  <2>1. OperationsOf(s)[n] = SetToSeq(ops[n])
    BY <1>4
  <2>2. SetToSeq(ops[n]) \in Seq(ops[n]) /\ ToSet(SetToSeq(ops[n])) = ops[n]
    BY <1>3, SetInOrder
  <2> QED
    BY <2>1, <2>2 DEF IsList
<1> QED
  BY <1>5, <1>6 DEF ops

(* The rows of SQL: of a label, or of a kind of relationship.                *)
LabelRows(s, label) == {Row({n}, {}) : n \in {m \in SqlPart(s, SqlIndex(s)).nodes : m.label = label}}
KindRows(s, kind) == Links({r \in SqlPart(s, SqlIndex(s)).rels : r.kind = kind})
SqlRows(s, n) == IF n <= 5 THEN LabelRows(s, SqlLabels[n]) ELSE KindRows(s, SqlKinds[n - 5])
Lists(rows, wanted) == IsList(rows) /\ ToSet(rows) = wanted

LEMMA SqlOperationsListed ==
  ASSUME NEW s, IsSnapshot(s)
  PROVE  /\ DOMAIN SqlOperationsOf(s) = 1 .. 16 /\ Len(SqlOperationsOf(s)) = 16
         /\ \A n \in 1 .. 16 : Lists(SqlOperationsOf(s)[n], SqlRows(s, n))
<1> DEFINE part == SqlPart(s, SqlIndex(s))
           nodes(label) == {Row({n}, {}) : n \in {m \in part.nodes : m.label = label}}
           rels(kind) == Links({r \in part.rels : r.kind = kind})
           a == [n \in DOMAIN SqlLabels |-> SetToSeq(nodes(SqlLabels[n]))]
           b == [n \in DOMAIN SqlKinds |-> SetToSeq(rels(SqlKinds[n]))]
<1>1. SqlOperationsOf(s) = a \o b
  BY DEF SqlOperationsOf
<1>2. ASSUME NEW label PROVE Lists(SetToSeq(nodes(label)), LabelRows(s, label))
  <2> DEFINE S == {m \in part.nodes : m.label = label}
             h == [n \in S |-> Row({n}, {})]
  <2>1. {h[n] : n \in S} = nodes(label)
    <3> HIDE DEF part
    <3> QED
      OBVIOUS
  <2>2. IsFiniteSet(S)
    BY FiniteSqlPart, FinitePart
  <2> HIDE DEF h, S
  <2>3. IsFiniteSet(nodes(label)) /\ nodes(label) = LabelRows(s, label)
    BY <2>1, <2>2, FiniteImage DEF LabelRows
  <2> HIDE DEF nodes
  <2>4. SetToSeq(nodes(label)) \in Seq(nodes(label)) /\ ToSet(SetToSeq(nodes(label))) = nodes(label)
    BY <2>3, SetInOrder
  <2> QED
    BY <2>3, <2>4 DEF IsList, Lists
<1>3. ASSUME NEW kind PROVE Lists(SetToSeq(rels(kind)), KindRows(s, kind))
  <2>1. IsFiniteSet({r \in part.rels : r.kind = kind})
    BY FiniteSqlPart, FinitePart
  <2>2. IsFiniteSet(rels(kind)) /\ rels(kind) = KindRows(s, kind)
    BY <2>1, FiniteLinks DEF KindRows
  <2> HIDE DEF rels
  <2>3. SetToSeq(rels(kind)) \in Seq(rels(kind)) /\ ToSet(SetToSeq(rels(kind))) = rels(kind)
    BY <2>2, SetInOrder
  <2> QED
    BY <2>2, <2>3 DEF IsList, Lists
<1> HIDE DEF nodes, rels, part
<1>4. DOMAIN SqlLabels = 1 .. 5 /\ DOMAIN SqlKinds = 1 .. 11
  BY DEF SqlLabels, SqlKinds
<1>5. /\ a = [n \in 1 .. 5 |-> a[n]] /\ \A n \in 1 .. 5 : Lists(a[n], LabelRows(s, SqlLabels[n]))
      /\ b = [n \in 1 .. 11 |-> b[n]] /\ \A n \in 1 .. 11 : Lists(b[n], KindRows(s, SqlKinds[n]))
  BY <1>2, <1>3, <1>4
<1> HIDE DEF a, b
<1> DEFINE L == {a[n] : n \in 1 .. 5} \cup {b[n] : n \in 1 .. 11}
<1>6. a \in Seq(L) /\ b \in Seq(L) /\ Len(a) = 5 /\ Len(b) = 11
  <2>1. (\A n \in 1 .. 5 : a[n] \in L) /\ (\A n \in 1 .. 11 : b[n] \in L)
    OBVIOUS
  <2> HIDE DEF L
  <2> QED
    BY <1>5, <2>1
<1> HIDE DEF L
<1> DEFINE c == a \o b
<1>7. /\ c \in Seq(L) /\ Len(c) = Len(a) + Len(b)
      /\ \A i \in 1 .. Len(a) + Len(b) : c[i] = IF i <= Len(a) THEN a[i] ELSE b[i - Len(a)]
  BY <1>6, ConcatProperties, Zenon
<1> HIDE DEF c
<1>8. Len(c) = 16 /\ \A i \in 1 .. 16 : c[i] = IF i <= 5 THEN a[i] ELSE b[i - 5]
  BY <1>6, <1>7
<1>9. DOMAIN c = 1 .. 16
  <2>1. \A t : t \in Seq(L) => DOMAIN t = 1 .. Len(t)
    OBVIOUS
  <2> QED
    BY <1>7, <1>8, <2>1
<1>10. ASSUME NEW n \in 1 .. 16 PROVE Lists(c[n], SqlRows(s, n))
  <2>1. CASE n <= 5
    <3>1. n \in 1 .. 5 /\ c[n] = a[n] /\ SqlRows(s, n) = LabelRows(s, SqlLabels[n])
      BY <1>8, <2>1 DEF SqlRows
    <3> QED
      BY <1>5, <3>1
  <2>2. CASE ~(n <= 5)
    <3>1. n - 5 \in 1 .. 11 /\ c[n] = b[n - 5] /\ SqlRows(s, n) = KindRows(s, SqlKinds[n - 5])
      BY <1>8, <2>2 DEF SqlRows
    <3> QED
      BY <1>5, <3>1
  <2> QED
    BY <2>1, <2>2
<1>11. SqlOperationsOf(s) = c
  BY <1>1 DEF c
<1> QED
  BY <1>8, <1>9, <1>10, <1>11


(***************************************************************************)
(* What merging a batch keeps of a graph, and what it adds.                *)
(***************************************************************************)
GraphForm(g) == g = [nodes |-> g.nodes, rels |-> g.rels]
PairsOf(nodes) == {<<n.label, n.key>> : n \in nodes}
GrowsTo(g, h) == GraphForm(h) /\ PairsOf(g.nodes) \subseteq PairsOf(h.nodes)
(* The row is merged: MATCH finds every end of its relationships.            *)
Finds(g, row) == \A r \in row.rels : {r.start, r.end} \subseteq KeysOf(g) \cup KeysOf(row)
Holds(g, row) == PairsOf(row.nodes) \subseteq PairsOf(g.nodes)

LEMMA KeysKept ==
  ASSUME NEW g, NEW h, GrowsTo(g, h)
  PROVE  KeysOf(g) \subseteq KeysOf(h)
<1> SUFFICES ASSUME NEW n \in g.nodes PROVE n.key \in KeysOf(h)
  BY DEF KeysOf
<1>1. <<n.label, n.key>> \in PairsOf(g.nodes)
  BY DEF PairsOf
<1>2. <<n.label, n.key>> \in PairsOf(h.nodes)
  BY <1>1 DEF GrowsTo
<1>3. PICK m \in h.nodes : <<n.label, n.key>> = <<m.label, m.key>>
  BY <1>2 DEF PairsOf
<1>4. n.key = m.key
  BY <1>3
<1> QED
  BY <1>4 DEF KeysOf

LEMMA KeepsAgain ==
  ASSUME NEW g, NEW h, NEW k, GrowsTo(g, h), GrowsTo(h, k)
  PROVE  GrowsTo(g, k)
BY DEF GrowsTo

LEMMA FindsAgain ==
  ASSUME NEW g, NEW h, GrowsTo(g, h), NEW row, Finds(g, row)
  PROVE  Finds(h, row)
BY KeysKept DEF Finds

LEMMA HoldsAgain ==
  ASSUME NEW g, NEW h, GrowsTo(g, h), NEW row, Holds(g, row)
  PROVE  Holds(h, row)
BY DEF Holds, GrowsTo

LEMMA MergeKeeps ==
  ASSUME NEW g, GraphForm(g), NEW row
  PROVE  GrowsTo(g, Merge(g, row)) /\ (Finds(g, row) => Holds(Merge(g, row), row))
<1> DEFINE lost == \E r \in row.rels : {r.start, r.end} \ (KeysOf(g) \cup KeysOf(row)) # {}
           kept == {n \in g.nodes : \A m \in row.nodes : <<m.label, m.key>> # <<n.label, n.key>>}
<1>1. Finds(g, row) => ~lost
  BY DEF Finds
<1>2. CASE lost
  <2>1. Merge(g, row) = g
    BY <1>2 DEF Merge
  <2> QED
    BY <1>1, <1>2, <2>1 DEF GrowsTo
<1>3. CASE ~lost
  <2>1. Merge(g, row) = [nodes |-> kept \cup row.nodes, rels |-> g.rels \cup row.rels]
    BY <1>3 DEF Merge
  <2>2. GraphForm(Merge(g, row)) /\ Merge(g, row).nodes = kept \cup row.nodes
    BY <2>1 DEF GraphForm
  <2>3. ASSUME NEW n \in g.nodes PROVE <<n.label, n.key>> \in PairsOf(kept \cup row.nodes)
    <3>1. CASE n \in kept
      BY <3>1 DEF PairsOf
    <3>2. CASE n \notin kept
      <4>1. PICK m \in row.nodes : <<m.label, m.key>> = <<n.label, n.key>>
        BY <3>2
      <4>2. <<m.label, m.key>> \in PairsOf(kept \cup row.nodes)
        BY DEF PairsOf
      <4> QED
        BY <4>1, <4>2
    <3> QED
      BY <3>1, <3>2
  <2> HIDE DEF kept
  <2>4. PairsOf(g.nodes) \subseteq PairsOf(kept \cup row.nodes) /\ PairsOf(row.nodes) \subseteq PairsOf(kept \cup row.nodes)
    BY <2>3 DEF PairsOf
  <2> QED
    BY <2>2, <2>4 DEF GrowsTo, Holds
<1> QED
  BY <1>2, <1>3

LEMMA BatchKeeps ==
  ASSUME NEW g, GraphForm(g), NEW rows, NEW n \in Nat, DOMAIN rows = 1 .. n
  PROVE  /\ GrowsTo(g, MergeRows(g, rows))
         /\ \A k \in 1 .. n : Finds(g, rows[k]) => Holds(MergeRows(g, rows), rows[k])
<1>1. PICK f : MergeRun(f, n, g, rows)
  BY MergeRuns
<1> DEFINE V == {m \in Nat : m <= n => /\ GrowsTo(g, f[m])
                                       /\ \A k \in 1 .. m : Finds(g, rows[k]) => Holds(f[m], rows[k])}
<1>2. 0 \in V
  BY <1>1 DEF MergeRun, GrowsTo
<1>3. ASSUME NEW m \in Nat, m \in V PROVE m + 1 \in V
  <2> SUFFICES ASSUME m + 1 <= n
               PROVE  /\ GrowsTo(g, f[m + 1])
                      /\ \A k \in 1 .. m + 1 : Finds(g, rows[k]) => Holds(f[m + 1], rows[k])
    OBVIOUS
  <2>1. m + 1 \in 1 .. n /\ (m + 1) - 1 = m /\ m <= n
    OBVIOUS
  <2>2. GrowsTo(g, f[m]) /\ \A k \in 1 .. m : Finds(g, rows[k]) => Holds(f[m], rows[k])
    BY <1>3, <2>1
  <2> HIDE DEF V
  <2>3. f[m + 1] = Merge(f[m], rows[m + 1])
    BY <1>1, <2>1 DEF MergeRun
  <2>4. GraphForm(f[m])
    BY <2>2 DEF GrowsTo
  <2>5. GrowsTo(f[m], f[m + 1]) /\ (Finds(f[m], rows[m + 1]) => Holds(f[m + 1], rows[m + 1]))
    BY <2>3, <2>4, MergeKeeps
  <2>6. GrowsTo(g, f[m + 1])
    BY <2>2, <2>5, KeepsAgain
  <2>7. ASSUME NEW k \in 1 .. m + 1, Finds(g, rows[k]) PROVE Holds(f[m + 1], rows[k])
    <3>1. CASE k = m + 1
      BY <2>2, <2>5, <2>7, <3>1, FindsAgain
    <3>2. CASE k # m + 1
      <4>1. k \in 1 .. m
        BY <3>2
      <4> QED
        BY <2>2, <2>5, <2>7, <4>1, HoldsAgain
    <3> QED
      BY <3>1, <3>2
  <2> QED
    BY <2>6, <2>7
<1> HIDE DEF V
<1>4. n \in V
  BY <1>2, <1>3, Induction
<1> QED
  BY <1>1, <1>4 DEF V, MergeRun

(* Clearing the resolutions or the SQL leaves the callables alone.           *)
CallablePairs(g) == {p \in PairsOf(g.nodes) : p[1] \in {"Function", "Method"}}

LEMMA CallablesAre ==
  ASSUME NEW g
  PROVE  CallablesOf(g) = {p[2] : p \in CallablePairs(g)}
<1>1. ASSUME NEW key \in CallablesOf(g) PROVE key \in {p[2] : p \in CallablePairs(g)}
  <2>1. PICK n \in g.nodes : IsCallable(n) /\ key = n.key
    BY DEF CallablesOf
  <2>2. <<n.label, n.key>> \in CallablePairs(g)
    BY <2>1 DEF CallablePairs, PairsOf, IsCallable
  <2> QED
    BY <2>1, <2>2
<1>2. ASSUME NEW p \in CallablePairs(g) PROVE p[2] \in CallablesOf(g)
  <2>1. PICK n \in g.nodes : p = <<n.label, n.key>>
    BY DEF CallablePairs, PairsOf
  <2>2. n.label \in {"Function", "Method"} /\ p[2] = n.key
    BY <2>1 DEF CallablePairs
  <2> QED
    BY <2>2 DEF CallablesOf, IsCallable
<1> QED
  BY <1>1, <1>2

LEMMA CallablesKept ==
  ASSUME NEW g, NEW h, CallablePairs(g) \subseteq CallablePairs(h)
  PROVE  CallablesOf(g) \subseteq CallablesOf(h)
BY CallablesAre

LEMMA ClearedKeeps ==
  ASSUME NEW g, GraphForm(g)
  PROVE  GrowsTo(g, WithoutDerived(g))
<1>1. WithoutDerived(g) = [nodes |-> g.nodes, rels |-> {r \in g.rels : r.kind \notin Derived}]
  BY DEF WithoutDerived, GraphForm
<1> QED
  BY <1>1 DEF GrowsTo, GraphForm

LEMMA WithoutSqlKeeps ==
  ASSUME NEW g, GraphForm(g)
  PROVE  GraphForm(WithoutSql(g)) /\ CallablePairs(g) \subseteq CallablePairs(WithoutSql(g))
<1> DEFINE gone == SqlOf(g).nodes
           h == WithoutSql(g)
<1>1. h = [nodes |-> g.nodes \ gone, rels |-> g.rels \ SqlOf(g).rels]
  BY DEF WithoutSql
<1>2. gone = {n \in g.nodes : n.label \in ToSet(SqlLabels)}
  BY DEF SqlOf
<1>3. "Function" \notin ToSet(SqlLabels) /\ "Method" \notin ToSet(SqlLabels)
  BY DEF SqlLabels, ToSet
<1> HIDE DEF gone, h
<1>4. GraphForm(h) /\ h.nodes = g.nodes \ gone
  BY <1>1 DEF GraphForm
<1>5. ASSUME NEW p \in CallablePairs(g) PROVE p \in CallablePairs(h)
  <2>1. PICK n \in g.nodes : p = <<n.label, n.key>>
    BY DEF CallablePairs, PairsOf
  <2>2. n.label \in {"Function", "Method"} /\ p[1] = n.label
    BY <2>1 DEF CallablePairs
  <2>3. n \in h.nodes
    BY <1>2, <1>3, <1>4, <2>2
  <2> QED
    BY <2>1, <2>2, <2>3 DEF CallablePairs, PairsOf
<1> QED
  BY <1>4, <1>5 DEF h

(***************************************************************************)
(* Whatever is loaded of the snapshot so far is in the graph, and the      *)
(* lexical index has callables of the graph only.                          *)
(***************************************************************************)
Loads == {"index.load", "index.write"}
Writes == Loads \cup {"index.sql"}
Begun == {"index.docs", "index.delete", "index.repository", "index.validate"} \cup Writes
RequestFields == {"tool", "repository", "graph", "docs", "source", "replace", "times", "status"}
RequestForm ==
  /\ DOMAIN request = RequestFields /\ request.tool = "index"
  /\ request.graph = [c \in Commits |-> request.graph[c]]
  /\ \A c \in Commits : GraphForm(request.graph[c])
ProgressForm ==
  /\ progress = Idle \/ progress.pc \in Begun
  /\ progress.pc \in Begun => request.source \in Sources
  /\ progress.pc \in {"index.docs", "index.delete", "index.repository", "index.validate"} =>
       progress = [pc |-> progress.pc, replaced |-> progress.replaced]
  /\ progress.pc \in Writes =>
       /\ progress = [pc |-> progress.pc, replaced |-> progress.replaced, operation |-> progress.operation,
                      rows |-> progress.rows, operations |-> progress.operations]
       /\ progress.operation \in Nat \ {0} /\ progress.rows \in Nat
OperationsForm ==
  /\ progress.pc \in Loads => progress.operations = OperationsOf(request.source.snapshot)
  /\ progress.pc = "index.sql" => progress.operations = SqlOperationsOf(request.source.snapshot)

(* The row k of operation n has been written.                                *)
Reached(n, k) == n < progress.operation \/ (n = progress.operation /\ k <= progress.rows)
RowsLoaded ==
  progress.pc \in Loads =>
    \A n \in {1, 5, 6} : \A k \in DOMAIN progress.operations[n] :
      Reached(n, k) => Holds(Loaded, progress.operations[n][k])
HitsComing ==
  progress.pc \in {"index.sql", "index.validate"} =>
    Expected(request.source) \subseteq Docs(request.source.commit, CallablesOf(Loaded))
HitsLive ==
  /\ request.docs \subseteq LiveKeys(request.graph)
  /\ progress.pc = "index.delete" => request.docs = {}
IndexInv == RequestForm /\ ProgressForm /\ OperationsForm /\ RowsLoaded /\ HitsComing /\ HitsLive

LEMMA IndexStarts == IndexInit => IndexInv
<1> SUFFICES ASSUME IndexInit PROVE IndexInv
  OBVIOUS
<1> DEFINE empty == [c \in Commits |-> Nothing]
<1>1. request = [tool |-> "index", repository |-> None, graph |-> empty, docs |-> {}, source |-> None,
                 replace |-> FALSE, times |-> 0, status |-> "new"]
      /\ progress = Idle
  BY DEF IndexInit
<1>2. empty = [c \in Commits |-> empty[c]] /\ \A c \in Commits : GraphForm(empty[c])
  BY DEF GraphForm, Nothing
<1> HIDE DEF empty
<1>3. RequestForm
  BY <1>1, <1>2 DEF RequestForm, RequestFields
<1>4. progress.pc = "idle"
  BY <1>1 DEF Idle
<1>5. ProgressForm /\ OperationsForm /\ RowsLoaded /\ HitsComing /\ HitsLive
  BY <1>1, <1>4 DEF ProgressForm, OperationsForm, RowsLoaded, HitsComing, HitsLive, Begun, Writes, Loads
<1> QED
  BY <1>3, <1>5 DEF IndexInv

(* A step between the stores' transactions: the graph and its descriptions
   stay, or both are emptied in this order.                                  *)
LEMMA BeginIndexStep ==
  ASSUME IndexInv, BeginIndex
  PROVE  IndexInv'
<1>1. PICK source \in Sources, replace \in BOOLEAN :
        /\ request' = [request EXCEPT !.source = source, !.replace = replace, !.times = @ + 1, !.status = "indexing"]
        /\ progress' = [pc |-> IF replace THEN "index.docs" ELSE "index.repository",
                        replaced |-> IF replace THEN LiveKeys(request.graph) ELSE {}]
  BY DEF BeginIndex
<1>2. /\ DOMAIN request' = RequestFields /\ request'.tool = "index" /\ request'.graph = request.graph
      /\ request'.docs = request.docs /\ request'.source = source
      /\ request.graph = [c \in Commits |-> request.graph[c]]
      /\ \A c \in Commits : GraphForm(request.graph[c])
  BY <1>1 DEF IndexInv, RequestForm, RequestFields
<1>3. RequestForm'
  BY <1>2 DEF RequestForm
<1>4. progress'.pc \in {"index.docs", "index.repository"} /\ progress' = [pc |-> progress'.pc, replaced |-> progress'.replaced]
  BY <1>1
<1>5. ProgressForm'
  BY <1>2, <1>4 DEF ProgressForm, Begun, Writes, Loads
<1>6. (OperationsForm /\ RowsLoaded /\ HitsComing)'
  BY <1>4 DEF OperationsForm, RowsLoaded, HitsComing, Writes, Loads
<1>7. HitsLive'
  BY <1>2, <1>4 DEF IndexInv, HitsLive
<1> QED
  BY <1>3, <1>5, <1>6, <1>7 DEF IndexInv

LEMMA DeleteDocsStep ==
  ASSUME IndexInv, DeleteDocs
  PROVE  IndexInv'
<1>1. progress.pc = "index.docs" /\ request' = [request EXCEPT !.docs = {}]
      /\ progress' = [progress EXCEPT !.pc = "index.delete"]
  BY DEF DeleteDocs, DropDocs
<1>2. /\ DOMAIN request' = RequestFields /\ request'.tool = "index" /\ request'.graph = request.graph
      /\ request'.docs = {} /\ request'.source = request.source
      /\ request.graph = [c \in Commits |-> request.graph[c]]
      /\ \A c \in Commits : GraphForm(request.graph[c])
  BY <1>1 DEF IndexInv, RequestForm, RequestFields
<1>3. RequestForm'
  BY <1>2 DEF RequestForm
<1>4. progress' = [pc |-> "index.delete", replaced |-> progress.replaced] /\ request.source \in Sources
  BY <1>1 DEF IndexInv, ProgressForm, Begun, Writes, Loads, Idle
<1>5. ProgressForm'
  BY <1>2, <1>4 DEF ProgressForm, Begun, Writes, Loads
<1>6. (OperationsForm /\ RowsLoaded /\ HitsComing)'
  BY <1>4 DEF OperationsForm, RowsLoaded, HitsComing, Writes, Loads
<1>7. HitsLive'
  BY <1>2, <1>4 DEF HitsLive
<1> QED
  BY <1>3, <1>5, <1>6, <1>7 DEF IndexInv

LEMMA DeleteGraphStep ==
  ASSUME IndexInv, DeleteGraph
  PROVE  IndexInv'
<1> DEFINE empty == [c \in Commits |-> Nothing]
<1>1. progress.pc = "index.delete" /\ progress' = [progress EXCEPT !.pc = "index.repository"]
      /\ request' = IF request.repository = None THEN request
                    ELSE [request EXCEPT !.repository = None, !.graph = empty]
  BY DEF DeleteGraph
<1>2. empty = [c \in Commits |-> empty[c]] /\ \A c \in Commits : GraphForm(empty[c])
  BY DEF GraphForm, Nothing
<1>3. request.docs = {} /\ request.source \in Sources /\ RequestForm
      /\ progress' = [pc |-> "index.repository", replaced |-> progress.replaced]
  BY <1>1 DEF IndexInv, HitsLive, ProgressForm, Begun, Writes, Loads, Idle
<1> HIDE DEF empty
<1>4. RequestForm' /\ request'.docs = {} /\ request'.source = request.source
  <2>1. CASE request.repository = None
    BY <1>1, <1>3, <2>1 DEF RequestForm
  <2>2. CASE request.repository # None
    <3>1. /\ DOMAIN request' = RequestFields /\ request'.tool = "index" /\ request'.graph = empty
      /\ request'.docs = request.docs /\ request'.source = request.source
      BY <1>1, <1>3, <2>2 DEF RequestForm, RequestFields
    <3> QED
      BY <1>2, <1>3, <3>1 DEF RequestForm
  <2> QED
    BY <2>1, <2>2
<1>5. ProgressForm'
  BY <1>3, <1>4 DEF ProgressForm, Begun, Writes, Loads
<1>6. (OperationsForm /\ RowsLoaded /\ HitsComing)'
  BY <1>3 DEF OperationsForm, RowsLoaded, HitsComing, Writes, Loads
<1>7. HitsLive'
  BY <1>3, <1>4 DEF HitsLive
<1> QED
  BY <1>4, <1>5, <1>6, <1>7 DEF IndexInv

LEMMA MergeRepositoryStep ==
  ASSUME IndexInv, MergeRepository
  PROVE  IndexInv'
<1>1. progress.pc = "index.repository" /\ request' = [request EXCEPT !.repository = request.source.commit]
      /\ progress' = [pc |-> "index.load", replaced |-> progress.replaced, operation |-> 1, rows |-> 0,
                      operations |-> OperationsOf(request.source.snapshot)]
  BY DEF MergeRepository
<1>2. /\ DOMAIN request' = RequestFields /\ request'.tool = "index" /\ request'.graph = request.graph
      /\ request'.docs = request.docs /\ request'.source = request.source
      /\ request.graph = [c \in Commits |-> request.graph[c]]
      /\ \A c \in Commits : GraphForm(request.graph[c])
  BY <1>1 DEF IndexInv, RequestForm, RequestFields
<1>3. RequestForm'
  BY <1>2 DEF RequestForm
<1>4. request.source \in Sources
  BY <1>1 DEF IndexInv, ProgressForm, Begun, Writes, Loads
<1>5. ProgressForm'
  <2>1. progress'.pc \in Begun /\ progress'.pc \in Writes /\ request'.source \in Sources
        /\ progress'.pc \notin {"index.docs", "index.delete", "index.repository", "index.validate"}
    BY <1>1, <1>2, <1>4 DEF Begun, Writes, Loads
  <2>2. progress'.operation = 1 /\ progress'.rows = 0
        /\ progress' = [pc |-> progress'.pc, replaced |-> progress'.replaced, operation |-> progress'.operation,
                        rows |-> progress'.rows, operations |-> progress'.operations]
    BY <1>1
  <2> QED
    BY <2>1, <2>2 DEF ProgressForm
<1>6. OperationsForm'
  BY <1>1, <1>2 DEF OperationsForm
<1>7. RowsLoaded'
  <2>1. DOMAIN OperationsOf(request.source.snapshot) = 1 .. 16
        /\ \A n \in 1 .. 16 : IsList(OperationsOf(request.source.snapshot)[n])
    BY <1>4, IndexAssumption, OperationsListed DEF IsSnapshot
  <2> SUFFICES ASSUME NEW n \in {1, 5, 6}, NEW k \in DOMAIN progress'.operations[n]
               PROVE  ~Reached(n, k)'
    BY DEF RowsLoaded
  <2>2. n \in 1 .. 16 /\ ~(n < 1)
    OBVIOUS
  <2>3. IsList(progress'.operations[n])
    BY <1>1, <2>1, <2>2
  <2>4. k \in Nat /\ ~(k <= 0)
    BY <2>3 DEF IsList
  <2>5. progress'.operation = 1 /\ progress'.rows = 0
    BY <1>1
  <2> QED
    BY <2>2, <2>4, <2>5 DEF Reached
<1>8. (HitsComing /\ HitsLive)'
  BY <1>1, <1>2 DEF IndexInv, HitsComing, HitsLive
<1> QED
  BY <1>3, <1>5, <1>6, <1>7, <1>8 DEF IndexInv

(* A transaction on the graph of the commit that is indexed.                 *)
LEMMA LoadSteps ==
  ASSUME RequestForm, request.source \in Sources, NEW g, GraphForm(g), Load(g),
         CallablePairs(Loaded) \subseteq CallablePairs(g)
  PROVE  /\ RequestForm' /\ request'.docs = request.docs /\ request'.source = request.source
         /\ request'.graph[request'.source.commit] = g
         /\ LiveKeys(request.graph) \subseteq LiveKeys(request'.graph)
<1> DEFINE commit == request.source.commit
           G == request.graph
           H == [G EXCEPT ![commit] = g]
<1>1. commit \in Commits
  BY DEF Commits
<1>2. G = [c \in Commits |-> G[c]] /\ \A c \in Commits : GraphForm(G[c])
  BY DEF RequestForm
<1>3. request' = [request EXCEPT !.graph = H]
  BY DEF Load
<1>4. H = [c \in Commits |-> IF c = commit THEN g ELSE G[c]]
  <2> HIDE DEF commit, G
  <2> QED
    BY <1>1, <1>2
<1>5. DOMAIN request' = RequestFields /\ request'.tool = "index" /\ request'.graph = H
      /\ request'.docs = request.docs /\ request'.source = request.source
  <2> HIDE DEF H, G, commit
  <2> QED
    BY <1>3 DEF RequestForm, RequestFields
<1> HIDE DEF H, G, commit
<1>6. H = [c \in Commits |-> H[c]] /\ H[commit] = g /\ \A c \in Commits : GraphForm(H[c])
  BY <1>1, <1>2, <1>4
<1>7. ASSUME NEW c \in Commits PROVE CallablesOf(G[c]) \subseteq CallablesOf(H[c])
  <2>1. CASE c = commit
    <3>1. CallablePairs(G[commit]) \subseteq CallablePairs(H[commit])
      BY <1>6 DEF G, commit, Loaded
    <3> QED
      BY <2>1, <3>1, CallablesKept
  <2>2. CASE c # commit
    BY <1>4, <2>2
  <2> QED
    BY <2>1, <2>2
<1>8. LiveKeys(G) \subseteq LiveKeys(H)
  BY <1>7 DEF LiveKeys, Docs
<1> QED
  BY <1>5, <1>6, <1>8 DEF RequestForm, G, commit

LEMMA ClearResolutionsStep ==
  ASSUME IndexInv, ClearResolutions
  PROVE  IndexInv'
<1> DEFINE g == ClearDerived(Loaded)
<1>1. progress.pc = "index.load" /\ progress.operation = Clear /\ Load(g)
      /\ progress' = [progress EXCEPT !.pc = "index.write"]
  BY DEF ClearResolutions
<1>2. RequestForm /\ request.source \in Sources /\ GraphForm(Loaded)
  <2>1. RequestForm /\ request.source \in Sources
    BY <1>1 DEF IndexInv, ProgressForm, Begun, Writes, Loads
  <2>2. request.source.commit \in Commits
    BY <2>1 DEF Commits
  <2> QED
    BY <2>1, <2>2 DEF RequestForm, Loaded
<1>3. GrowsTo(Loaded, g)
  BY <1>2, ClearedKeeps DEF ClearDerived
<1> HIDE DEF g
<1>4. GraphForm(g) /\ CallablePairs(Loaded) \subseteq CallablePairs(g)
  BY <1>3 DEF GrowsTo, CallablePairs
<1>5. /\ RequestForm' /\ request'.docs = request.docs /\ request'.source = request.source
      /\ request'.graph[request'.source.commit] = g
      /\ LiveKeys(request.graph) \subseteq LiveKeys(request'.graph)
  BY <1>1, <1>2, <1>4, LoadSteps
<1>6. Loaded' = g
  BY <1>5 DEF Loaded
<1>7. progress = [pc |-> progress.pc, replaced |-> progress.replaced, operation |-> progress.operation,
                  rows |-> progress.rows, operations |-> progress.operations]
      /\ progress.operation \in Nat \ {0} /\ progress.rows \in Nat
  BY <1>1 DEF IndexInv, ProgressForm, Writes, Loads
<1>8. progress' = [pc |-> "index.write", replaced |-> progress.replaced, operation |-> progress.operation,
                   rows |-> progress.rows, operations |-> progress.operations]
  BY <1>1, <1>7
<1>9. ProgressForm'
  BY <1>2, <1>5, <1>7, <1>8 DEF ProgressForm, Begun, Writes, Loads
<1>10. OperationsForm'
  BY <1>1, <1>5, <1>8 DEF IndexInv, OperationsForm, Loads
<1>11. RowsLoaded'
  <2> SUFFICES ASSUME NEW n \in {1, 5, 6}, NEW k \in DOMAIN progress'.operations[n], Reached(n, k)'
               PROVE  Holds(Loaded', progress'.operations[n][k])
    BY DEF RowsLoaded
  <2>1. progress'.operations = progress.operations /\ progress'.operation = progress.operation
        /\ progress'.rows = progress.rows
    BY <1>8
  <2>2. k \in DOMAIN progress.operations[n] /\ Reached(n, k)
    BY <2>1 DEF Reached
  <2>3. Holds(Loaded, progress.operations[n][k])
    BY <1>1, <2>2 DEF IndexInv, RowsLoaded, Loads
  <2> QED
    BY <1>3, <1>6, <2>1, <2>3, HoldsAgain
<1>12. (HitsComing /\ HitsLive)'
  BY <1>5, <1>8 DEF IndexInv, HitsComing, HitsLive
<1> QED
  BY <1>5, <1>9, <1>10, <1>11, <1>12 DEF IndexInv

(* When all operations are done, every callable of the snapshot is in the
   graph.                                                                    *)
LEMMA CallablesLoaded ==
  ASSUME IndexInv, progress.pc \in Loads, progress.operation > 16
  PROVE  Expected(request.source) \subseteq Docs(request.source.commit, CallablesOf(Loaded))
<1> DEFINE s == request.source.snapshot
           ops == progress.operations
<1>1. request.source \in Sources /\ progress.operation \in Nat /\ ops = OperationsOf(s)
  BY DEF IndexInv, ProgressForm, OperationsForm, Begun, Writes
<1>2. IsSnapshot(s)
  BY <1>1, IndexAssumption DEF IsSnapshot
<1>3. \A n \in 1 .. 16 : /\ IsList(ops[n])
                         /\ ToSet(ops[n]) = Operations(s, InMemoryIndex(s), CallsIn(s))[n]
  BY <1>1, <1>2, OperationsListed
<1>4. ToSet(ops[5]) = Symbols(s, "Function") /\ ToSet(ops[6]) = Symbols(s, "Method")
  <2>1. Operations(s, InMemoryIndex(s), CallsIn(s))[5] = Symbols(s, "Function")
        /\ Operations(s, InMemoryIndex(s), CallsIn(s))[6] = Symbols(s, "Method")
    BY DEF Operations
  <2> QED
    BY <1>3, <2>1
<1> HIDE DEF ops
<1>5. ASSUME NEW n \in {5, 6}, NEW row \in ToSet(ops[n]) PROVE Holds(Loaded, row)
  <2>1. PICK k \in DOMAIN ops[n] : row = ops[n][k]
    BY DEF ToSet
  <2>2. n < progress.operation
    BY <1>1
  <2>3. Reached(n, k)
    BY <2>2 DEF Reached
  <2> QED
    BY <2>1, <2>3 DEF IndexInv, RowsLoaded, ops
<1>6. ASSUME NEW f \in ToSet(s), NEW y \in f.symbols, y.kind # "type"
      PROVE  Ref(f, y).key \in CallablesOf(Loaded)
  <2> DEFINE key == Ref(f, y).key
             label == Label(y)
  <2>1. label \in {"Function", "Method"}
    BY <1>6 DEF Label
  <2>2. SymbolRow(f, y) \in Symbols(s, label)
    BY DEF Symbols
  <2>3. SymbolRow(f, y) \in ToSet(ops[5]) \cup ToSet(ops[6])
    BY <1>4, <2>1, <2>2
  <2>4. Holds(Loaded, SymbolRow(f, y))
    BY <1>5, <2>3
  <2>5. SymbolRow(f, y).nodes = {[label |-> label, key |-> key, of |-> Plain]}
    BY DEF SymbolRow, SymbolNode, Row, Node
  <2>6. <<label, key>> \in PairsOf(SymbolRow(f, y).nodes)
    BY <2>5 DEF PairsOf
  <2> HIDE DEF key, label
  <2>7. PICK m \in Loaded.nodes : <<label, key>> = <<m.label, m.key>>
    BY <2>4, <2>6 DEF Holds, PairsOf
  <2>8. m.label = label /\ m.key = key
    BY <2>7
  <2>9. key \in CallablesOf(Loaded)
    BY <2>1, <2>8 DEF CallablesOf, IsCallable
  <2> QED
    BY <2>9 DEF key
<1>7. ASSUME NEW r \in Refs(s), r.kind # "type" PROVE r.key \in CallablesOf(Loaded)
  <2>1. PICK f \in ToSet(s) : \E y \in f.symbols : r = Ref(f, y)
    BY DEF Refs
  <2>2. PICK y \in f.symbols : r = Ref(f, y)
    BY <2>1
  <2>3. y.kind # "type"
    BY <1>7, <2>2 DEF Ref
  <2> QED
    BY <1>6, <2>2, <2>3
<1>8. {r.key : r \in {y \in Refs(s) : y.kind # "type"}} \subseteq CallablesOf(Loaded)
  BY <1>7
<1> QED
  BY <1>8 DEF Expected, Docs

LEMMA ClearSqlStep ==
  ASSUME IndexInv, ClearSql
  PROVE  IndexInv'
<1> DEFINE g == WithoutSql(Loaded)
<1>1. progress.pc = "index.write" /\ progress.operation > Len(progress.operations) /\ Load(g)
      /\ progress' = [pc |-> "index.sql", replaced |-> progress.replaced, operation |-> 1, rows |-> 0,
                      operations |-> SqlOperationsOf(request.source.snapshot)]
  BY DEF ClearSql
<1>2. RequestForm /\ request.source \in Sources /\ GraphForm(Loaded)
  <2>1. RequestForm /\ request.source \in Sources
    BY <1>1 DEF IndexInv, ProgressForm, Begun, Writes, Loads
  <2>2. request.source.commit \in Commits
    BY <2>1 DEF Commits
  <2> QED
    BY <2>1, <2>2 DEF RequestForm, Loaded
<1>3. progress.operation > 16
  <2>1. Len(OperationsOf(request.source.snapshot)) = 16
    BY <1>2, IndexAssumption, OperationsListed DEF IsSnapshot
  <2>2. progress.operations = OperationsOf(request.source.snapshot)
    BY <1>1 DEF IndexInv, OperationsForm, Loads
  <2> QED
    BY <1>1, <2>1, <2>2
<1>4. Expected(request.source) \subseteq Docs(request.source.commit, CallablesOf(Loaded))
  BY <1>1, <1>3, CallablesLoaded DEF Loads
<1>5. GraphForm(g) /\ CallablePairs(Loaded) \subseteq CallablePairs(g)
  BY <1>2, WithoutSqlKeeps
<1> HIDE DEF g
<1>6. CallablesOf(Loaded) \subseteq CallablesOf(g)
  BY <1>5, CallablesKept
<1>7. /\ RequestForm' /\ request'.docs = request.docs /\ request'.source = request.source
      /\ request'.graph[request'.source.commit] = g
      /\ LiveKeys(request.graph) \subseteq LiveKeys(request'.graph)
  BY <1>1, <1>2, <1>5, LoadSteps
<1>8. Loaded' = g
  BY <1>7 DEF Loaded
<1>9. ProgressForm'
  <2>1. progress'.pc \in Begun /\ progress'.pc \in Writes /\ request'.source \in Sources
        /\ progress'.pc \notin {"index.docs", "index.delete", "index.repository", "index.validate"}
    BY <1>1, <1>2, <1>7 DEF Begun, Writes, Loads
  <2>2. progress'.operation = 1 /\ progress'.rows = 0
        /\ progress' = [pc |-> progress'.pc, replaced |-> progress'.replaced, operation |-> progress'.operation,
                        rows |-> progress'.rows, operations |-> progress'.operations]
    BY <1>1
  <2> QED
    BY <2>1, <2>2 DEF ProgressForm
<1>10. (OperationsForm /\ RowsLoaded)'
  BY <1>1, <1>7 DEF OperationsForm, RowsLoaded, Loads
<1>11. HitsComing'
  <2>1. Expected(request'.source) \subseteq Docs(request'.source.commit, CallablesOf(Loaded'))
    BY <1>4, <1>6, <1>7, <1>8 DEF Docs
  <2> QED
    BY <2>1 DEF HitsComing
<1>12. HitsLive'
  BY <1>1, <1>7 DEF IndexInv, HitsLive
<1> QED
  BY <1>7, <1>9, <1>10, <1>11, <1>12 DEF IndexInv

(* The batch at a place of a list.                                           *)
LEMMA BatchAt ==
  ASSUME NEW rows, IsList(rows), NEW offset \in Nat
  PROVE  \E m \in Nat : /\ DOMAIN Window(rows, offset, BatchRows) = 1 .. m
                        /\ \A j \in 1 .. m : Window(rows, offset, BatchRows)[j] = rows[offset + j]
                        /\ \A k \in 1 .. Len(rows) : k > offset /\ k <= offset + BatchRows => k - offset \in 1 .. m
<1> DEFINE end == IF Len(rows) < offset + BatchRows THEN Len(rows) ELSE offset + BatchRows
           m == IF end > offset THEN end - offset ELSE 0
           batch == Window(rows, offset, BatchRows)
           T == ToSet(rows)
<1>1. rows \in Seq(T) /\ Len(rows) \in Nat /\ BatchRows \in Nat \ {0}
  BY IndexAssumption DEF IsList
<1>2. batch = SubSeq(rows, offset + 1, end)
  BY <1>1 DEF Window
<1> HIDE DEF T
<1>3. end \in Nat /\ m \in Nat /\ end <= Len(rows)
  BY <1>1
<1>4. DOMAIN batch = 1 .. m /\ \A j \in 1 .. m : batch[j] = rows[offset + j]
  <2>1. CASE end > offset
    <3>1. offset + 1 \in 1 .. Len(rows) + 1 /\ end \in offset + 1 .. Len(rows)
      BY <1>3, <2>1
    <3> HIDE DEF end, batch
    <3>2. batch \in Seq(T) /\ Len(batch) = end - offset /\ \A j \in 1 .. end - offset : batch[j] = rows[offset + j]
      BY <1>1, <1>2, <1>3, <3>1
    <3> QED
      BY <2>1, <3>2
  <2>2. CASE ~(end > offset)
    <3> HIDE DEF end, batch
    <3>1. end <= offset
      BY <1>3, <2>2
    <3>2. batch = <<>>
      BY <1>1, <1>2, <1>3, <3>1
    <3> QED
      BY <2>2, <3>2
  <2> QED
    BY <2>1, <2>2
<1>5. \A k \in 1 .. Len(rows) : k > offset /\ k <= offset + BatchRows => k - offset \in 1 .. m
  BY <1>1
<1> QED
  BY <1>3, <1>4, <1>5

(* A row of a file or of a callable finds what it hangs on: the repository,
   or the node of its file, which an earlier operation has written.          *)
LEMMA RowFound ==
  ASSUME IndexInv, progress.pc \in Loads, progress.operation \in {1, 5, 6},
         NEW row \in ToSet(progress.operations[progress.operation])
  PROVE  Finds(Loaded, row)
<1> DEFINE s == request.source.snapshot
           ops == progress.operations
<1>1. request.source \in Sources /\ ops = OperationsOf(s)
  BY DEF IndexInv, ProgressForm, OperationsForm, Begun, Writes
<1>2. IsSnapshot(s)
  BY <1>1, IndexAssumption DEF IsSnapshot
<1>3. /\ ToSet(ops[1]) = {FileRow(f) : f \in ToSet(s)}
      /\ ToSet(ops[5]) = Symbols(s, "Function") /\ ToSet(ops[6]) = Symbols(s, "Method")
  <2>1. /\ Operations(s, InMemoryIndex(s), CallsIn(s))[1] = {FileRow(f) : f \in ToSet(s)}
        /\ Operations(s, InMemoryIndex(s), CallsIn(s))[5] = Symbols(s, "Function")
        /\ Operations(s, InMemoryIndex(s), CallsIn(s))[6] = Symbols(s, "Method")
    BY DEF Operations
  <2> QED
    BY <1>1, <1>2, <2>1, OperationsListed
<1> HIDE DEF ops
<1>4. CASE progress.operation = 1
  <2>1. PICK f \in ToSet(s) : row = FileRow(f)
    BY <1>3, <1>4 DEF ops
  <2>2. row.nodes = {Node("File", FileKey(f), Plain), Node("Module", ModuleKey(f.module), Plain)}
        /\ row.rels = {Rel("CONTAINS", RepositoryKey, FileKey(f), Plain),
                       Rel("DEFINES", FileKey(f), ModuleKey(f.module), Plain)}
    BY <2>1 DEF FileRow, Row
  <2>3. FileKey(f) \in KeysOf(row) /\ ModuleKey(f.module) \in KeysOf(row) /\ RepositoryKey \in KeysOf(Loaded)
    BY <2>2 DEF KeysOf, Node
  <2> QED
    BY <2>2, <2>3 DEF Finds, Rel
<1>5. CASE progress.operation \in {5, 6}
  <2>1. PICK label \in {"Function", "Method"} : row \in Symbols(s, label)
    BY <1>3, <1>5 DEF ops
  <2>2. PICK f \in ToSet(s) : \E y \in f.symbols : row = SymbolRow(f, y)
    BY <2>1 DEF Symbols
  <2>3. PICK y \in f.symbols : row = SymbolRow(f, y)
    BY <2>2
  <2>4. row.rels = {Rel("CONTAINS", FileKey(f), Ref(f, y).key, Plain)} /\ row.nodes = {Node(Label(y), Ref(f, y).key, Plain)}
    BY <2>3 DEF SymbolRow, SymbolNode, Row
  <2>5. Ref(f, y).key \in KeysOf(row)
    BY <2>4 DEF KeysOf, Node
  <2>6. FileKey(f) \in KeysOf(Loaded)
    <3>1. FileRow(f) \in ToSet(ops[1])
      BY <1>3
    <3>2. PICK k \in DOMAIN ops[1] : FileRow(f) = ops[1][k]
      BY <3>1 DEF ToSet
    <3>3. Reached(1, k)
      BY <1>5 DEF Reached
    <3>4. Holds(Loaded, FileRow(f))
      BY <3>2, <3>3 DEF IndexInv, RowsLoaded, ops
    <3>5. [label |-> "File", key |-> FileKey(f), of |-> Plain] \in FileRow(f).nodes
      BY DEF FileRow, Row, Node
    <3>6. <<"File", FileKey(f)>> \in PairsOf(FileRow(f).nodes)
      BY <3>5 DEF PairsOf
    <3>7. PICK n \in Loaded.nodes : <<"File", FileKey(f)>> = <<n.label, n.key>>
      BY <3>4, <3>6 DEF Holds, PairsOf
    <3>8. n.key = FileKey(f)
      BY <3>7
    <3> QED
      BY <3>8 DEF KeysOf
  <2> QED
    BY <2>4, <2>5, <2>6 DEF Finds, Rel
<1> QED
  BY <1>4, <1>5

LEMMA WriteBatchStep ==
  ASSUME IndexInv, WriteBatch
  PROVE  IndexInv'
<1> DEFINE rows == progress.operations[progress.operation]
           batch == Window(rows, progress.rows, BatchRows)
           done == progress.rows + BatchRows >= Len(rows)
           g == MergeRows(Loaded, batch)
<1>1. /\ progress.pc \in Writes /\ progress.operation <= Len(progress.operations)
      /\ progress.pc = "index.load" => progress.operation < Clear
      /\ Load(g)
      /\ progress' = [progress EXCEPT !.operation = IF done THEN @ + 1 ELSE @,
                                      !.rows = IF done THEN 0 ELSE @ + BatchRows]
  BY DEF WriteBatch, Writes, Loads
<1>2. RequestForm /\ request.source \in Sources /\ GraphForm(Loaded)
  <2>1. RequestForm /\ request.source \in Sources
    BY <1>1 DEF IndexInv, ProgressForm, Begun, Writes, Loads
  <2>2. request.source.commit \in Commits
    BY <2>1 DEF Commits
  <2> QED
    BY <2>1, <2>2 DEF RequestForm, Loaded
<1>3. progress = [pc |-> progress.pc, replaced |-> progress.replaced, operation |-> progress.operation,
                  rows |-> progress.rows, operations |-> progress.operations]
      /\ progress.operation \in Nat \ {0} /\ progress.rows \in Nat
  BY <1>1 DEF IndexInv, ProgressForm, Writes, Loads
<1>4. IsSnapshot(request.source.snapshot)
  BY <1>2, IndexAssumption DEF IsSnapshot
<1>5. IsList(rows)
  <2>1. CASE progress.pc \in Loads
    <3>1. progress.operations = OperationsOf(request.source.snapshot)
      BY <2>1 DEF IndexInv, OperationsForm
    <3>2. Len(progress.operations) = 16 /\ \A n \in 1 .. 16 : IsList(progress.operations[n])
      BY <1>4, <3>1, OperationsListed
    <3>3. progress.operation \in 1 .. 16
      BY <1>1, <1>3, <3>2
    <3> QED
      BY <3>2, <3>3
  <2>2. CASE progress.pc = "index.sql"
    <3>1. progress.operations = SqlOperationsOf(request.source.snapshot)
      BY <2>2 DEF IndexInv, OperationsForm
    <3>2. Len(progress.operations) = 16 /\ \A n \in 1 .. 16 : IsList(progress.operations[n])
      BY <1>4, <3>1, SqlOperationsListed DEF Lists
    <3>3. progress.operation \in 1 .. 16
      BY <1>1, <1>3, <3>2
    <3> QED
      BY <3>2, <3>3
  <2> QED
    BY <1>1, <2>1, <2>2 DEF Writes
<1> HIDE DEF rows
<1>6. PICK m \in Nat : /\ DOMAIN batch = 1 .. m
                       /\ \A j \in 1 .. m : batch[j] = rows[progress.rows + j]
                       /\ \A k \in 1 .. Len(rows) : k > progress.rows /\ k <= progress.rows + BatchRows =>
                                                      k - progress.rows \in 1 .. m
  BY <1>3, <1>5, BatchAt
<1> HIDE DEF batch
<1>7. /\ GrowsTo(Loaded, g)
      /\ \A j \in 1 .. m : Finds(Loaded, batch[j]) => Holds(g, batch[j])
  BY <1>2, <1>6, BatchKeeps
<1> HIDE DEF g
<1>8. GraphForm(g) /\ CallablePairs(Loaded) \subseteq CallablePairs(g)
  BY <1>7 DEF GrowsTo, CallablePairs
<1>9. /\ RequestForm' /\ request'.docs = request.docs /\ request'.source = request.source
      /\ request'.graph[request'.source.commit] = g
      /\ LiveKeys(request.graph) \subseteq LiveKeys(request'.graph)
  BY <1>1, <1>2, <1>8, LoadSteps
<1>10. Loaded' = g
  BY <1>9 DEF Loaded
<1>11. Len(rows) \in Nat /\ DOMAIN rows = 1 .. Len(rows) /\ BatchRows \in Nat \ {0}
  BY <1>5, IndexAssumption DEF IsList
<1> DEFINE operation == IF done THEN progress.operation + 1 ELSE progress.operation
           written == IF done THEN 0 ELSE progress.rows + BatchRows
<1>12. operation \in Nat \ {0} /\ written \in Nat
       /\ (operation = progress.operation + 1 \/ operation = progress.operation)
  BY <1>3, <1>11
<1>13. progress' = [pc |-> progress.pc, replaced |-> progress.replaced, operation |-> operation,
                    rows |-> written, operations |-> progress.operations]
  BY <1>1, <1>3
<1> HIDE DEF operation, written
<1>14. ProgressForm'
  <2>1. progress'.pc \in Begun /\ progress'.pc \in Writes /\ request'.source \in Sources
        /\ progress'.pc \notin {"index.docs", "index.delete", "index.repository", "index.validate"}
    BY <1>1, <1>2, <1>9, <1>13 DEF Begun, Writes, Loads
  <2>2. progress'.operation = operation /\ progress'.rows = written
        /\ progress' = [pc |-> progress'.pc, replaced |-> progress'.replaced, operation |-> progress'.operation,
                        rows |-> progress'.rows, operations |-> progress'.operations]
    BY <1>13
  <2> QED
    BY <1>12, <2>1, <2>2 DEF ProgressForm
<1>15. OperationsForm'
  BY <1>9, <1>13 DEF IndexInv, OperationsForm
<1>16. RowsLoaded'
  <2> SUFFICES ASSUME progress'.pc \in Loads,
                      NEW n \in {1, 5, 6}, NEW k \in DOMAIN progress'.operations[n], Reached(n, k)'
               PROVE  Holds(Loaded', progress'.operations[n][k])
    BY DEF RowsLoaded
  <2>1. progress.pc \in Loads /\ progress'.operations = progress.operations
        /\ progress'.operation = operation /\ progress'.rows = written
    BY <1>13
  <2>2. k \in DOMAIN progress.operations[n]
    BY <2>1
  <2>3. CASE Reached(n, k)
    <3>1. Holds(Loaded, progress.operations[n][k])
      BY <2>1, <2>2, <2>3 DEF IndexInv, RowsLoaded
    <3> QED
      BY <1>7, <1>10, <2>1, <3>1, HoldsAgain
  <2>4. CASE ~Reached(n, k)
    <3>0. k \in Nat \ {0}
      <4>1. IsList(OperationsOf(request.source.snapshot)[n])
        BY <1>4, OperationsListed
      <4>2. progress.operations = OperationsOf(request.source.snapshot)
        BY <2>1 DEF IndexInv, OperationsForm
      <4> QED
        BY <2>2, <4>1, <4>2 DEF IsList
    <3>1. n < operation \/ (n = operation /\ k <= written)
      BY <2>1 DEF Reached
    <3>2. ~(n < progress.operation) /\ ~(n = progress.operation /\ k <= progress.rows)
      BY <2>4 DEF Reached
    <3>3. n = progress.operation /\ k \in 1 .. Len(rows)
      <4>1. n \in Nat
        OBVIOUS
      <4>2. n = progress.operation
        <5>1. progress.operation \in Nat /\ ~(k <= 0)
          BY <1>3, <3>0
        <5>2. CASE operation = progress.operation
          BY <3>1, <3>2, <4>1, <5>1, <5>2
        <5>3. CASE operation = progress.operation + 1
          <6>1. done
            BY <5>1, <5>3 DEF operation
          <6>2. written = 0
            BY <6>1 DEF written
          <6> HIDE DEF done
          <6> QED
            BY <3>1, <3>2, <4>1, <5>1, <5>3, <6>2
        <5> QED
          BY <1>12, <5>2, <5>3
      <4> QED
        BY <1>11, <2>2, <4>2 DEF rows
    <3>4. k > progress.rows /\ k <= progress.rows + BatchRows
      <4>1. CASE done
        BY <1>3, <1>11, <3>2, <3>3, <4>1
      <4>2. CASE ~done
        BY <1>3, <1>11, <3>1, <3>2, <3>3, <4>2 DEF operation, written
      <4> QED
        BY <4>1, <4>2
    <3>5. k - progress.rows \in 1 .. m /\ progress.rows + (k - progress.rows) = k
      BY <1>3, <1>6, <3>3, <3>4
    <3>6. batch[k - progress.rows] = rows[k]
      BY <1>6, <3>5
    <3>7. rows[k] \in ToSet(rows)
      BY <1>11, <3>3 DEF ToSet
    <3>8. Finds(Loaded, rows[k])
      BY <2>1, <3>3, <3>7, RowFound DEF rows
    <3>9. Holds(g, rows[k])
      BY <1>7, <3>5, <3>6, <3>8
    <3> QED
      BY <1>10, <2>1, <3>3, <3>9 DEF rows
  <2> QED
    BY <2>3, <2>4
<1>17. HitsComing'
  <2> SUFFICES ASSUME progress'.pc \in {"index.sql", "index.validate"}
               PROVE  Expected(request'.source) \subseteq Docs(request'.source.commit, CallablesOf(Loaded'))
    BY DEF HitsComing
  <2>1. Expected(request.source) \subseteq Docs(request.source.commit, CallablesOf(Loaded))
    BY <1>13 DEF IndexInv, HitsComing
  <2>2. CallablesOf(Loaded) \subseteq CallablesOf(g)
    BY <1>8, CallablesKept
  <2> QED
    BY <1>9, <1>10, <2>1, <2>2 DEF Docs
<1>18. HitsLive'
  BY <1>1, <1>9, <1>13 DEF IndexInv, HitsLive, Writes, Loads
<1> QED
  BY <1>9, <1>14, <1>15, <1>16, <1>17, <1>18 DEF IndexInv

LEMMA UpsertDocsStep ==
  ASSUME IndexInv, UpsertDocs
  PROVE  IndexInv'
<1> DEFINE wanted == Expected(request.source)
<1>1. progress.pc = "index.sql"
      /\ \E keys \in {wanted} \cup {{d} : d \in wanted} : request' = [request EXCEPT !.docs = @ \cup keys]
      /\ (progress' = [pc |-> "index.validate", replaced |-> progress.replaced] \/ progress' = progress)
  BY DEF UpsertDocs
<1>2. PICK keys \in {wanted} \cup {{d} : d \in wanted} : request' = [request EXCEPT !.docs = @ \cup keys]
  BY <1>1
<1>3. keys \subseteq wanted
  BY <1>2
<1>4. /\ DOMAIN request' = RequestFields /\ request'.tool = "index" /\ request'.graph = request.graph
      /\ request'.docs = request.docs \cup keys /\ request'.source = request.source
      /\ request.graph = [c \in Commits |-> request.graph[c]]
      /\ \A c \in Commits : GraphForm(request.graph[c])
  BY <1>2 DEF IndexInv, RequestForm, RequestFields
<1>5. RequestForm'
  BY <1>4 DEF RequestForm
<1>6. request.source \in Sources /\ wanted \subseteq Docs(request.source.commit, CallablesOf(Loaded))
  BY <1>1 DEF IndexInv, ProgressForm, HitsComing, Begun, Writes, Loads
<1>7. ProgressForm'
  BY <1>1, <1>4, <1>6 DEF IndexInv, ProgressForm, Begun, Writes, Loads
<1>8. OperationsForm' /\ RowsLoaded'
  BY <1>1, <1>4 DEF IndexInv, OperationsForm, RowsLoaded, Loads
<1>9. Loaded' = Loaded
  BY <1>4 DEF Loaded
<1>10. HitsComing'
  BY <1>4, <1>6, <1>9 DEF HitsComing
<1>11. HitsLive'
  <2>1. request.source.commit \in Commits
    BY <1>6 DEF Commits
  <2>2. wanted \subseteq LiveKeys(request.graph)
    BY <1>6, <2>1 DEF LiveKeys, Loaded
  <2>3. request.docs \subseteq LiveKeys(request.graph)
    BY DEF IndexInv, HitsLive
  <2>4. progress'.pc # "index.delete"
    BY <1>1
  <2> QED
    BY <1>3, <1>4, <2>2, <2>3, <2>4 DEF HitsLive
<1> QED
  BY <1>5, <1>7, <1>8, <1>10, <1>11 DEF IndexInv

LEMMA AnswerStep ==
  ASSUME IndexInv, NEW status, Answer(status)
  PROVE  IndexInv'
<1>1. request' = [request EXCEPT !.status = status] /\ progress' = Idle
  BY DEF Answer
<1>2. /\ DOMAIN request' = RequestFields /\ request'.tool = "index" /\ request'.graph = request.graph
      /\ request'.docs = request.docs /\ request'.source = request.source
      /\ request.graph = [c \in Commits |-> request.graph[c]]
      /\ \A c \in Commits : GraphForm(request.graph[c])
  BY <1>1 DEF IndexInv, RequestForm, RequestFields
<1>3. RequestForm'
  BY <1>2 DEF RequestForm
<1>4. progress'.pc = "idle"
  BY <1>1 DEF Idle
<1>5. (ProgressForm /\ OperationsForm /\ RowsLoaded /\ HitsComing)'
  BY <1>1, <1>4 DEF ProgressForm, OperationsForm, RowsLoaded, HitsComing, Begun, Writes, Loads
<1>6. HitsLive'
  BY <1>2, <1>4 DEF IndexInv, HitsLive
<1> QED
  BY <1>3, <1>5, <1>6 DEF IndexInv

LEMMA IndexKept ==
  ASSUME IndexInv, [IndexNext]_vars
  PROVE  IndexInv'
<1>1. CASE BeginIndex
  BY <1>1, BeginIndexStep
<1>2. CASE DeleteDocs
  BY <1>2, DeleteDocsStep
<1>3. CASE DeleteGraph
  BY <1>3, DeleteGraphStep
<1>4. CASE MergeRepository
  BY <1>4, MergeRepositoryStep
<1>5. CASE ClearResolutions
  BY <1>5, ClearResolutionsStep
<1>6. CASE ClearSql
  BY <1>6, ClearSqlStep
<1>7. CASE WriteBatch
  BY <1>7, WriteBatchStep
<1>8. CASE UpsertDocs
  BY <1>8, UpsertDocsStep
<1>9. CASE ValidateIndex
  BY <1>9, AnswerStep DEF ValidateIndex
<1>10. CASE IndexFails
  BY <1>10, AnswerStep DEF IndexFails
<1>11. CASE UNCHANGED vars
  BY <1>11 DEF vars, IndexInv, RequestForm, ProgressForm, OperationsForm, RowsLoaded, HitsComing, HitsLive,
               Reached, Loaded
<1> QED
  BY <1>1, <1>2, <1>3, <1>4, <1>5, <1>6, <1>7, <1>8, <1>9, <1>10, <1>11 DEF IndexNext

(* At every moment of every sequence of runs that replace or add, break off
   or answer, the lexical index has callables of the graph only
   (ingest.py:652-739): stale descriptions go before their nodes, new ones
   come after all the rows that their nodes are in.                          *)
THEOREM SearchHitsStayLive == IndexSpec => []SearchHitsLive
<1>1. IndexInv => SearchHitsLive
  BY DEF IndexInv, HitsLive, SearchHitsLive
<1> QED
  BY IndexStarts, IndexKept, <1>1, PTL DEF IndexSpec

(***************************************************************************)
(* What a call resolves to is among the symbols of the index.              *)
(***************************************************************************)
SymbolKeys(ix) == Keys(ix.refs) \cup {None}
Sound(ix, owner, r) ==
  r.owner = owner /\ r.target \in SymbolKeys(ix) /\ r.constructs \in SymbolKeys(ix) /\ r.initializer \in SymbolKeys(ix)

LEMMA OnlyOne ==
  ASSUME NEW ix, NEW S, S \subseteq ix.refs, Cardinality(S) = 1
  PROVE  The(S) \in S /\ The(S).key \in SymbolKeys(ix)
<1>1. S # {}
  BY FS_EmptySet
<1>2. The(S) \in S
  BY <1>1 DEF The
<1> QED
  BY <1>2 DEF SymbolKeys, Keys

LEMMA ResolutionSound ==
  ASSUME NEW ix, NEW owner, NEW status, NEW S, S \subseteq ix.refs
  PROVE  Sound(ix, owner, Resolution(owner, status, S))
<1>1. CASE Cardinality(S) = 1
  BY <1>1, OnlyOne DEF Resolution, Sound, SymbolKeys
<1>2. CASE Cardinality(S) # 1
  BY <1>2 DEF Resolution, Sound, SymbolKeys
<1> QED
  BY <1>1, <1>2

LEMMA UnresolvedSound == ASSUME NEW ix, NEW owner, NEW status PROVE Sound(ix, owner, Unresolved(owner, status))
BY ResolutionSound DEF Unresolved

LEMMA OneOfSound ==
  ASSUME NEW ix, NEW owner, NEW status, NEW S, S \subseteq ix.refs
  PROVE  Sound(ix, owner, OneOf(owner, status, S))
BY ResolutionSound DEF OneOf

LEMMA MethodsOfSymbols ==
  ASSUME NEW ix, NEW name
  PROVE  /\ \A t : MethodsOf(ix, t, name) \subseteq ix.refs
         /\ \A ancestors : Inherited(ix, ancestors, name) \subseteq ix.refs
<1>1. \A t : MethodsOf(ix, t, name) \subseteq ix.refs
  BY DEF MethodsOf, Callables
<1> QED
  BY <1>1 DEF Inherited

LEMMA MethodCallSound ==
  ASSUME NEW ix, NEW owner, NEW t, NEW name, NEW own, NEW inherited
  PROVE  Sound(ix, owner, MethodCall(ix, owner, t, name, own, inherited))
<1>1. \A ancestors : Sound(ix, owner, InheritedMethod(ix, owner, ancestors, name, inherited))
  BY UnresolvedSound, OneOfSound, MethodsOfSymbols DEF InheritedMethod
<1>2. \A status : Sound(ix, owner, OneOf(owner, status, MethodsOf(ix, t, name)))
  BY OneOfSound, MethodsOfSymbols
<1> QED
  BY <1>1, <1>2 DEF MethodCall

LEMMA InitializerSound == ASSUME NEW ix, NEW t PROVE Initializer(ix, t) \in SymbolKeys(ix)
<1> DEFINE only(found) == IF Cardinality(found) = 1 THEN The(found).key ELSE None
           a == Ancestors(ix, t)
           above == IF a = Incomplete THEN {} ELSE Inherited(ix, a, "__init__")
           found == IF MethodsOf(ix, t, "__init__") # {} THEN MethodsOf(ix, t, "__init__") ELSE above
<1>1. Initializer(ix, t) = only(found)
  BY DEF Initializer
<1>2. found \subseteq ix.refs
  <2>1. MethodsOf(ix, t, "__init__") \subseteq ix.refs /\ Inherited(ix, a, "__init__") \subseteq ix.refs
    BY MethodsOfSymbols
  <2> HIDE DEF a
  <2> QED
    BY <2>1
<1> HIDE DEF found
<1>3. CASE Cardinality(found) = 1
  BY <1>1, <1>2, <1>3, OnlyOne
<1>4. CASE Cardinality(found) # 1
  BY <1>1, <1>4 DEF SymbolKeys
<1> QED
  BY <1>3, <1>4

LEMMA ReceiverSound ==
  ASSUME NEW ix, NEW call, NEW owner, NEW super
  PROVE  Sound(ix, owner.key, ReceiverMethod(ix, call, owner, super))
BY UnresolvedSound, MethodCallSound DEF ReceiverMethod

LEMMA DirectSound ==
  ASSUME NEW ix, NEW f, NEW call, NEW owner
  PROVE  Sound(ix, owner.key, ResolveDirect(ix, f, call, owner))
<1> DEFINE how(refs) == IF The(refs).qname \in Imported(f, call) THEN "import" ELSE "local"
           types == IF call.receiver \in {"none", "name"} THEN Types(ix, DirectCandidates(f, call, owner)) ELSE {}
           callables == Callables(ix, DirectCandidates(f, call, owner))
           many == [Resolution(owner.key, "constructor_ambiguous", types) EXCEPT !.target = None]
           one == [Resolution(owner.key, "constructor_exact_" \o how(types), types) EXCEPT
                     !.target = None, !.constructs = The(types).key,
                     !.initializer = Initializer(ix, The(types).qname)]
           status == IF call.receiver \in {"dynamic", "attribute"} THEN "dynamic"
                     ELSE IF call.raw[1] \in DOMAIN Bindings(f) THEN "external" ELSE "unresolved"
<1>1. ResolveDirect(ix, f, call, owner) =
        IF Cardinality(types) > 1 THEN many
        ELSE IF types # {} THEN one
        ELSE IF callables # {} THEN OneOf(owner.key, "exact_" \o how(callables), callables)
        ELSE Unresolved(owner.key, status)
  BY DEF ResolveDirect
<1>2. types \subseteq ix.refs /\ callables \subseteq ix.refs
  BY DEF Types, Callables
<1> HIDE DEF types, callables, how, status
<1>3. Sound(ix, owner.key, many)
  BY ResolutionSound, <1>2 DEF Resolution, Sound, SymbolKeys
<1>4. types # {} => Sound(ix, owner.key, one)
  <2> SUFFICES ASSUME types # {} PROVE Sound(ix, owner.key, one)
    OBVIOUS
  <2>1. The(types) \in types
    BY DEF The
  <2>2. The(types).key \in SymbolKeys(ix)
    BY <1>2, <2>1 DEF SymbolKeys, Keys
  <2>3. Initializer(ix, The(types).qname) \in SymbolKeys(ix)
    BY InitializerSound
  <2> QED
    BY <2>2, <2>3 DEF Resolution, Sound, SymbolKeys
<1>5. Sound(ix, owner.key, OneOf(owner.key, "exact_" \o how(callables), callables))
      /\ Sound(ix, owner.key, Unresolved(owner.key, status))
  BY <1>2, OneOfSound, UnresolvedSound
<1> HIDE DEF many, one
<1> QED
  BY <1>1, <1>3, <1>4, <1>5

LEMMA OwnedSound ==
  ASSUME NEW ix, NEW f, NEW call, NEW owner
  PROVE  Sound(ix, owner.key, ResolveOwned(ix, f, call, owner))
<1> DEFINE local == IF call.receiver = "attribute" /\ Len(call.raw) = 2
                    THEN LocalReceiverType(ix, f, call, owner) ELSE None
           other == IF local = None THEN ResolveDirect(ix, f, call, owner)
                    ELSE MethodCall(ix, owner.key, local, call.name, "local_receiver", "local_receiver_inherited")
<1>1. ResolveOwned(ix, f, call, owner) =
        CASE call.receiver \in {"self", "cls"} /\ call.raw # <<call.receiver, call.name>> ->
               Unresolved(owner.key, "dynamic")
          [] call.receiver \in {"self", "cls", "super"} ->
               ReceiverMethod(ix, call, owner, call.receiver = "super")
          [] OTHER -> other
  BY DEF ResolveOwned
<1>2. Sound(ix, owner.key, other)
  BY DirectSound, MethodCallSound
<1>3. Sound(ix, owner.key, Unresolved(owner.key, "dynamic"))
      /\ Sound(ix, owner.key, ReceiverMethod(ix, call, owner, call.receiver = "super"))
  BY UnresolvedSound, ReceiverSound
<1> HIDE DEF other
<1>4. \/ ResolveOwned(ix, f, call, owner) = Unresolved(owner.key, "dynamic")
      \/ ResolveOwned(ix, f, call, owner) = ReceiverMethod(ix, call, owner, call.receiver = "super")
      \/ ResolveOwned(ix, f, call, owner) = other
  <2>1. CASE call.receiver \in {"self", "cls"} /\ call.raw # <<call.receiver, call.name>>
    <3>1. ~(call.receiver \in {"self", "cls", "super"}) => FALSE
      BY <2>1
    <3> QED
      BY <1>1, <2>1, <3>1
  <2>2. CASE ~(call.receiver \in {"self", "cls"} /\ call.raw # <<call.receiver, call.name>>)
    <3>1. CASE call.receiver \in {"self", "cls", "super"}
      BY <1>1, <2>2, <3>1
    <3>2. CASE ~(call.receiver \in {"self", "cls", "super"})
      BY <1>1, <2>2, <3>2
    <3> QED
      BY <3>1, <3>2
  <2> QED
    BY <2>1, <2>2
<1> QED
  BY <1>2, <1>3, <1>4

(* An answer has no owner, or one of the file the call is in.                *)
LEMMA ResolveSound ==
  ASSUME NEW ix, NEW f, NEW call
  PROVE  LET r == Resolve(ix, f, call)
         IN  r.owner # None => /\ \E o \in ix.owners : o.path = f.path /\ r.owner = o.key
                               /\ Sound(ix, r.owner, r)
<1> DEFINE owners == Owners(ix, f.path, call.owner)
           r == Resolve(ix, f, call)
           many == [Resolution(None, "owner_ambiguous", owners) EXCEPT !.target = None]
<1>1. r = IF owners = {} THEN Unresolved(None, "owner_unresolved")
          ELSE IF Cardinality(owners) > 1 THEN many
          ELSE ResolveOwned(ix, f, call, The(owners))
  BY DEF Resolve
<1>2. \A o \in owners : o \in ix.owners /\ o.path = f.path
  BY DEF Owners
<1> HIDE DEF owners, r
<1>3. CASE owners = {}
  BY <1>1, <1>3 DEF Unresolved, Resolution, r
<1>4. CASE owners # {} /\ Cardinality(owners) > 1
  <2>1. many.owner = None
    BY DEF Resolution
  <2> HIDE DEF many
  <2> QED
    BY <1>1, <1>4, <2>1 DEF r
<1>5. CASE owners # {} /\ ~(Cardinality(owners) > 1)
  <2> DEFINE o == The(owners)
  <2>1. o \in owners
    BY <1>5 DEF The
  <2> HIDE DEF o
  <2>2. Sound(ix, o.key, r)
    <3>1. r = ResolveOwned(ix, f, call, o)
      BY <1>1, <1>5 DEF o
    <3> QED
      BY <3>1, OwnedSound
  <2>3. r.owner = o.key
    BY <2>2 DEF Sound
  <2> QED
    BY <1>2, <2>1, <2>2, <2>3 DEF r
<1> QED
  BY <1>3, <1>4, <1>5

(***************************************************************************)
(* The plan of a load: the rows of its 16 operations and of the 16 that    *)
(* write the SQL; and the graph that they make.                            *)
(***************************************************************************)
Planned(s, n) ==
  IF n <= 16 THEN Operations(s, InMemoryIndex(s), CallsIn(s))[n]
  ELSE SqlRows(s, n - 16)
Ends(r) == {r.start, r.end}
KeysAmong(nodes) == {x.key : x \in nodes}

(* The keys of SQL: of the database, and those of five parts.                *)
SqlKey(key) == key = DatabaseKey \/ Len(key) = 5
InShape(nodes) == \A x \in nodes : x.label \in ToSet(SqlLabels) <=> SqlKey(x.key)
(* Rows are of the graph, and the graph is of rows.                          *)
PlanMakes(s, w) ==
  /\ \A n \in 1 .. 32 : \A row \in Planned(s, n) : row.nodes \subseteq w.nodes /\ row.rels \subseteq w.rels
  /\ \A x \in w.nodes : \E n \in 1 .. 32 : \E row \in Planned(s, n) : x \in row.nodes
  /\ \A r \in w.rels : \E n \in 1 .. 32 : \E row \in Planned(s, n) : r \in row.rels
(* A row hangs on itself, the repository, and rows of operations before.     *)
Anchored(s) ==
  \A n \in 1 .. 32 : \A row \in Planned(s, n) : \A r \in row.rels : \A e \in Ends(r) :
    \/ e \in KeysOf(row)
    \/ \E m \in 1 .. 32 : m < n /\ \E other \in Planned(s, m) : e \in KeysAmong(other.nodes)
OneEach(nodes) == \A x, y \in nodes : x.label = y.label /\ x.key = y.key => x = y
DerivedLate(s) == \A n \in 1 .. 9 : \A row \in Planned(s, n) : \A r \in row.rels : r.kind \notin Derived
SqlLate(s) == \A n \in 1 .. 16 : \A row \in Planned(s, n) : \A x \in row.nodes : ~SqlKey(x.key)
PlanRight(s, w) ==
  PlanMakes(s, w) /\ InShape(w.nodes) /\ OneEach(w.nodes) /\ Anchored(s) /\ DerivedLate(s) /\ SqlLate(s)

(***************************************************************************)
(* The rows of a plan, by the place of their operation, and the nodes and  *)
(* relationships of a graph, by the part of the source they come from.     *)
(***************************************************************************)
Link(r) == Row({}, {r})
Lone(x) == Row({x}, {})
ImportRow(r) == Row({Node("Module", r.end, Plain)}, {r})
SymbolAt(n) == CASE n = 4 -> "Type" [] n = 5 -> "Function" [] OTHER -> "Method"
CalledAt(n) == CASE n = 12 -> "CALLS" [] n = 13 -> "EXACT_CALLS" [] OTHER -> "RESOLVES_TO"
CodeRow(s, n, row) ==
  \/ n = 1 /\ \E f \in ToSet(s) : row = FileRow(f)
  \/ n = 2 /\ \E f \in ToSet(s) : \E d \in 1 .. f.diagnostics : row = DiagnosticRow(f, d)
  \/ n = 3 /\ \E f \in ToSet(s) : f.sql = None /\ row = InitRow(f)
  \/ n \in 4 .. 6 /\ \E f \in ToSet(s) : \E y \in f.symbols : Label(y) = SymbolAt(n) /\ row = SymbolRow(f, y)
  \/ n = 7 /\ \E f \in ToSet(s) : \E r \in MethodRels(InMemoryIndex(s), f) : row = Link(r)
  \/ n = 8 /\ \E f \in ToSet(s) : \E r \in ImportRels(f) : row = ImportRow(r)
  \/ n = 9 /\ \E f \in ToSet(s) : \E r \in Inherits(InMemoryIndex(s), f) : row = Link(r)
CallRow(s, n, row) ==
  \E c \in CallsIn(s) :
    \/ n = 10 /\ row = Lone(CallNode(c.f, c.call, c.r))
    \/ n = 11 /\ \E r \in CallOwnerRel(c.f, c.call, c.r) : row = Link(r)
    \/ n \in 12 .. 14 /\ \E r \in CalledRels(c.f, c.call, c.r) : r.kind = CalledAt(n) /\ row = Link(r)
    \/ n \in 15 .. 16 /\ \E r \in ConstructRels(c.f, c.call, c.r) : (r.start = r.of <=> n = 15) /\ row = Link(r)
SqlRow(s, n, row) ==
  LET part == SqlPart(s, SqlIndex(s))
  IN  \/ n \in 17 .. 21 /\ \E x \in part.nodes : x.label = SqlLabels[n - 16] /\ row = Lone(x)
      \/ n \in 22 .. 32 /\ \E r \in part.rels : r.kind = SqlKinds[n - 21] /\ row = Link(r)

LEMMA LinksAre ==
  ASSUME NEW rels, NEW row
  PROVE  row \in Links(rels) <=> \E r \in rels : row = Link(r)
BY DEF Links, Link

LEMMA CodeRowsAre ==
  ASSUME NEW s, NEW n \in 1 .. 9, NEW row
  PROVE  row \in Planned(s, n) <=> CodeRow(s, n, row)
<1> DEFINE F == ToSet(s)
           ix == InMemoryIndex(s)
           calls == CallsIn(s)
           methods == UNION {MethodRels(ix, f) : f \in F}
           imports == UNION {ImportRels(f) : f \in F}
           inherits == UNION {Inherits(ix, f) : f \in F}
<1> HIDE DEF F, ix, calls
<1> DEFINE ops == Operations(s, ix, calls)
<1>1. Planned(s, n) = ops[n]
  BY DEF Planned, ix, calls
<1>2. /\ ops[1] = {FileRow(f) : f \in F}
      /\ ops[2] = UNION {{DiagnosticRow(f, d) : d \in 1..f.diagnostics} : f \in F}
      /\ ops[3] = {InitRow(f) : f \in {g \in F : g.sql = None}}
      /\ ops[4] = Symbols(s, "Type") /\ ops[5] = Symbols(s, "Function") /\ ops[6] = Symbols(s, "Method")
      /\ ops[7] = Links(methods)
      /\ ops[8] = {ImportRow(r) : r \in imports}
      /\ ops[9] = Links(inherits)
  BY DEF Operations, F, ImportRow
<1>3. \A label : row \in Symbols(s, label) <=> \E f \in F : \E y \in f.symbols : Label(y) = label /\ row = SymbolRow(f, y)
  BY DEF Symbols, F
<1>4. /\ \A r : r \in methods <=> \E f \in F : r \in MethodRels(ix, f)
      /\ \A r : r \in imports <=> \E f \in F : r \in ImportRels(f)
      /\ \A r : r \in inherits <=> \E f \in F : r \in Inherits(ix, f)
  OBVIOUS
<1> HIDE DEF ops, methods, imports, inherits
<1>5. CASE n = 1
  <2>1. CodeRow(s, n, row) <=> \E f \in F : row = FileRow(f)
    BY <1>5 DEF CodeRow, F
  <2> QED
    BY <1>1, <1>2, <1>5, <2>1
<1>6. CASE n = 2
  <2>1. CodeRow(s, n, row) <=> \E f \in F : \E d \in 1 .. f.diagnostics : row = DiagnosticRow(f, d)
    BY <1>6 DEF CodeRow, F
  <2> QED
    BY <1>1, <1>2, <1>6, <2>1
<1>7. CASE n = 3
  <2>1. CodeRow(s, n, row) <=> \E f \in F : f.sql = None /\ row = InitRow(f)
    BY <1>7 DEF CodeRow, F
  <2> QED
    BY <1>1, <1>2, <1>7, <2>1
<1>8. CASE n \in {4, 5, 6}
  <2>1. Planned(s, n) = Symbols(s, SymbolAt(n))
    BY <1>1, <1>2, <1>8 DEF SymbolAt
  <2>2. CodeRow(s, n, row) <=> \E f \in F : \E y \in f.symbols : Label(y) = SymbolAt(n) /\ row = SymbolRow(f, y)
    BY <1>8 DEF CodeRow, F
  <2> QED
    BY <1>3, <2>1, <2>2
<1>9. CASE n = 7
  <2>1. CodeRow(s, n, row) <=> \E f \in F : \E r \in MethodRels(ix, f) : row = Link(r)
    BY <1>9 DEF CodeRow, F, ix
  <2>2. Planned(s, n) = Links(methods)
    BY <1>1, <1>2, <1>9
  <2> QED
    BY <1>4, <2>1, <2>2, LinksAre
<1>10. CASE n = 8
  <2>1. CodeRow(s, n, row) <=> \E f \in F : \E r \in ImportRels(f) : row = ImportRow(r)
    BY <1>10 DEF CodeRow, F
  <2>2. Planned(s, n) = {ImportRow(r) : r \in imports}
    BY <1>1, <1>2, <1>10
  <2> QED
    BY <1>4, <2>1, <2>2
<1>11. CASE n = 9
  <2>1. CodeRow(s, n, row) <=> \E f \in F : \E r \in Inherits(ix, f) : row = Link(r)
    BY <1>11 DEF CodeRow, F, ix
  <2>2. Planned(s, n) = Links(inherits)
    BY <1>1, <1>2, <1>11
  <2> QED
    BY <1>4, <2>1, <2>2, LinksAre
<1> QED
  BY <1>5, <1>6, <1>7, <1>8, <1>9, <1>10, <1>11

LEMMA CallRowsAre ==
  ASSUME NEW s, NEW n \in 10 .. 16, NEW row
  PROVE  row \in Planned(s, n) <=> CallRow(s, n, row)
<1> DEFINE ix == InMemoryIndex(s)
           calls == CallsIn(s)
           owning == UNION {CallOwnerRel(c.f, c.call, c.r) : c \in calls}
           made == UNION {ConstructRels(c.f, c.call, c.r) : c \in calls}
           called == UNION {CalledRels(c.f, c.call, c.r) : c \in calls}
<1> HIDE DEF ix, calls
<1> DEFINE ops == Operations(s, ix, calls)
<1>1. Planned(s, n) = ops[n]
  BY DEF Planned, ix, calls
<1>2. /\ ops[10] = {Lone(CallNode(c.f, c.call, c.r)) : c \in calls}
      /\ ops[11] = Links(owning)
      /\ ops[12] = Links({e \in called : e.kind = "CALLS"})
      /\ ops[13] = Links({e \in called : e.kind = "EXACT_CALLS"})
      /\ ops[14] = Links({e \in called : e.kind = "RESOLVES_TO"})
      /\ ops[15] = Links({e \in made : e.start = e.of}) /\ ops[16] = Links({e \in made : e.start # e.of})
  BY DEF Operations, Lone
<1>3. /\ \A e : e \in called <=> \E c \in calls : e \in CalledRels(c.f, c.call, c.r)
      /\ \A e : e \in made <=> \E c \in calls : e \in ConstructRels(c.f, c.call, c.r)
      /\ \A e : e \in owning <=> \E c \in calls : e \in CallOwnerRel(c.f, c.call, c.r)
  OBVIOUS
<1> HIDE DEF ops, called, made, owning
<1>4. CASE n = 10
  <2>1. CallRow(s, n, row) <=> \E c \in calls : row = Lone(CallNode(c.f, c.call, c.r))
    BY <1>4 DEF CallRow, calls
  <2> QED
    BY <1>1, <1>2, <1>4, <2>1
<1>5. CASE n = 11
  <2>1. CallRow(s, n, row) <=> \E c \in calls : \E r \in CallOwnerRel(c.f, c.call, c.r) : row = Link(r)
    BY <1>5 DEF CallRow, calls
  <2>2. Planned(s, n) = Links(owning)
    BY <1>1, <1>2, <1>5
  <2> QED
    BY <1>3, <2>1, <2>2, LinksAre
<1>6. CASE n \in {12, 13, 14}
  <2> DEFINE of(kind) == Links({e \in called : e.kind = kind})
  <2>0. ops[12] = of("CALLS") /\ ops[13] = of("EXACT_CALLS") /\ ops[14] = of("RESOLVES_TO")
    BY <1>2
  <2> HIDE DEF of
  <2>1. Planned(s, n) = of(CalledAt(n))
    BY <1>1, <1>6, <2>0 DEF CalledAt
  <2>2. CallRow(s, n, row) <=> \E c \in calls : \E r \in CalledRels(c.f, c.call, c.r) :
                                 r.kind = CalledAt(n) /\ row = Link(r)
    BY <1>6 DEF CallRow, calls
  <2>3. row \in of(CalledAt(n)) <=> \E r \in called : r.kind = CalledAt(n) /\ row = Link(r)
    BY LinksAre DEF of
  <2> QED
    BY <1>3, <2>1, <2>2, <2>3
<1>7. CASE n \in {15, 16}
  <2>1. Planned(s, n) = Links({e \in made : e.start = e.of <=> n = 15})
    BY <1>1, <1>2, <1>7
  <2>2. CallRow(s, n, row) <=> \E c \in calls : \E r \in ConstructRels(c.f, c.call, c.r) :
                                 (r.start = r.of <=> n = 15) /\ row = Link(r)
    BY <1>7 DEF CallRow, calls
  <2>3. row \in Links({e \in made : e.start = e.of <=> n = 15})
        <=> \E r \in made : (r.start = r.of <=> n = 15) /\ row = Link(r)
    BY LinksAre
  <2> QED
    BY <1>3, <2>1, <2>2, <2>3
<1> QED
  BY <1>4, <1>5, <1>6, <1>7

LEMMA SqlRowsAre ==
  ASSUME NEW s, NEW n \in 17 .. 32, NEW row
  PROVE  row \in Planned(s, n) <=> SqlRow(s, n, row)
<1> DEFINE part == SqlPart(s, SqlIndex(s))
<1>1. Planned(s, n) = SqlRows(s, n - 16)
  BY DEF Planned
<1>2. CASE n \in 17 .. 21
  <2>1. Planned(s, n) = LabelRows(s, SqlLabels[n - 16])
    BY <1>1, <1>2 DEF SqlRows
  <2>2. SqlRow(s, n, row) <=> \E x \in part.nodes : x.label = SqlLabels[n - 16] /\ row = Lone(x)
    BY <1>2 DEF SqlRow
  <2>3. \A label : LabelRows(s, label) = {Lone(x) : x \in {m \in part.nodes : m.label = label}}
    BY DEF LabelRows, Lone
  <2> HIDE DEF part
  <2> QED
    BY <2>1, <2>2, <2>3
<1>3. CASE n \in 22 .. 32
  <2>1. (n - 16) - 5 = n - 21 /\ ~(n - 16 <= 5)
    BY <1>3
  <2>2. Planned(s, n) = KindRows(s, SqlKinds[n - 21])
    BY <1>1, <2>1 DEF SqlRows
  <2>3. SqlRow(s, n, row) <=> \E r \in part.rels : r.kind = SqlKinds[n - 21] /\ row = Link(r)
    BY <1>3 DEF SqlRow
  <2>4. \A kind : KindRows(s, kind) = Links({r \in part.rels : r.kind = kind})
    BY DEF KindRows
  <2>5. \A kind : row \in Links({r \in part.rels : r.kind = kind}) <=> \E r \in part.rels : r.kind = kind /\ row = Link(r)
    BY LinksAre
  <2> HIDE DEF part
  <2> QED
    BY <2>2, <2>3, <2>4, <2>5
<1> QED
  BY <1>2, <1>3

CodeNode(s, x) ==
  \/ \E f \in ToSet(s) : \/ x = Node("Module", ModuleKey(f.module), Plain)
                         \/ x \in FileNodes(f)
                         \/ \E r \in ImportRels(f) : x = Node("Module", r.end, Plain)
  \/ \E c \in CallsIn(s) : x = CallNode(c.f, c.call, c.r)
CodeRel(s, r) ==
  \/ \E f \in ToSet(s) : \/ r \in FileRels(f)
                         \/ r \in MethodRels(InMemoryIndex(s), f)
                         \/ r \in ImportRels(f)
                         \/ r \in Inherits(InMemoryIndex(s), f)
  \/ \E c \in CallsIn(s) : r \in CallRels(c.f, c.call, c.r)

LEMMA GraphIs ==
  ASSUME NEW x
  PROVE  LET s == x.snapshot
             w == CodeGraph(x)
             sql == SqlPart(s, SqlIndex(s))
         IN  /\ GraphForm(w)
             /\ \A n : n \in w.nodes <=> /\ n.label # "Repository"
                                         /\ n = Node("Repository", RepositoryKey, Plain) \/ CodeNode(s, n) \/ n \in sql.nodes
             /\ \A r : r \in w.rels <=> CodeRel(s, r) \/ r \in sql.rels
<1> DEFINE s == x.snapshot
           ix == InMemoryIndex(s)
           sql == SqlPart(s, SqlIndex(s))
           files == ToSet(s)
           calls == CallsIn(s)
           nodes == {Node("Repository", RepositoryKey, Plain)}
                    \cup {Node("Module", ModuleKey(f.module), Plain) : f \in files}
                    \cup (UNION {FileNodes(f) : f \in files})
                    \cup (UNION {{Node("Module", r.end, Plain) : r \in ImportRels(f)} : f \in files})
                    \cup {CallNode(c.f, c.call, c.r) : c \in calls} \cup sql.nodes
           rels == sql.rels
                   \cup (UNION {FileRels(f) \cup MethodRels(ix, f) \cup ImportRels(f) \cup Inherits(ix, f) : f \in files})
                   \cup UNION {CallRels(c.f, c.call, c.r) : c \in calls}
<1>1. BuildGraph(s, ix) = [nodes |-> nodes, rels |-> rels]
  BY DEF BuildGraph, CallsIn
<1>2. \A n : n \in nodes <=> n = Node("Repository", RepositoryKey, Plain) \/ CodeNode(s, n) \/ n \in sql.nodes
  <2> HIDE DEF sql
  <2>1. \A n : n \in nodes <=> \/ n = Node("Repository", RepositoryKey, Plain)
                               \/ \E f \in files : n = Node("Module", ModuleKey(f.module), Plain)
                               \/ \E f \in files : n \in FileNodes(f)
                               \/ \E f \in files : \E r \in ImportRels(f) : n = Node("Module", r.end, Plain)
                               \/ \E c \in calls : n = CallNode(c.f, c.call, c.r)
                               \/ n \in sql.nodes
    <3> HIDE DEF files, calls
    <3> QED
      OBVIOUS
  <2> HIDE DEF nodes
  <2> QED
    BY <2>1 DEF CodeNode
<1>3. \A r : r \in rels <=> CodeRel(s, r) \/ r \in sql.rels
  <2> HIDE DEF sql
  <2>1. \A r : r \in rels <=> \/ r \in sql.rels
                              \/ \E f \in files : r \in FileRels(f) \cup MethodRels(ix, f) \cup ImportRels(f) \cup Inherits(ix, f)
                              \/ \E c \in calls : r \in CallRels(c.f, c.call, c.r)
    <3> HIDE DEF files, calls, ix
    <3> QED
      OBVIOUS
  <2> HIDE DEF rels
  <2> QED
    BY <2>1 DEF CodeRel
<1>4. CodeGraph(x) = [BuildGraph(s, ix) EXCEPT !.nodes = {n \in @ : n.label # "Repository"}]
  BY DEF CodeGraph
<1> HIDE DEF nodes, rels, s, ix
<1>5. CodeGraph(x) = [nodes |-> {n \in nodes : n.label # "Repository"}, rels |-> rels]
  BY <1>1, <1>4
<1>6. GraphForm(CodeGraph(x)) /\ CodeGraph(x).nodes = {n \in nodes : n.label # "Repository"} /\ CodeGraph(x).rels = rels
  BY <1>5 DEF GraphForm
<1> HIDE DEF sql
<1> QED
  BY <1>2, <1>3, <1>6 DEF s, sql

(***************************************************************************)
(* The keys of the code and of the SQL.                                    *)
(***************************************************************************)
LEMMA CodeKeys ==
  /\ ~SqlKey(RepositoryKey) /\ \A q : ~SqlKey(ModuleKey(q)) /\ ~SqlKey(ExternalKey(q))
  /\ \A f : ~SqlKey(FileKey(f)) /\ ~SqlKey(InitKey(f))
  /\ \A f, n : ~SqlKey(Diagnostic(f, n))
  /\ \A f, y : ~SqlKey(Ref(f, y).key)
  /\ \A f, call, r : ~SqlKey(CallKey(f, call, r))
<1>1. ~SqlKey(RepositoryKey) /\ \A q : ~SqlKey(ModuleKey(q)) /\ ~SqlKey(ExternalKey(q))
  BY DEF SqlKey, DatabaseKey, RepositoryKey, ModuleKey, ExternalKey
<1>2. \A f : ~SqlKey(FileKey(f)) /\ ~SqlKey(InitKey(f))
  BY DEF SqlKey, DatabaseKey, FileKey, InitKey
<1>3. \A f, n : ~SqlKey(Diagnostic(f, n))
  BY DEF SqlKey, DatabaseKey, Diagnostic
<1>4. \A f, y : ~SqlKey(Ref(f, y).key)
  <2> TAKE f, y
  <2>1. Ref(f, y).key = <<f.path, y.qname, y.line>>
    BY DEF Ref
  <2> QED
    BY <2>1 DEF SqlKey, DatabaseKey
<1>5. \A f, call, r : ~SqlKey(CallKey(f, call, r))
  <2> TAKE f, call, r
  <2> DEFINE owner == IF r.owner = None THEN call.owner ELSE r.owner
  <2>1. CallKey(f, call, r) = <<f.path, "call", owner, call.at>>
    BY DEF CallKey
  <2> HIDE DEF owner
  <2> QED
    BY <2>1 DEF SqlKey, DatabaseKey
<1> QED
  BY <1>1, <1>2, <1>3, <1>4, <1>5

LEMMA KeysOfSql ==
  /\ SqlKey(DatabaseKey) /\ \A o : SqlKey(ObjectKey(o)) /\ \A f : SqlKey(ArtifactKey(f))
  /\ \A f, at : SqlKey(StatementKey(f, at))
  /\ \A f, at, n : SqlKey(ReferenceKey(f, at, n))
BY DEF SqlKey, ObjectKey, ArtifactKey, StatementKey, ReferenceKey

LEMMA FileNodesAre ==
  ASSUME NEW f, NEW x
  PROVE  x \in FileNodes(f) <=>
           \/ x = Node("File", FileKey(f), Plain)
           \/ f.sql = None /\ x = Node("ModuleInit", InitKey(f), Plain)
           \/ \E d \in 1 .. f.diagnostics : x = Node("ParseDiagnostic", Diagnostic(f, d), Plain)
           \/ \E y \in f.symbols : x = SymbolNode(f, y)
BY DEF FileNodes, ModuleInits

CodeLabels == {"File", "Module", "ModuleInit", "ParseDiagnostic", "Type", "Function", "Method", "CallSite"}
LEMMA CodeNodesAre ==
  ASSUME NEW s, NEW x, CodeNode(s, x)
  PROVE  /\ x.label \in CodeLabels /\ ~SqlKey(x.key)
         /\ \/ x = Node(x.label, x.key, Plain) /\ x.label # "CallSite"
            \/ x.label = "CallSite" /\ \E c \in CallsIn(s) : x = CallNode(c.f, c.call, c.r)
<1>1. \A label, key, of : /\ Node(label, key, of).label = label /\ Node(label, key, of).key = key
  BY DEF Node
<1>2. CASE \E c \in CallsIn(s) : x = CallNode(c.f, c.call, c.r)
  <2>1. PICK c \in CallsIn(s) : x = CallNode(c.f, c.call, c.r)
    BY <1>2
  <2>2. x.label = "CallSite" /\ x.key = CallKey(c.f, c.call, c.r)
    BY <1>1, <2>1 DEF CallNode
  <2> QED
    BY <2>1, <2>2, CodeKeys DEF CodeLabels
<1>3. CASE \E f \in ToSet(s) : x = Node("Module", ModuleKey(f.module), Plain)
  BY <1>1, <1>3, CodeKeys DEF CodeLabels
<1>4. CASE \E f \in ToSet(s) : \E r \in ImportRels(f) : x = Node("Module", r.end, Plain)
  <2>1. PICK f \in ToSet(s) : \E r \in ImportRels(f) : x = Node("Module", r.end, Plain)
    BY <1>4
  <2>2. PICK r \in ImportRels(f) : x = Node("Module", r.end, Plain)
    BY <2>1
  <2>3. PICK i \in ToSet(f.imports) : r.end = ExternalKey(i.module)
    BY DEF ImportRels, Rel
  <2> QED
    BY <1>1, <2>2, <2>3, CodeKeys DEF CodeLabels
<1>5. ASSUME NEW f, x \in FileNodes(f)
      PROVE  x.label \in CodeLabels /\ ~SqlKey(x.key) /\ x = Node(x.label, x.key, Plain) /\ x.label # "CallSite"
  <2>1. CASE x = Node("File", FileKey(f), Plain)
    BY <1>1, <2>1, CodeKeys DEF CodeLabels
  <2>2. CASE f.sql = None /\ x = Node("ModuleInit", InitKey(f), Plain)
    BY <1>1, <2>2, CodeKeys DEF CodeLabels
  <2>3. CASE \E d \in 1 .. f.diagnostics : x = Node("ParseDiagnostic", Diagnostic(f, d), Plain)
    BY <1>1, <2>3, CodeKeys DEF CodeLabels
  <2>4. CASE \E y \in f.symbols : x = SymbolNode(f, y)
    <3>1. PICK y \in f.symbols : x = Node(Label(y), Ref(f, y).key, Plain)
      BY <2>4 DEF SymbolNode
    <3>2. Label(y) \in {"Type", "Method", "Function"}
      BY DEF Label
    <3> QED
      BY <1>1, <3>1, <3>2, CodeKeys DEF CodeLabels
  <2> QED
    BY <1>5, <2>1, <2>2, <2>3, <2>4, FileNodesAre
<1> QED
  BY <1>2, <1>3, <1>4, <1>5 DEF CodeNode

SqlNodeForm(s, x) ==
  LET ix == SqlIndex(s)
      ranks == {f.rank : f \in ToSet(s)}
  IN  \/ DatabaseKey \in DatabasesOf(ix, ranks) /\ x = Node("Database", DatabaseKey, Plain)
      \/ \E o \in ObjectsOf(ix, ranks) : x = Node("SqlObject", ObjectKey(o), <<"defined", Cardinality(DefinitionsOf(ix, o))>>)
      \/ \E f \in SqlFiles(s) :
           \/ x = Node("SqlArtifact", ArtifactKey(f), Plain)
           \/ \E at \in Places(f.sql) : x = Node("SqlStatement", StatementKey(f, at), Plain)
           \/ \E n \in DOMAIN ix.refs[f] :
                x = Node("Reference", ReferenceKey(f, ix.refs[f][n].at, n),
                         <<ix.refs[f][n].role, ResolveUncached(ix.objects, ix.refs[f][n])>>)

LEMMA DatabaseIs == ASSUME NEW ix, NEW ranks, NEW key \in DatabasesOf(ix, ranks) PROVE key = DatabaseKey
<1> DEFINE referring == {f.rank : f \in {g \in DOMAIN ix.refs : ix.refs[g] # <<>>}}
<1>1. DatabasesOf(ix, ranks) = IF referring # {} /\ Min(referring) \in ranks THEN {DatabaseKey} ELSE {}
  BY DEF DatabasesOf
<1> HIDE DEF referring
<1> QED
  BY <1>1

LEMMA SqlNodesAre ==
  ASSUME NEW s, NEW x
  PROVE  x \in SqlPart(s, SqlIndex(s)).nodes <=> SqlNodeForm(s, x)
<1> DEFINE ix == SqlIndex(s)
           ranks == {f.rank : f \in ToSet(s)}
           F == SqlFiles(s)
<1>1. SqlPart(s, ix).nodes = SqlGlobalNodes(ix, ranks) \cup (UNION {SqlNodes(ix, f) : f \in F})
  BY DEF SqlPart
<1> HIDE DEF ix, ranks, F
<1>2. x \in SqlGlobalNodes(ix, ranks) <=>
        \/ DatabaseKey \in DatabasesOf(ix, ranks) /\ x = Node("Database", DatabaseKey, Plain)
        \/ \E o \in ObjectsOf(ix, ranks) : x = Node("SqlObject", ObjectKey(o), <<"defined", Cardinality(DefinitionsOf(ix, o))>>)
  <2> DEFINE named(o) == Node("SqlObject", ObjectKey(o), <<"defined", Cardinality(DefinitionsOf(ix, o))>>)
             bases == {Node("Database", key, Plain) : key \in DatabasesOf(ix, ranks)}
  <2>1. SqlGlobalNodes(ix, ranks) = bases \cup {named(o) : o \in ObjectsOf(ix, ranks)}
    BY DEF SqlGlobalNodes
  <2> HIDE DEF named
  <2>2. x \in bases <=> DatabaseKey \in DatabasesOf(ix, ranks) /\ x = Node("Database", DatabaseKey, Plain)
    BY DatabaseIs
  <2> HIDE DEF bases
  <2>3. x \in SqlGlobalNodes(ix, ranks) <=>
          \/ DatabaseKey \in DatabasesOf(ix, ranks) /\ x = Node("Database", DatabaseKey, Plain)
          \/ \E o \in ObjectsOf(ix, ranks) : x = named(o)
    BY <2>1, <2>2
  <2> QED
    BY <2>3 DEF named
<1>3. ASSUME NEW f
      PROVE  x \in SqlNodes(ix, f) <=>
           \/ x = Node("SqlArtifact", ArtifactKey(f), Plain)
           \/ \E at \in Places(f.sql) : x = Node("SqlStatement", StatementKey(f, at), Plain)
           \/ \E n \in DOMAIN ix.refs[f] :
                x = Node("Reference", ReferenceKey(f, ix.refs[f][n].at, n),
                         <<ix.refs[f][n].role, ResolveUncached(ix.objects, ix.refs[f][n])>>)
  <2> DEFINE named(n) == Node("Reference", ReferenceKey(f, ix.refs[f][n].at, n),
                              <<ix.refs[f][n].role, ResolveUncached(ix.objects, ix.refs[f][n])>>)
             N == DOMAIN ix.refs[f]
  <2>1. SqlNodes(ix, f) = {Node("SqlArtifact", ArtifactKey(f), Plain)}
                          \cup {Node("SqlStatement", StatementKey(f, at), Plain) : at \in Places(f.sql)}
                          \cup {named(n) : n \in N}
    BY DEF SqlNodes
  <2> HIDE DEF named, N
  <2>2. x \in SqlNodes(ix, f) <=>
           \/ x = Node("SqlArtifact", ArtifactKey(f), Plain)
           \/ \E at \in Places(f.sql) : x = Node("SqlStatement", StatementKey(f, at), Plain)
           \/ \E n \in N : x = named(n)
    BY <2>1
  <2> QED
    BY <2>2 DEF named, N
<1>4. x \in SqlPart(s, ix).nodes <=> x \in SqlGlobalNodes(ix, ranks) \/ \E f \in F : x \in SqlNodes(ix, f)
  BY <1>1
<1> QED
  BY <1>2, <1>3, <1>4 DEF SqlNodeForm, ix, ranks, F

LEMMA SqlNodesLabelled ==
  ASSUME NEW s, NEW x \in SqlPart(s, SqlIndex(s)).nodes
  PROVE  x.label \in ToSet(SqlLabels) /\ SqlKey(x.key)
<1>1. \A label, key, of : Node(label, key, of).label = label /\ Node(label, key, of).key = key
  BY DEF Node
<1>2. ToSet(SqlLabels) = {"Database", "SqlObject", "SqlArtifact", "SqlStatement", "Reference"}
  BY DEF SqlLabels, ToSet
<1>3. SqlNodeForm(s, x)
  BY SqlNodesAre
<1> DEFINE ix == SqlIndex(s)
           ranks == {f.rank : f \in ToSet(s)}
<1>4. CASE x = Node("Database", DatabaseKey, Plain)
  BY <1>1, <1>2, <1>4, KeysOfSql
<1>5. CASE \E o \in ObjectsOf(ix, ranks) : x = Node("SqlObject", ObjectKey(o), <<"defined", Cardinality(DefinitionsOf(ix, o))>>)
  BY <1>1, <1>2, <1>5, KeysOfSql
<1>6. ASSUME NEW f \in SqlFiles(s), x = Node("SqlArtifact", ArtifactKey(f), Plain)
      PROVE  x.label \in ToSet(SqlLabels) /\ SqlKey(x.key)
  BY <1>1, <1>2, <1>6, KeysOfSql
<1>7. ASSUME NEW f \in SqlFiles(s), NEW at, x = Node("SqlStatement", StatementKey(f, at), Plain)
      PROVE  x.label \in ToSet(SqlLabels) /\ SqlKey(x.key)
  BY <1>1, <1>2, <1>7, KeysOfSql
<1>8. ASSUME NEW f \in SqlFiles(s), NEW at, NEW n, NEW of, x = Node("Reference", ReferenceKey(f, at, n), of)
      PROVE  x.label \in ToSet(SqlLabels) /\ SqlKey(x.key)
  BY <1>1, <1>2, <1>8, KeysOfSql
<1> QED
  BY <1>3, <1>4, <1>5, <1>6, <1>7, <1>8 DEF SqlNodeForm

LEMMA GraphInShape ==
  ASSUME NEW x
  PROVE  InShape(CodeGraph(x).nodes)
<1> DEFINE s == x.snapshot
<1> SUFFICES ASSUME NEW n \in CodeGraph(x).nodes PROVE n.label \in ToSet(SqlLabels) <=> SqlKey(n.key)
  BY DEF InShape
<1>1. n.label # "Repository" /\ (n = Node("Repository", RepositoryKey, Plain) \/ CodeNode(s, n) \/ n \in SqlPart(s, SqlIndex(s)).nodes)
  BY GraphIs
<1>2. CASE n = Node("Repository", RepositoryKey, Plain)
  BY <1>1, <1>2 DEF Node
<1>3. CASE CodeNode(s, n)
  <2>1. ToSet(SqlLabels) = {"Database", "SqlObject", "SqlArtifact", "SqlStatement", "Reference"}
    BY DEF SqlLabels, ToSet
  <2> QED
    BY <1>3, <2>1, CodeNodesAre DEF CodeLabels
<1>4. CASE n \in SqlPart(s, SqlIndex(s)).nodes
  BY <1>4, SqlNodesLabelled
<1> QED
  BY <1>1, <1>2, <1>3, <1>4

(***************************************************************************)
(* A graph has one node of a label and a key.                              *)
(***************************************************************************)

LEMMA SourcesAre ==
  ASSUME NEW x \in Sources
  PROVE  IsSnapshot(x.snapshot)
BY IndexAssumption DEF IsSnapshot

LEMMA CallsAre ==
  ASSUME NEW s, NEW c
  PROVE  c \in CallsIn(s) <=>
           \E f \in ToSet(s) : \E call \in f.calls : c = [f |-> f, call |-> call, r |-> Resolve(InMemoryIndex(s), f, call)]
BY DEF CallsIn, Resolved

LEMMA OneCall ==
  ASSUME NEW s, IsSnapshot(s), NEW c \in CallsIn(s), NEW d \in CallsIn(s),
         CallKey(c.f, c.call, c.r) = CallKey(d.f, d.call, d.r)
  PROVE  c = d
<1>1. \A f, call, r : CallKey(f, call, r)[1] = f.path /\ CallKey(f, call, r)[4] = call.at
  <2> TAKE f, call, r
  <2> DEFINE owner == IF r.owner = None THEN call.owner ELSE r.owner
  <2>1. CallKey(f, call, r) = <<f.path, "call", owner, call.at>>
    BY DEF CallKey
  <2> HIDE DEF owner
  <2> QED
    BY <2>1
<1>2. PICK f \in ToSet(s) : \E call \in f.calls : c = [f |-> f, call |-> call, r |-> Resolve(InMemoryIndex(s), f, call)]
  BY CallsAre
<1>3. PICK call \in f.calls : c = [f |-> f, call |-> call, r |-> Resolve(InMemoryIndex(s), f, call)]
  BY <1>2
<1>4. PICK g \in ToSet(s) : \E other \in g.calls : d = [f |-> g, call |-> other, r |-> Resolve(InMemoryIndex(s), g, other)]
  BY CallsAre
<1>5. PICK other \in g.calls : d = [f |-> g, call |-> other, r |-> Resolve(InMemoryIndex(s), g, other)]
  BY <1>4
<1>6. c.f = f /\ c.call = call /\ d.f = g /\ d.call = other
  BY <1>3, <1>5
<1>7. f.path = g.path /\ call.at = other.at
  BY <1>1, <1>6
<1>8. f = g
  BY <1>7 DEF IsSnapshot
<1>9. call = other
  <2>1. \A a, b \in f.calls : a.at = b.at => a = b
    BY DEF IsSnapshot, IsParsed
  <2> QED
    BY <1>7, <1>8, <2>1
<1> QED
  BY <1>3, <1>5, <1>8, <1>9

LEMMA OneCodeNode ==
  ASSUME NEW s, IsSnapshot(s), NEW x, CodeNode(s, x), NEW y, CodeNode(s, y),
         x.label = y.label, x.key = y.key
  PROVE  x = y
<1>1. CASE x.label # "CallSite"
  BY <1>1, CodeNodesAre
<1>2. CASE x.label = "CallSite"
  <2>1. PICK c \in CallsIn(s) : x = CallNode(c.f, c.call, c.r)
    BY <1>2, CodeNodesAre
  <2>2. PICK d \in CallsIn(s) : y = CallNode(d.f, d.call, d.r)
    BY <1>2, CodeNodesAre
  <2>3. x.key = CallKey(c.f, c.call, c.r) /\ y.key = CallKey(d.f, d.call, d.r)
    BY <2>1, <2>2 DEF CallNode, Node
  <2> QED
    BY <2>1, <2>2, <2>3, OneCall
<1> QED
  BY <1>1, <1>2

LEMMA ObjectsAre ==
  ASSUME NEW s, NEW o \in SqlIndex(s).objects
  PROVE  o = SqlObject(o.schema, o.kind, o.name, o.signature)
<1> DEFINE refs == [f \in SqlFiles(s) |-> ScriptRefs(f.sql)]
           all == UNION {ToSet(refs[f]) : f \in DOMAIN refs}
<1>1. SqlIndex(s).objects = SqlObjects(all)
  BY DEF SqlIndex
<1> HIDE DEF all
<1>2. PICK r \in all : o = SqlObject(Place(r), r.kind, r.name, r.signature)
  BY <1>1 DEF SqlObjects
<1> QED
  BY <1>2 DEF SqlObject

LEMMA OneObject ==
  ASSUME NEW s, NEW o \in SqlIndex(s).objects, NEW p \in SqlIndex(s).objects, ObjectKey(o) = ObjectKey(p)
  PROVE  o = p
<1>1. o.schema = p.schema /\ o.kind = p.kind /\ o.name = p.name /\ o.signature = p.signature
  BY DEF ObjectKey
<1> QED
  BY <1>1, ObjectsAre

LEMMA OneSqlNode ==
  ASSUME NEW s, IsSnapshot(s), NEW x, SqlNodeForm(s, x), NEW y, SqlNodeForm(s, y),
         x.label = y.label, x.key = y.key
  PROVE  x = y
<1> DEFINE ix == SqlIndex(s)
           ranks == {f.rank : f \in ToSet(s)}
           Base(z) == z = Node("Database", DatabaseKey, Plain)
           Object(z) == \E o \in ObjectsOf(ix, ranks) : z = Node("SqlObject", ObjectKey(o), <<"defined", Cardinality(DefinitionsOf(ix, o))>>)
           Artifact(z) == z = Node("SqlArtifact", z.key, Plain)
           Statement(z) == z = Node("SqlStatement", z.key, Plain)
           Reference(z) == \E f \in SqlFiles(s) : \E n \in DOMAIN ix.refs[f] :
             z = Node("Reference", ReferenceKey(f, ix.refs[f][n].at, n),
                      <<ix.refs[f][n].role, ResolveUncached(ix.objects, ix.refs[f][n])>>)
<1>1. \A label, key, of : Node(label, key, of).label = label /\ Node(label, key, of).key = key
  BY DEF Node
<1>2. \A z : SqlNodeForm(s, z) => Base(z) \/ Object(z) \/ Artifact(z) \/ Statement(z) \/ Reference(z)
  <2> TAKE z
  <2> HAVE SqlNodeForm(s, z)
  <2>1. \A f, at : z = Node("SqlArtifact", ArtifactKey(f), Plain) => Artifact(z)
    BY <1>1
  <2>2. \A f, at : z = Node("SqlStatement", StatementKey(f, at), Plain) => Statement(z)
    BY <1>1
  <2> HIDE DEF Artifact, Statement
  <2> QED
    BY <2>1, <2>2 DEF SqlNodeForm
<1>3. \A z : /\ Base(z) => z.label = "Database"
             /\ Object(z) => z.label = "SqlObject"
             /\ Artifact(z) => z.label = "SqlArtifact"
             /\ Statement(z) => z.label = "SqlStatement"
             /\ Reference(z) => z.label = "Reference"
  <2> HIDE DEF ix, ranks
  <2>1. \A z : (Base(z) => z.label = "Database") /\ (Artifact(z) => z.label = "SqlArtifact")
               /\ (Statement(z) => z.label = "SqlStatement")
    BY <1>1
  <2>2. \A z : Object(z) => z.label = "SqlObject"
    BY <1>1
  <2>3. \A z : Reference(z) => z.label = "Reference"
    BY <1>1
  <2> HIDE DEF Base, Object, Artifact, Statement, Reference
  <2> QED
    BY <2>1, <2>2, <2>3
<1>4. ASSUME Object(x), Object(y) PROVE x = y
  <2>1. PICK o \in ObjectsOf(ix, ranks) : x = Node("SqlObject", ObjectKey(o), <<"defined", Cardinality(DefinitionsOf(ix, o))>>)
    BY <1>4
  <2>2. PICK p \in ObjectsOf(ix, ranks) : y = Node("SqlObject", ObjectKey(p), <<"defined", Cardinality(DefinitionsOf(ix, p))>>)
    BY <1>4
  <2>3. o \in ix.objects /\ p \in ix.objects
    BY DEF ObjectsOf
  <2>4. ObjectKey(o) = ObjectKey(p)
    BY <1>1, <2>1, <2>2
  <2> QED
    BY <2>1, <2>2, <2>3, <2>4, OneObject
<1>5. ASSUME Reference(x), Reference(y) PROVE x = y
  <2> HIDE DEF ix
  <2>1a. PICK f \in SqlFiles(s) : \E n \in DOMAIN ix.refs[f] :
          x = Node("Reference", ReferenceKey(f, ix.refs[f][n].at, n),
                   <<ix.refs[f][n].role, ResolveUncached(ix.objects, ix.refs[f][n])>>)
    BY <1>5
  <2>1. PICK n \in DOMAIN ix.refs[f] :
          x = Node("Reference", ReferenceKey(f, ix.refs[f][n].at, n),
                   <<ix.refs[f][n].role, ResolveUncached(ix.objects, ix.refs[f][n])>>)
    BY <2>1a
  <2>2a. PICK g \in SqlFiles(s) : \E m \in DOMAIN ix.refs[g] :
          y = Node("Reference", ReferenceKey(g, ix.refs[g][m].at, m),
                   <<ix.refs[g][m].role, ResolveUncached(ix.objects, ix.refs[g][m])>>)
    BY <1>5
  <2>2. PICK m \in DOMAIN ix.refs[g] :
          y = Node("Reference", ReferenceKey(g, ix.refs[g][m].at, m),
                   <<ix.refs[g][m].role, ResolveUncached(ix.objects, ix.refs[g][m])>>)
    BY <2>2a
  <2>3. ReferenceKey(f, ix.refs[f][n].at, n) = ReferenceKey(g, ix.refs[g][m].at, m)
    BY <1>1, <2>1, <2>2
  <2>4. f.path = g.path /\ n = m
    BY <2>3 DEF ReferenceKey
  <2>5. f = g
    BY <2>4 DEF IsSnapshot, SqlFiles
  <2> QED
    BY <2>1, <2>2, <2>4, <2>5
<1>6. Base(x) /\ Base(y) => x = y
  OBVIOUS
<1>7. (Artifact(x) /\ Artifact(y)) \/ (Statement(x) /\ Statement(y)) => x = y
  OBVIOUS
<1> HIDE DEF Base, Object, Artifact, Statement, Reference
<1> QED
  BY <1>2, <1>3, <1>4, <1>5, <1>6, <1>7

LEMMA GraphOneEach ==
  ASSUME NEW x \in Sources
  PROVE  OneEach(CodeGraph(x).nodes)
<1> DEFINE s == x.snapshot
           P == SqlPart(s, SqlIndex(s)).nodes
           W == CodeGraph(x).nodes
<1> HIDE DEF s
<1>1. IsSnapshot(s)
  BY SourcesAre DEF s
<1>2. \A n \in W : CodeNode(s, n) \/ n \in P
  <2> TAKE n \in W
  <2>1. n.label # "Repository" /\ (n = Node("Repository", RepositoryKey, Plain) \/ CodeNode(s, n) \/ n \in P)
    BY GraphIs DEF s
  <2>2. Node("Repository", RepositoryKey, Plain).label = "Repository"
    BY DEF Node
  <2> QED
    BY <2>1, <2>2
<1>3. \A n : CodeNode(s, n) => n.label \in CodeLabels
  BY CodeNodesAre
<1>4. \A n \in P : n.label \in ToSet(SqlLabels) /\ SqlNodeForm(s, n)
  BY SqlNodesLabelled, SqlNodesAre
<1>5. CodeLabels \cap ToSet(SqlLabels) = {}
  <2>1. ToSet(SqlLabels) = {"Database", "SqlObject", "SqlArtifact", "SqlStatement", "Reference"}
    BY DEF SqlLabels, ToSet
  <2> QED
    BY <2>1 DEF CodeLabels
<1> HIDE DEF P, W
<1> SUFFICES ASSUME NEW n \in W, NEW m \in W, n.label = m.label, n.key = m.key PROVE n = m
  BY DEF OneEach, W
<1>6. CASE CodeNode(s, n) /\ CodeNode(s, m)
  BY <1>1, <1>6, OneCodeNode
<1>7. CASE n \in P /\ m \in P
  BY <1>1, <1>4, <1>7, OneSqlNode
<1> QED
  BY <1>2, <1>3, <1>4, <1>5, <1>6, <1>7

(***************************************************************************)
(* The relationships of SQL, and where they may hang on.                   *)
(***************************************************************************)
RefRelForm(ix, f, n, r) ==
  LET ref == ix.refs[f][n]
      answer == ResolveUncached(ix.objects, ref)
  IN  \/ r = Rel("HAS_REFERENCE", StatementKey(f, ref.at), ReferenceKey(f, ref.at, n), Plain)
      \/ answer.status = "exact" /\ r = Rel("REFERS_TO", ReferenceKey(f, ref.at, n), ObjectKey(answer.target), Plain)
      \/ answer.status = "exact" /\ r = Rel(RoleKind[ref.role], StatementKey(f, ref.at), ObjectKey(answer.target), Plain)
SqlRelForm(s, r) ==
  LET ix == SqlIndex(s)
      ranks == {f.rank : f \in ToSet(s)}
  IN  \/ DatabaseKey \in DatabasesOf(ix, ranks) /\ r = Rel("HAS_DATABASE", RepositoryKey, DatabaseKey, Plain)
      \/ \E o \in ObjectsOf(ix, ranks) : r = Rel("HAS_OBJECT", DatabaseKey, ObjectKey(o), Plain)
      \/ \E f \in SqlFiles(s) :
           \/ r = Rel("CONTAINS_SQL", FileKey(f), ArtifactKey(f), Plain)
           \/ \E at \in Places(f.sql) :
                \/ r = Rel("CONTAINS_SQL", ArtifactKey(f), StatementKey(f, at), Plain)
                \/ Len(at) = 2 /\ r = Rel("CONTAINS_SQL", StatementKey(f, <<at[1]>>), StatementKey(f, at), Plain)
           \/ \E n \in DOMAIN ix.refs[f] : RefRelForm(ix, f, n, r)

LEMMA RefRelsAre ==
  ASSUME NEW ix, NEW f, NEW n, NEW r
  PROVE  r \in RefRels(ix, f, n) <=> RefRelForm(ix, f, n, r)
<1> DEFINE ref == ix.refs[f][n]
           answer == ResolveUncached(ix.objects, ref)
           a == Rel("HAS_REFERENCE", StatementKey(f, ref.at), ReferenceKey(f, ref.at, n), Plain)
           b == Rel("REFERS_TO", ReferenceKey(f, ref.at, n), ObjectKey(answer.target), Plain)
           c == Rel(RoleKind[ref.role], StatementKey(f, ref.at), ObjectKey(answer.target), Plain)
<1>1. RefRels(ix, f, n) = {a} \cup (IF answer.status # "exact" THEN {} ELSE {b, c})
  BY DEF RefRels
<1>2. RefRelForm(ix, f, n, r) <=> r = a \/ (answer.status = "exact" /\ r = b) \/ (answer.status = "exact" /\ r = c)
  BY DEF RefRelForm
<1> HIDE DEF a, b, c, answer
<1> QED
  BY <1>1, <1>2

LEMMA SqlRelsAre ==
  ASSUME NEW s, NEW r
  PROVE  r \in SqlPart(s, SqlIndex(s)).rels <=> SqlRelForm(s, r)
<1> DEFINE ix == SqlIndex(s)
           ranks == {f.rank : f \in ToSet(s)}
           F == SqlFiles(s)
<1>1. SqlPart(s, ix).rels = SqlGlobalRels(ix, ranks) \cup (UNION {SqlRels(ix, f) : f \in F})
  BY DEF SqlPart
<1> HIDE DEF ix, ranks, F
<1>2. r \in SqlGlobalRels(ix, ranks) <=>
        \/ DatabaseKey \in DatabasesOf(ix, ranks) /\ r = Rel("HAS_DATABASE", RepositoryKey, DatabaseKey, Plain)
        \/ \E o \in ObjectsOf(ix, ranks) : r = Rel("HAS_OBJECT", DatabaseKey, ObjectKey(o), Plain)
  <2> DEFINE bases == {Rel("HAS_DATABASE", RepositoryKey, key, Plain) : key \in DatabasesOf(ix, ranks)}
             objects == {Rel("HAS_OBJECT", DatabaseKey, ObjectKey(o), Plain) : o \in ObjectsOf(ix, ranks)}
  <2>1. SqlGlobalRels(ix, ranks) = bases \cup objects
    BY DEF SqlGlobalRels
  <2>2. r \in bases <=> DatabaseKey \in DatabasesOf(ix, ranks) /\ r = Rel("HAS_DATABASE", RepositoryKey, DatabaseKey, Plain)
    BY DatabaseIs
  <2>3. r \in objects <=> \E o \in ObjectsOf(ix, ranks) : r = Rel("HAS_OBJECT", DatabaseKey, ObjectKey(o), Plain)
    OBVIOUS
  <2> HIDE DEF bases, objects
  <2> QED
    BY <2>1, <2>2, <2>3
<1>3. ASSUME NEW f
      PROVE  r \in SqlRels(ix, f) <=>
           \/ r = Rel("CONTAINS_SQL", FileKey(f), ArtifactKey(f), Plain)
           \/ \E at \in Places(f.sql) :
                \/ r = Rel("CONTAINS_SQL", ArtifactKey(f), StatementKey(f, at), Plain)
                \/ Len(at) = 2 /\ r = Rel("CONTAINS_SQL", StatementKey(f, <<at[1]>>), StatementKey(f, at), Plain)
           \/ \E n \in DOMAIN ix.refs[f] : RefRelForm(ix, f, n, r)
  <2> DEFINE P == Places(f.sql)
             whole == {Rel("CONTAINS_SQL", ArtifactKey(f), StatementKey(f, at), Plain) : at \in P}
             inner == {Rel("CONTAINS_SQL", StatementKey(f, <<at[1]>>), StatementKey(f, at), Plain) :
                         at \in {p \in P : Len(p) = 2}}
             N == DOMAIN ix.refs[f]
             of == UNION {RefRels(ix, f, n) : n \in N}
  <2>1. SqlRels(ix, f) = {Rel("CONTAINS_SQL", FileKey(f), ArtifactKey(f), Plain)} \cup whole \cup inner \cup of
    BY DEF SqlRels
  <2> HIDE DEF P, N
  <2>2. r \in whole <=> \E at \in P : r = Rel("CONTAINS_SQL", ArtifactKey(f), StatementKey(f, at), Plain)
    OBVIOUS
  <2>3. r \in inner <=> \E at \in P : Len(at) = 2 /\ r = Rel("CONTAINS_SQL", StatementKey(f, <<at[1]>>), StatementKey(f, at), Plain)
    OBVIOUS
  <2>4. r \in of <=> \E n \in N : RefRelForm(ix, f, n, r)
    <3>1. r \in of <=> \E n \in N : r \in RefRels(ix, f, n)
      OBVIOUS
    <3> HIDE DEF of
    <3> QED
      BY <3>1, RefRelsAre
  <2> HIDE DEF whole, inner, of
  <2> QED
    BY <2>1, <2>2, <2>3, <2>4 DEF P, N
<1>4. r \in SqlPart(s, ix).rels <=> r \in SqlGlobalRels(ix, ranks) \/ \E f \in F : r \in SqlRels(ix, f)
  BY <1>1
<1> QED
  BY <1>2, <1>3, <1>4 DEF SqlRelForm, ix, ranks, F

LEMMA RefsAre ==
  ASSUME NEW s, IsSnapshot(s), NEW f \in SqlFiles(s), NEW n \in DOMAIN SqlIndex(s).refs[f]
  PROVE  LET r == SqlIndex(s).refs[f][n]
         IN  r.at \in Places(f.sql) /\ r.role \in Roles /\ r \in ToSet(SqlIndex(s).refs[f])
<1> DEFINE refs == SqlIndex(s).refs[f]
<1>1. IsScript(f.sql) /\ refs = ScriptRefs(f.sql)
  BY FiniteSqlIndex
<1> HIDE DEF refs
<1>2. refs[n] \in ToSet(refs)
  BY DEF ToSet, refs
<1>3. \A r \in ToSet(refs) : r.at \in Places(f.sql) /\ r.role \in Roles
  BY <1>1, ScriptRefsListed
<1> QED
  BY <1>2, <1>3 DEF refs

LEMMA SqlRelsKinds ==
  ASSUME NEW s, IsSnapshot(s), NEW r \in SqlPart(s, SqlIndex(s)).rels
  PROVE  \E n \in 1 .. 11 : r.kind = SqlKinds[n]
<1>1. \A kind, start, end, of : Rel(kind, start, end, of).kind = kind
  BY DEF Rel
<1>2. /\ SqlKinds[1] = "HAS_DATABASE" /\ SqlKinds[2] = "HAS_OBJECT" /\ SqlKinds[3] = "CONTAINS_SQL"
      /\ SqlKinds[4] = "HAS_REFERENCE" /\ SqlKinds[5] = "REFERS_TO" /\ SqlKinds[6] = "DEFINES"
      /\ SqlKinds[7] = "READS_FROM" /\ SqlKinds[8] = "WRITES_TO" /\ SqlKinds[9] = "INVOKES_SQL"
      /\ SqlKinds[10] = "ALTERS" /\ SqlKinds[11] = "DROPS"
  BY DEF SqlKinds
<1>3. \A role \in Roles : RoleKind[role] \in {"DEFINES", "READS_FROM", "WRITES_TO", "INVOKES_SQL", "ALTERS", "DROPS"}
  BY DEF Roles, RoleKind
<1> DEFINE K == {"HAS_DATABASE", "HAS_OBJECT", "CONTAINS_SQL", "HAS_REFERENCE", "REFERS_TO",
                 "DEFINES", "READS_FROM", "WRITES_TO", "INVOKES_SQL", "ALTERS", "DROPS"}
           ix == SqlIndex(s)
<1>4. SqlRelForm(s, r)
  BY SqlRelsAre
<1>5. r.kind \in K
  <2>1. CASE r = Rel("HAS_DATABASE", RepositoryKey, DatabaseKey, Plain)
    BY <1>1, <2>1
  <2>2. ASSUME NEW o, r = Rel("HAS_OBJECT", DatabaseKey, ObjectKey(o), Plain) PROVE r.kind \in K
    BY <1>1, <2>2
  <2>3. ASSUME NEW a, NEW b, r = Rel("CONTAINS_SQL", a, b, Plain) PROVE r.kind \in K
    BY <1>1, <2>3
  <2>4. ASSUME NEW f \in SqlFiles(s), NEW n \in DOMAIN ix.refs[f], RefRelForm(ix, f, n, r) PROVE r.kind \in K
    <3>1. ix.refs[f][n].role \in Roles
      BY RefsAre
    <3> HIDE DEF ix
    <3>2. r.kind = "HAS_REFERENCE" \/ r.kind = "REFERS_TO" \/ r.kind = RoleKind[ix.refs[f][n].role]
      BY <1>1, <2>4 DEF RefRelForm
    <3> QED
      BY <1>3, <3>1, <3>2
  <2> HIDE DEF K
  <2> QED
    BY <1>4, <2>1, <2>2, <2>3, <2>4 DEF SqlRelForm
<1> QED
  BY <1>2, <1>5

(***************************************************************************)
(* The rows of a plan make the graph, and nothing else.                    *)
(***************************************************************************)
LEMMA RowParts ==
  /\ \A r : Link(r).nodes = {} /\ Link(r).rels = {r}
  /\ \A x : Lone(x).nodes = {x} /\ Lone(x).rels = {}
  /\ \A r : ImportRow(r).nodes = {Node("Module", r.end, Plain)} /\ ImportRow(r).rels = {r}
  /\ \A f : /\ FileRow(f).nodes = {Node("File", FileKey(f), Plain), Node("Module", ModuleKey(f.module), Plain)}
            /\ FileRow(f).rels = {Rel("CONTAINS", RepositoryKey, FileKey(f), Plain),
                                  Rel("DEFINES", FileKey(f), ModuleKey(f.module), Plain)}
  /\ \A f, n : /\ DiagnosticRow(f, n).nodes = {Node("ParseDiagnostic", Diagnostic(f, n), Plain)}
               /\ DiagnosticRow(f, n).rels = {Rel("HAS_DIAGNOSTIC", FileKey(f), Diagnostic(f, n), Plain)}
  /\ \A f : /\ InitRow(f).nodes = {Node("ModuleInit", InitKey(f), Plain)}
            /\ InitRow(f).rels = {Rel("CONTAINS", FileKey(f), InitKey(f), Plain),
                                  Rel("INITIALIZES", ModuleKey(f.module), InitKey(f), Plain)}
  /\ \A f, y : /\ SymbolRow(f, y).nodes = {SymbolNode(f, y)}
               /\ SymbolRow(f, y).rels = {Rel("CONTAINS", FileKey(f), Ref(f, y).key, Plain)}
BY DEF Link, Lone, ImportRow, FileRow, DiagnosticRow, InitRow, SymbolRow, Row

LEMMA FileRelsAre ==
  ASSUME NEW f, NEW r
  PROVE  r \in FileRels(f) <=>
           \/ r \in FileRow(f).rels
           \/ f.sql = None /\ r \in InitRow(f).rels
           \/ \E d \in 1 .. f.diagnostics : r \in DiagnosticRow(f, d).rels
           \/ \E y \in f.symbols : r \in SymbolRow(f, y).rels
<1> DEFINE first == {Rel("CONTAINS", RepositoryKey, FileKey(f), Plain),
                     Rel("DEFINES", FileKey(f), ModuleKey(f.module), Plain)}
           init(key) == {Rel("CONTAINS", FileKey(f), key, Plain), Rel("INITIALIZES", ModuleKey(f.module), key, Plain)}
           inits == UNION {init(key) : key \in ModuleInits(f)}
           found == {Rel("HAS_DIAGNOSTIC", FileKey(f), Diagnostic(f, n), Plain) : n \in 1 .. f.diagnostics}
           symbols == {Rel("CONTAINS", FileKey(f), Ref(f, y).key, Plain) : y \in f.symbols}
<1>1. FileRels(f) = first \cup inits \cup found \cup symbols
  BY DEF FileRels
<1>2. r \in first <=> r \in FileRow(f).rels
  BY RowParts
<1>3. r \in inits <=> f.sql = None /\ r \in InitRow(f).rels
  <2>1. InitRow(f).rels = init(InitKey(f))
    BY RowParts
  <2>2. ModuleInits(f) = IF f.sql = None THEN {InitKey(f)} ELSE {}
    BY DEF ModuleInits
  <2> HIDE DEF init
  <2> QED
    BY <2>1, <2>2
<1>4. r \in found <=> \E d \in 1 .. f.diagnostics : r \in DiagnosticRow(f, d).rels
  <2>1. \A d : DiagnosticRow(f, d).rels = {Rel("HAS_DIAGNOSTIC", FileKey(f), Diagnostic(f, d), Plain)}
    BY RowParts
  <2> QED
    BY <2>1
<1>5. r \in symbols <=> \E y \in f.symbols : r \in SymbolRow(f, y).rels
  <2>1. \A y : SymbolRow(f, y).rels = {Rel("CONTAINS", FileKey(f), Ref(f, y).key, Plain)}
    BY RowParts
  <2> QED
    BY <2>1
<1> HIDE DEF first, inits, found, symbols
<1> QED
  BY <1>1, <1>2, <1>3, <1>4, <1>5

LEMMA CallRelsAre ==
  ASSUME NEW f, NEW call, NEW r
  PROVE  /\ \A e \in CallOwnerRel(f, call, r) : /\ r.owner # None /\ e.kind = "HAS_CALLSITE"
                                                /\ e.start = r.owner /\ e.end = CallKey(f, call, r)
         /\ \A e \in CalledRels(f, call, r) :
              LET target == IF r.constructs # None THEN r.initializer ELSE r.target
              IN  /\ r.owner # None /\ target # None
                  /\ \/ e.kind = "CALLS" /\ e.start = r.owner /\ e.end = target
                     \/ e.kind = "EXACT_CALLS" /\ e.start = r.owner /\ e.end = target
                     \/ e.kind = "RESOLVES_TO" /\ e.start = CallKey(f, call, r) /\ e.end = target
         /\ \A e \in ConstructRels(f, call, r) : /\ r.owner # None /\ r.constructs # None /\ e.kind = "CONSTRUCTS"
                                                 /\ e.start \in {CallKey(f, call, r), r.owner} /\ e.end = r.constructs
<1> DEFINE key == CallKey(f, call, r)
           target == IF r.constructs # None THEN r.initializer ELSE r.target
<1>1. \A kind, start, end, of : LET e == Rel(kind, start, end, of) IN e.kind = kind /\ e.start = start /\ e.end = end
  BY DEF Rel
<1>2. CallOwnerRel(f, call, r) = IF r.owner = None THEN {} ELSE {Rel("HAS_CALLSITE", r.owner, key, Plain)}
  BY DEF CallOwnerRel
<1>3. CalledRels(f, call, r) = IF target = None \/ r.owner = None THEN {}
                               ELSE {Rel("CALLS", r.owner, target, key), Rel("EXACT_CALLS", r.owner, target, key),
                                     Rel("RESOLVES_TO", key, target, key)}
  BY DEF CalledRels
<1>4. ConstructRels(f, call, r) = IF r.constructs = None \/ r.owner = None THEN {}
                                  ELSE {Rel("CONSTRUCTS", key, r.constructs, key), Rel("CONSTRUCTS", r.owner, r.constructs, key)}
  BY DEF ConstructRels
<1> HIDE DEF key, target
<1>5. \A e \in CallOwnerRel(f, call, r) : r.owner # None /\ e.kind = "HAS_CALLSITE" /\ e.start = r.owner /\ e.end = key
  BY <1>1, <1>2
<1>6. \A e \in CalledRels(f, call, r) :
        /\ r.owner # None /\ target # None
        /\ \/ e.kind = "CALLS" /\ e.start = r.owner /\ e.end = target
           \/ e.kind = "EXACT_CALLS" /\ e.start = r.owner /\ e.end = target
           \/ e.kind = "RESOLVES_TO" /\ e.start = key /\ e.end = target
  BY <1>1, <1>3
<1>7. \A e \in ConstructRels(f, call, r) :
        r.owner # None /\ r.constructs # None /\ e.kind = "CONSTRUCTS" /\ e.start \in {key, r.owner} /\ e.end = r.constructs
  BY <1>1, <1>4
<1> QED
  BY <1>5, <1>6, <1>7 DEF key, target

(* The nodes and relationships of a file are in the graph.                   *)
LEMMA RowsFit ==
  ASSUME NEW x, NEW n \in 1 .. 32, NEW row \in Planned(x.snapshot, n)
  PROVE  row.nodes \subseteq CodeGraph(x).nodes /\ row.rels \subseteq CodeGraph(x).rels
<1> DEFINE s == x.snapshot
           w == CodeGraph(x)
           part == SqlPart(s, SqlIndex(s))
<1>1. \A r : CodeRel(s, r) \/ r \in part.rels => r \in w.rels
  BY GraphIs
<1>2. \A m : CodeNode(s, m) \/ m \in part.nodes => m \in w.nodes
  <2> TAKE m
  <2>1. CodeNode(s, m) => m.label # "Repository"
    BY CodeNodesAre DEF CodeLabels
  <2>2. m \in part.nodes => m.label # "Repository"
    <3>1. ToSet(SqlLabels) = {"Database", "SqlObject", "SqlArtifact", "SqlStatement", "Reference"}
      BY DEF SqlLabels, ToSet
    <3> QED
      BY <3>1, SqlNodesLabelled
  <2> QED
    BY <2>1, <2>2, GraphIs
<1> DEFINE Fits(z) == z.nodes \subseteq w.nodes /\ z.rels \subseteq w.rels
<1> HIDE DEF s, w, part
<1>3. \A r : CodeRel(s, r) \/ r \in part.rels => Fits(Link(r))
  BY <1>1, RowParts
<1>4. \A m : CodeNode(s, m) \/ m \in part.nodes => Fits(Lone(m))
  BY <1>2, RowParts
<1>5. ASSUME NEW f \in ToSet(s), NEW z,
             \/ z = FileRow(f) \/ (f.sql = None /\ z = InitRow(f))
             \/ \E d \in 1 .. f.diagnostics : z = DiagnosticRow(f, d)
             \/ \E y \in f.symbols : z = SymbolRow(f, y)
      PROVE  Fits(z)
  <2>1. \A r \in z.rels : r \in FileRels(f)
    BY <1>5, FileRelsAre
  <2>2. \A r \in z.rels : CodeRel(s, r)
    BY <2>1 DEF CodeRel
  <2>3. \A m : \/ m = Node("Module", ModuleKey(f.module), Plain) \/ m = Node("File", FileKey(f), Plain)
               \/ f.sql = None /\ m = Node("ModuleInit", InitKey(f), Plain)
               \/ \E d \in 1 .. f.diagnostics : m = Node("ParseDiagnostic", Diagnostic(f, d), Plain)
               \/ \E y \in f.symbols : m = SymbolNode(f, y)
               => CodeNode(s, m)
    BY FileNodesAre DEF CodeNode
  <2>4. \A m \in z.nodes : CodeNode(s, m)
    <3>1. CASE z = FileRow(f)
      BY <2>3, <3>1, RowParts
    <3>2. CASE f.sql = None /\ z = InitRow(f)
      BY <2>3, <3>2, RowParts
    <3>3. CASE \E d \in 1 .. f.diagnostics : z = DiagnosticRow(f, d)
      BY <2>3, <3>3, RowParts
    <3>4. CASE \E y \in f.symbols : z = SymbolRow(f, y)
      BY <2>3, <3>4, RowParts
    <3> QED
      BY <1>5, <3>1, <3>2, <3>3, <3>4
  <2> QED
    BY <1>1, <1>2, <2>2, <2>4
<1>6. ASSUME NEW f \in ToSet(s), NEW r \in ImportRels(f) PROVE Fits(ImportRow(r))
  <2>1. CodeRel(s, r)
    BY <1>6 DEF CodeRel
  <2>2. CodeNode(s, Node("Module", r.end, Plain))
    BY <1>6 DEF CodeNode
  <2> QED
    BY <1>1, <1>2, <2>1, <2>2, RowParts
<1>7. \A f \in ToSet(s) : \A r : r \in MethodRels(InMemoryIndex(s), f) \/ r \in Inherits(InMemoryIndex(s), f) => CodeRel(s, r)
  BY DEF CodeRel
<1>8. \A c \in CallsIn(s) : /\ CodeNode(s, CallNode(c.f, c.call, c.r))
                            /\ \A r : r \in CallOwnerRel(c.f, c.call, c.r) \/ r \in CalledRels(c.f, c.call, c.r)
                                      \/ r \in ConstructRels(c.f, c.call, c.r) => CodeRel(s, r)
  BY DEF CodeNode, CodeRel, CallRels
<1>9. row \in Planned(s, n)
  BY DEF s
<1>10. Fits(row)
  <2> HIDE DEF Fits
  <2>1. CASE n \in 1 .. 9
    <3>1. CodeRow(s, n, row)
      BY <1>9, <2>1, CodeRowsAre
    <3>2. CASE n \in 1 .. 6
      <4>0. n # 7 /\ n # 8 /\ n # 9
        BY <3>2
      <4>1. \E f \in ToSet(s) : \/ row = FileRow(f) \/ (f.sql = None /\ row = InitRow(f))
                                \/ \E d \in 1 .. f.diagnostics : row = DiagnosticRow(f, d)
                                \/ \E y \in f.symbols : row = SymbolRow(f, y)
        BY <3>1, <4>0 DEF CodeRow
      <4> QED
        BY <1>5, <4>1
    <3>3. CASE n \in 7 .. 9
      <4>1. \E f \in ToSet(s) : \/ \E r \in MethodRels(InMemoryIndex(s), f) : row = Link(r)
                                \/ \E r \in ImportRels(f) : row = ImportRow(r)
                                \/ \E r \in Inherits(InMemoryIndex(s), f) : row = Link(r)
        BY <3>1, <3>3 DEF CodeRow
      <4> QED
        BY <1>3, <1>6, <1>7, <4>1
    <3> QED
      BY <2>1, <3>2, <3>3
  <2>2. CASE n \in 10 .. 16
    <3>1. CallRow(s, n, row)
      BY <1>9, <2>2, CallRowsAre
    <3> QED
      BY <1>3, <1>4, <1>8, <3>1 DEF CallRow
  <2>3. CASE n \in 17 .. 32
    <3>1. SqlRow(s, n, row)
      BY <1>9, <2>3, SqlRowsAre
    <3> QED
      BY <1>3, <1>4, <3>1 DEF SqlRow, part
  <2> QED
    BY <2>1, <2>2, <2>3
<1> QED
  BY <1>10 DEF w

(* Every node and every relationship of the graph is of a row.               *)
LEMMA NodesHaveRows ==
  ASSUME NEW x, NEW m \in CodeGraph(x).nodes
  PROVE  \E n \in 1 .. 32 : \E row \in Planned(x.snapshot, n) : m \in row.nodes
<1> DEFINE s == x.snapshot
           part == SqlPart(s, SqlIndex(s))
           Found(z) == \E n \in 1 .. 32 : \E row \in Planned(s, n) : z \in row.nodes
<1> HIDE DEF s
<1>1. \/ CodeNode(s, m) \/ m \in part.nodes
  <2>1. m.label # "Repository" /\ (m = Node("Repository", RepositoryKey, Plain) \/ CodeNode(s, m) \/ m \in part.nodes)
    BY GraphIs DEF s
  <2>2. Node("Repository", RepositoryKey, Plain).label = "Repository"
    BY DEF Node
  <2> QED
    BY <2>1, <2>2
<1>2. \A n \in 1 .. 9 : \A row : CodeRow(s, n, row) => \A z \in row.nodes : Found(z)
  <2> TAKE n \in 1 .. 9
  <2> TAKE row
  <2> HAVE CodeRow(s, n, row)
  <2>1. row \in Planned(s, n)
    BY CodeRowsAre
  <2> QED
    BY <2>1
<1>3. \A row : CallRow(s, 10, row) => \A z \in row.nodes : Found(z)
  <2> TAKE row
  <2> HAVE CallRow(s, 10, row)
  <2>1. row \in Planned(s, 10)
    BY CallRowsAre
  <2> QED
    BY <2>1
<1>4. \A n \in 17 .. 21 : \A row : SqlRow(s, n, row) => \A z \in row.nodes : Found(z)
  <2> TAKE n \in 17 .. 21
  <2> TAKE row
  <2> HAVE SqlRow(s, n, row)
  <2>1. row \in Planned(s, n)
    BY SqlRowsAre
  <2> QED
    BY <2>1
<1> HIDE DEF Found
<1>5. ASSUME NEW f \in ToSet(s), m = Node("Module", ModuleKey(f.module), Plain) \/ m = Node("File", FileKey(f), Plain)
      PROVE  Found(m)
  <2>1. CodeRow(s, 1, FileRow(f))
    BY DEF CodeRow
  <2>2. m \in FileRow(f).nodes
    BY <1>5, RowParts
  <2> QED
    BY <1>2, <2>1, <2>2
<1>6. ASSUME NEW f \in ToSet(s), f.sql = None, m = Node("ModuleInit", InitKey(f), Plain) PROVE Found(m)
  <2>1. CodeRow(s, 3, InitRow(f))
    BY <1>6 DEF CodeRow
  <2>2. m \in InitRow(f).nodes
    BY <1>6, RowParts
  <2> QED
    BY <1>2, <2>1, <2>2
<1>7. ASSUME NEW f \in ToSet(s), NEW d \in 1 .. f.diagnostics, m = Node("ParseDiagnostic", Diagnostic(f, d), Plain)
      PROVE  Found(m)
  <2>1. CodeRow(s, 2, DiagnosticRow(f, d))
    BY DEF CodeRow
  <2>2. m \in DiagnosticRow(f, d).nodes
    BY <1>7, RowParts
  <2> QED
    BY <1>2, <2>1, <2>2
<1>8. ASSUME NEW f \in ToSet(s), NEW y \in f.symbols, m = SymbolNode(f, y) PROVE Found(m)
  <2>1. PICK n \in 4 .. 6 : Label(y) = SymbolAt(n)
    BY DEF Label, SymbolAt
  <2>2. CodeRow(s, n, SymbolRow(f, y))
    BY <2>1 DEF CodeRow
  <2>3. m \in SymbolRow(f, y).nodes
    BY <1>8, RowParts
  <2> QED
    BY <1>2, <2>2, <2>3
<1>9. ASSUME NEW f \in ToSet(s), NEW r \in ImportRels(f), m = Node("Module", r.end, Plain) PROVE Found(m)
  <2>1. CodeRow(s, 8, ImportRow(r))
    BY DEF CodeRow
  <2>2. m \in ImportRow(r).nodes
    BY <1>9, RowParts
  <2> QED
    BY <1>2, <2>1, <2>2
<1>10. ASSUME NEW c \in CallsIn(s), m = CallNode(c.f, c.call, c.r) PROVE Found(m)
  <2>1. CallRow(s, 10, Lone(m))
    BY <1>10 DEF CallRow
  <2>2. m \in Lone(m).nodes
    BY RowParts
  <2> QED
    BY <1>3, <2>1, <2>2
<1>11. ASSUME m \in part.nodes PROVE Found(m)
  <2>1. m.label \in ToSet(SqlLabels)
    BY <1>11, SqlNodesLabelled
  <2>2. DOMAIN SqlLabels = 1 .. 5
    BY DEF SqlLabels
  <2>3. PICK i \in 1 .. 5 : m.label = SqlLabels[i]
    BY <2>1, <2>2 DEF ToSet
  <2>4. PICK k \in 17 .. 21 : k - 16 = i
    OBVIOUS
  <2>5. m.label = SqlLabels[k - 16]
    BY <2>3, <2>4
  <2>6. SqlRow(s, k, Lone(m))
    BY <1>11, <2>5 DEF SqlRow
  <2>7. m \in Lone(m).nodes
    BY RowParts
  <2> QED
    BY <1>4, <2>6, <2>7
<1>12. ASSUME CodeNode(s, m) PROVE Found(m)
  <2> HIDE DEF part
  <2>1. ASSUME NEW f \in ToSet(s), m \in FileNodes(f) PROVE Found(m)
    <3>1. \/ m = Node("File", FileKey(f), Plain)
          \/ f.sql = None /\ m = Node("ModuleInit", InitKey(f), Plain)
          \/ \E d \in 1 .. f.diagnostics : m = Node("ParseDiagnostic", Diagnostic(f, d), Plain)
          \/ \E y \in f.symbols : m = SymbolNode(f, y)
      BY <2>1, FileNodesAre
    <3> QED
      BY <1>5, <1>6, <1>7, <1>8, <3>1
  <2> QED
    BY <1>5, <1>9, <1>10, <1>12, <2>1 DEF CodeNode
<1>13. Found(m)
  BY <1>1, <1>11, <1>12
<1> QED
  BY <1>13 DEF Found, s

LEMMA RelsHaveRows ==
  ASSUME NEW x \in Sources, NEW r \in CodeGraph(x).rels
  PROVE  \E n \in 1 .. 32 : \E row \in Planned(x.snapshot, n) : r \in row.rels
<1> DEFINE s == x.snapshot
           ix == InMemoryIndex(s)
           part == SqlPart(s, SqlIndex(s))
           Found(z) == \E n \in 1 .. 32 : \E row \in Planned(s, n) : z \in row.rels
<1> HIDE DEF s
<1>1. CodeRel(s, r) \/ r \in part.rels
  BY GraphIs DEF s
<1>2. \A n \in 1 .. 9 : \A row : CodeRow(s, n, row) => \A z \in row.rels : Found(z)
  <2> TAKE n \in 1 .. 9
  <2> TAKE row
  <2> HAVE CodeRow(s, n, row)
  <2>1. row \in Planned(s, n)
    BY CodeRowsAre
  <2> QED
    BY <2>1
<1>3. \A n \in 10 .. 16 : CallRow(s, n, Link(r)) => Found(r)
  <2> TAKE n \in 10 .. 16
  <2> HAVE CallRow(s, n, Link(r))
  <2>1. Link(r) \in Planned(s, n)
    BY CallRowsAre
  <2>2. r \in Link(r).rels
    BY RowParts
  <2> QED
    BY <2>1, <2>2
<1>4. \A n \in 17 .. 32 : SqlRow(s, n, Link(r)) => Found(r)
  <2> TAKE n \in 17 .. 32
  <2> HAVE SqlRow(s, n, Link(r))
  <2>1. Link(r) \in Planned(s, n)
    BY SqlRowsAre
  <2>2. r \in Link(r).rels
    BY RowParts
  <2> QED
    BY <2>1, <2>2
<1> HIDE DEF Found
<1>5. ASSUME NEW f \in ToSet(s), r \in FileRels(f) PROVE Found(r)
  <2>1. CASE r \in FileRow(f).rels
    <3>1. CodeRow(s, 1, FileRow(f))
      BY DEF CodeRow
    <3> QED
      BY <1>2, <2>1, <3>1
  <2>2. CASE f.sql = None /\ r \in InitRow(f).rels
    <3>1. CodeRow(s, 3, InitRow(f))
      BY <2>2 DEF CodeRow
    <3> QED
      BY <1>2, <2>2, <3>1
  <2>3. ASSUME NEW d \in 1 .. f.diagnostics, r \in DiagnosticRow(f, d).rels PROVE Found(r)
    <3>1. CodeRow(s, 2, DiagnosticRow(f, d))
      BY DEF CodeRow
    <3> QED
      BY <1>2, <2>3, <3>1
  <2>4. ASSUME NEW y \in f.symbols, r \in SymbolRow(f, y).rels PROVE Found(r)
    <3>1. PICK n \in 4 .. 6 : Label(y) = SymbolAt(n)
      BY DEF Label, SymbolAt
    <3>2. CodeRow(s, n, SymbolRow(f, y))
      BY <3>1 DEF CodeRow
    <3> QED
      BY <1>2, <2>4, <3>2
  <2> QED
    BY <1>5, <2>1, <2>2, <2>3, <2>4, FileRelsAre
<1>6. ASSUME NEW f \in ToSet(s), r \in MethodRels(ix, f) \/ r \in Inherits(ix, f) PROVE Found(r)
  <2>1. CodeRow(s, 7, Link(r)) \/ CodeRow(s, 9, Link(r))
    BY <1>6 DEF CodeRow
  <2>2. r \in Link(r).rels
    BY RowParts
  <2> QED
    BY <1>2, <2>1, <2>2
<1>7. ASSUME NEW f \in ToSet(s), r \in ImportRels(f) PROVE Found(r)
  <2>1. CodeRow(s, 8, ImportRow(r))
    BY <1>7 DEF CodeRow
  <2>2. r \in ImportRow(r).rels
    BY RowParts
  <2> QED
    BY <1>2, <2>1, <2>2
<1>8. ASSUME NEW c \in CallsIn(s), r \in CallRels(c.f, c.call, c.r) PROVE Found(r)
  <2>1. CASE r \in CallOwnerRel(c.f, c.call, c.r)
    <3>1. CallRow(s, 11, Link(r))
      BY <2>1 DEF CallRow
    <3> QED
      BY <1>3, <3>1
  <2>2. CASE r \in CalledRels(c.f, c.call, c.r)
    <3>1. PICK n \in 12 .. 14 : r.kind = CalledAt(n)
      <4>1. CalledAt(12) = "CALLS" /\ CalledAt(13) = "EXACT_CALLS" /\ CalledAt(14) = "RESOLVES_TO"
        BY DEF CalledAt
      <4>2. r.kind \in {"CALLS", "EXACT_CALLS", "RESOLVES_TO"}
        BY <2>2, CallRelsAre
      <4> QED
        BY <4>1, <4>2
    <3>2. CallRow(s, n, Link(r))
      BY <2>2, <3>1 DEF CallRow
    <3> QED
      BY <1>3, <3>2
  <2>3. CASE r \in ConstructRels(c.f, c.call, c.r)
    <3>1. CASE r.start = r.of
      <4>1. CallRow(s, 15, Link(r))
        BY <2>3, <3>1 DEF CallRow
      <4> QED
        BY <1>3, <4>1
    <3>2. CASE r.start # r.of
      <4>1. CallRow(s, 16, Link(r))
        BY <2>3, <3>2 DEF CallRow
      <4> QED
        BY <1>3, <4>1
    <3> QED
      BY <3>1, <3>2
  <2> QED
    BY <1>8, <2>1, <2>2, <2>3 DEF CallRels
<1>9. ASSUME r \in part.rels PROVE Found(r)
  <2>1. PICK i \in 1 .. 11 : r.kind = SqlKinds[i]
    BY <1>9, SourcesAre, SqlRelsKinds DEF s
  <2>2. PICK k \in 22 .. 32 : k - 21 = i
    OBVIOUS
  <2>3. r.kind = SqlKinds[k - 21]
    BY <2>1, <2>2
  <2>4. SqlRow(s, k, Link(r))
    BY <1>9, <2>3 DEF SqlRow
  <2>5. k \in 17 .. 32
    OBVIOUS
  <2> QED
    BY <1>4, <2>4, <2>5
<1>10. ASSUME CodeRel(s, r) PROVE Found(r)
  BY <1>5, <1>6, <1>7, <1>8, <1>10 DEF CodeRel
<1>11. Found(r)
  BY <1>1, <1>9, <1>10
<1> QED
  BY <1>11 DEF Found, s

LEMMA PlanComplete ==
  ASSUME NEW x \in Sources
  PROVE  PlanMakes(x.snapshot, CodeGraph(x))
BY RowsFit, NodesHaveRows, RelsHaveRows DEF PlanMakes

(***************************************************************************)
(* Only the last operations write SQL, and the resolutions before them.    *)
(***************************************************************************)
LEMMA ImportRelEnds == ASSUME NEW f, NEW r \in ImportRels(f) PROVE r.kind = "IMPORTS" /\ r.start = FileKey(f) /\ ~SqlKey(r.end)
<1>1. PICK i \in ToSet(f.imports) : r = Rel("IMPORTS", FileKey(f), ExternalKey(i.module), <<"import", i.name, i.alias>>)
  BY DEF ImportRels
<1>2. r.kind = "IMPORTS" /\ r.start = FileKey(f) /\ r.end = ExternalKey(i.module)
  BY <1>1 DEF Rel
<1> QED
  BY <1>2, CodeKeys

LEMMA MethodRelsAre ==
  ASSUME NEW ix, NEW f, NEW r \in MethodRels(ix, f)
  PROVE  /\ r.kind = "HAS_METHOD"
         /\ \E y \in f.symbols : /\ y.kind = "method" /\ Single(ix, y.parent)
                                 /\ r.start = The(Types(ix, {y.parent})).key /\ r.end = Ref(f, y).key
<1> DEFINE S == {m \in f.symbols : m.kind = "method" /\ Cardinality(Types(ix, {m.parent})) = 1}
           one(y) == Rel("HAS_METHOD", The(Types(ix, {y.parent})).key, Ref(f, y).key, Plain)
<1>1. MethodRels(ix, f) = {one(y) : y \in S}
  BY DEF MethodRels
<1>2. \A y : /\ one(y).kind = "HAS_METHOD" /\ one(y).start = The(Types(ix, {y.parent})).key
             /\ one(y).end = Ref(f, y).key
  BY DEF Rel
<1> HIDE DEF one
<1>3. PICK y \in S : r = one(y)
  BY <1>1
<1>4. /\ r.kind = "HAS_METHOD" /\ r.start = The(Types(ix, {y.parent})).key /\ r.end = Ref(f, y).key
  BY <1>2, <1>3
<1>5. y \in f.symbols /\ y.kind = "method" /\ Single(ix, y.parent)
  BY <1>3 DEF Single
<1> QED
  BY <1>4, <1>5

FirstName(ix, names) == FirstOf(ix, names, {n \in DOMAIN names : Single(ix, names[n])})
LEMMA InheritsAre ==
  ASSUME NEW ix, NEW f, NEW r \in Inherits(ix, f)
  PROVE  /\ r.kind = "INHERITS" /\ r.end # None
         /\ \E base \in ToSet(f.bases) :
              /\ Single(ix, base.type) /\ r.start = The(Types(ix, {base.type})).key
              /\ r.end = FirstName(ix, CandidateNames(f, base))
<1> DEFINE S == {e \in ToSet(f.bases) : Single(ix, e.type)}
           first(base) == FirstName(ix, CandidateNames(f, base))
           one(base) == Rel("INHERITS", The(Types(ix, {base.type})).key, first(base), Plain)
<1>1. Inherits(ix, f) = {z \in {one(base) : base \in S} : z.end \notin {None, z.start}}
  BY DEF Inherits, FirstName
<1>2. \A kind, start, end, of : LET z == Rel(kind, start, end, of) IN z.kind = kind /\ z.start = start /\ z.end = end
  BY DEF Rel
<1>3. \A base : /\ one(base).kind = "INHERITS" /\ one(base).start = The(Types(ix, {base.type})).key
                /\ one(base).end = first(base)
  BY <1>2
<1> HIDE DEF one
<1>4. PICK base \in S : r = one(base)
  BY <1>1
<1>5. r.end # None
  BY <1>1
<1> HIDE DEF first
<1>6. r.kind = "INHERITS" /\ r.start = The(Types(ix, {base.type})).key /\ r.end = first(base)
  BY <1>3, <1>4
<1>7. base \in ToSet(f.bases) /\ Single(ix, base.type)
  OBVIOUS
<1> QED
  BY <1>5, <1>6, <1>7 DEF first

LEMMA PlanSqlLate == ASSUME NEW s PROVE SqlLate(s)
<1> SUFFICES ASSUME NEW n \in 1 .. 16, NEW row \in Planned(s, n), NEW x \in row.nodes PROVE ~SqlKey(x.key)
  BY DEF SqlLate
<1>1. \A label, key, of : Node(label, key, of).key = key
  BY DEF Node
<1>2. CASE n \in 1 .. 9
  <2>1. CodeRow(s, n, row)
    BY <1>2, CodeRowsAre
  <2>2. ASSUME NEW f, row = FileRow(f) PROVE ~SqlKey(x.key)
    BY <1>1, <2>2, RowParts, CodeKeys
  <2>3. ASSUME NEW f, NEW d, row = DiagnosticRow(f, d) PROVE ~SqlKey(x.key)
    BY <1>1, <2>3, RowParts, CodeKeys
  <2>4. ASSUME NEW f, row = InitRow(f) PROVE ~SqlKey(x.key)
    BY <1>1, <2>4, RowParts, CodeKeys
  <2>5. ASSUME NEW f, NEW y, row = SymbolRow(f, y) PROVE ~SqlKey(x.key)
    <3>1. x = SymbolNode(f, y)
      BY <2>5, RowParts
    <3> QED
      BY <1>1, <3>1, CodeKeys DEF SymbolNode
  <2>6. ASSUME NEW f, NEW r \in ImportRels(f), row = ImportRow(r) PROVE ~SqlKey(x.key)
    <3>1. x = Node("Module", r.end, Plain)
      BY <2>6, RowParts
    <3> QED
      BY <1>1, <3>1, ImportRelEnds
  <2>7. ASSUME NEW r, row = Link(r) PROVE ~SqlKey(x.key)
    BY <2>7, RowParts
  <2> QED
    BY <2>1, <2>2, <2>3, <2>4, <2>5, <2>6, <2>7 DEF CodeRow
<1>3. CASE n \in 10 .. 16
  <2>1. CallRow(s, n, row)
    BY <1>3, CallRowsAre
  <2>2. ASSUME NEW r, row = Link(r) PROVE ~SqlKey(x.key)
    BY <2>2, RowParts
  <2>3. ASSUME NEW f, NEW call, NEW r, row = Lone(CallNode(f, call, r)) PROVE ~SqlKey(x.key)
    <3>1. x = CallNode(f, call, r)
      BY <2>3, RowParts
    <3> QED
      BY <1>1, <3>1, CodeKeys DEF CallNode
  <2> QED
    BY <2>1, <2>2, <2>3 DEF CallRow
<1> QED
  BY <1>2, <1>3

LEMMA PlanDerivedLate == ASSUME NEW s PROVE DerivedLate(s)
<1> SUFFICES ASSUME NEW n \in 1 .. 9, NEW row \in Planned(s, n), NEW r \in row.rels PROVE r.kind \notin Derived
  BY DEF DerivedLate
<1>1. \A kind, start, end, of : Rel(kind, start, end, of).kind = kind
  BY DEF Rel
<1>2. CodeRow(s, n, row)
  BY CodeRowsAre
<1>3. ASSUME NEW f, row = FileRow(f) PROVE r.kind \notin Derived
  BY <1>1, <1>3, RowParts DEF Derived
<1>4. ASSUME NEW f, NEW d, row = DiagnosticRow(f, d) PROVE r.kind \notin Derived
  BY <1>1, <1>4, RowParts DEF Derived
<1>5. ASSUME NEW f, row = InitRow(f) PROVE r.kind \notin Derived
  BY <1>1, <1>5, RowParts DEF Derived
<1>6. ASSUME NEW f, NEW y, row = SymbolRow(f, y) PROVE r.kind \notin Derived
  BY <1>1, <1>6, RowParts DEF Derived
<1>7. ASSUME NEW f, NEW z \in ImportRels(f), row = ImportRow(z) PROVE r.kind \notin Derived
  BY <1>7, RowParts, ImportRelEnds DEF Derived
<1>8. ASSUME NEW f, NEW z \in MethodRels(InMemoryIndex(s), f), row = Link(z) PROVE r.kind \notin Derived
  <2>1. z.kind = "HAS_METHOD"
    BY MethodRelsAre
  <2> QED
    BY <1>8, <2>1, RowParts DEF Derived
<1>9. ASSUME NEW f, NEW z \in Inherits(InMemoryIndex(s), f), row = Link(z) PROVE r.kind \notin Derived
  <2>1. z.kind = "INHERITS"
    BY InheritsAre
  <2> QED
    BY <1>9, <2>1, RowParts DEF Derived
<1>10. CASE n \in 1 .. 6
  <2>1. n # 7 /\ n # 8 /\ n # 9
    BY <1>10
  <2> QED
    BY <1>2, <1>3, <1>4, <1>5, <1>6, <2>1 DEF CodeRow
<1>11. CASE n \in 7 .. 9
  <2>1. n \notin 1 .. 6
    BY <1>11
  <2>2. \E f \in ToSet(s) : \/ \E z \in MethodRels(InMemoryIndex(s), f) : row = Link(z)
                            \/ \E z \in ImportRels(f) : row = ImportRow(z)
                            \/ \E z \in Inherits(InMemoryIndex(s), f) : row = Link(z)
    BY <1>2, <1>11, <2>1 DEF CodeRow
  <2> QED
    BY <1>7, <1>8, <1>9, <2>2
<1> QED
  BY <1>10, <1>11

(***************************************************************************)
(* What a row of the code hangs on is in an operation before.              *)
(***************************************************************************)
LaidBefore(s, n, e) == \E m \in 1 .. 32 : m < n /\ \E other \in Planned(s, m) : e \in KeysAmong(other.nodes)

LEMMA LaidOnce ==
  ASSUME NEW s, NEW m \in 1 .. 32, NEW row \in Planned(s, m), NEW x \in row.nodes, NEW n \in 1 .. 32, m < n
  PROVE  LaidBefore(s, n, x.key)
BY DEF LaidBefore, KeysAmong

LEMMA FilesLaid ==
  ASSUME NEW s, NEW f \in ToSet(s), NEW n \in 2 .. 32
  PROVE  LaidBefore(s, n, FileKey(f)) /\ LaidBefore(s, n, ModuleKey(f.module))
<1>1. FileRow(f) \in Planned(s, 1)
  <2>1. CodeRow(s, 1, FileRow(f))
    BY DEF CodeRow
  <2> QED
    BY <2>1, CodeRowsAre
<1> DEFINE a == Node("File", FileKey(f), Plain)
           b == Node("Module", ModuleKey(f.module), Plain)
<1>2. a \in FileRow(f).nodes /\ b \in FileRow(f).nodes
  BY RowParts
<1>3. a.key = FileKey(f) /\ b.key = ModuleKey(f.module)
  BY DEF Node
<1> HIDE DEF a, b
<1>4. 1 < n /\ n \in 1 .. 32
  OBVIOUS
<1> QED
  BY <1>1, <1>2, <1>3, <1>4, LaidOnce

LEMMA InitsLaid ==
  ASSUME NEW s, NEW f \in ToSet(s), f.sql = None, NEW n \in 4 .. 32
  PROVE  LaidBefore(s, n, InitKey(f))
<1>1. InitRow(f) \in Planned(s, 3)
  <2>1. CodeRow(s, 3, InitRow(f))
    BY DEF CodeRow
  <2> QED
    BY <2>1, CodeRowsAre
<1> DEFINE a == Node("ModuleInit", InitKey(f), Plain)
<1>2. a \in InitRow(f).nodes
  BY RowParts
<1>3. a.key = InitKey(f)
  BY DEF Node
<1> HIDE DEF a
<1>4. 3 < n /\ n \in 1 .. 32
  OBVIOUS
<1> QED
  BY <1>1, <1>2, <1>3, <1>4, LaidOnce

LEMMA SymbolsLaid ==
  ASSUME NEW s, NEW f \in ToSet(s), NEW y \in f.symbols, NEW n \in 7 .. 32
  PROVE  LaidBefore(s, n, Ref(f, y).key)
<1>1. PICK m \in 4 .. 6 : Label(y) = SymbolAt(m)
  BY DEF Label, SymbolAt
<1>2. SymbolRow(f, y) \in Planned(s, m)
  <2>1. CodeRow(s, m, SymbolRow(f, y))
    BY <1>1 DEF CodeRow
  <2>2. m \in 1 .. 9
    OBVIOUS
  <2> QED
    BY <2>1, <2>2, CodeRowsAre
<1> DEFINE a == SymbolNode(f, y)
<1>3. a \in SymbolRow(f, y).nodes
  BY RowParts
<1>4. a.key = Ref(f, y).key
  BY DEF SymbolNode, Node
<1> HIDE DEF a
<1>5. m < n /\ n \in 1 .. 32 /\ m \in 1 .. 32
  OBVIOUS
<1> QED
  BY <1>2, <1>3, <1>4, <1>5, LaidOnce

LEMMA RefsLaid ==
  ASSUME NEW s, NEW r \in InMemoryIndex(s).refs, NEW n \in 7 .. 32
  PROVE  LaidBefore(s, n, r.key)
<1>1. r \in Refs(s)
  BY DEF InMemoryIndex
<1>2. PICK f \in ToSet(s) : \E y \in f.symbols : r = Ref(f, y)
  BY <1>1 DEF Refs
<1> QED
  BY <1>2, SymbolsLaid

LEMMA CallsLaid ==
  ASSUME NEW s, NEW c \in CallsIn(s), NEW n \in 11 .. 32
  PROVE  LaidBefore(s, n, CallKey(c.f, c.call, c.r))
<1> DEFINE a == CallNode(c.f, c.call, c.r)
<1>1. Lone(a) \in Planned(s, 10)
  <2>1. CallRow(s, 10, Lone(a))
    BY DEF CallRow
  <2> QED
    BY <2>1, CallRowsAre
<1>2. a \in Lone(a).nodes
  BY RowParts
<1>3. a.key = CallKey(c.f, c.call, c.r)
  BY DEF CallNode, Node
<1> HIDE DEF a
<1>4. 10 < n /\ n \in 1 .. 32
  OBVIOUS
<1> QED
  BY <1>1, <1>2, <1>3, <1>4, LaidOnce

LEMMA SingleFound ==
  ASSUME NEW ix, NEW q, Single(ix, q)
  PROVE  The(Types(ix, {q})) \in ix.refs
<1> DEFINE S == Types(ix, {q})
<1>1. S \subseteq ix.refs /\ Cardinality(S) = 1
  BY DEF Types, Single
<1> HIDE DEF S
<1>2. The(S) \in S
  BY <1>1, OnlyOne
<1> QED
  BY <1>1, <1>2 DEF S

LEMMA NamesListed ==
  ASSUME NEW f, NEW base
  PROVE  DOMAIN CandidateNames(f, base) \subseteq Nat
<1> DEFINE a == Aliases(f)
           direct == IF base.qname = None THEN <<>> ELSE <<base.qname>>
           T == Through(a, base.qname)
           U == Through(a, <<base.name>>)
           second == IF base.qname # None /\ Len(base.qname) > 1 THEN SetToSeq(T) ELSE <<>>
           third == SetToSeq(U)
           L == {base.qname} \cup T \cup U
<1>1. CandidateNames(f, base) = direct \o second \o third
  BY DEF CandidateNames
<1>2. \A raw : IsFiniteSet(Through(a, raw))
  <2> TAKE raw
  <2> HIDE DEF a
  <2>1. \A z : IsFiniteSet({}) /\ IsFiniteSet({z})
    BY FS_EmptySet, FS_Singleton
  <2> DEFINE z == a[raw[1]] \o Tail(raw)
  <2>2. Through(a, raw) = IF raw # <<>> /\ raw[1] \in DOMAIN a THEN {z} ELSE {}
    BY DEF Through
  <2> HIDE DEF z
  <2> QED
    BY <2>1, <2>2
<1>3. SetToSeq(T) \in Seq(T) /\ SetToSeq(U) \in Seq(U)
  <2>1. IsFiniteSet(T) /\ IsFiniteSet(U)
    BY <1>2
  <2> HIDE DEF T, U
  <2> QED
    BY <2>1, SetInOrder
<1> HIDE DEF a, T, U
<1>4. direct \in Seq(L) /\ second \in Seq(L) /\ third \in Seq(L)
  <2>1. T \subseteq L /\ U \subseteq L /\ base.qname \in L
    OBVIOUS
  <2> HIDE DEF L
  <2>2. \A R : R \subseteq L => Seq(R) \subseteq Seq(L)
    OBVIOUS
  <2>3. direct \in Seq(L)
    BY <2>1
  <2> QED
    BY <1>3, <2>1, <2>2, <2>3
<1> HIDE DEF L, direct, second, third
<1>5. direct \o second \in Seq(L)
  BY <1>4, ConcatProperties, Zenon
<1>6. (direct \o second) \o third \in Seq(L)
  BY <1>4, <1>5, ConcatProperties, Zenon
<1>7. \A t : t \in Seq(L) => DOMAIN t \subseteq Nat
  OBVIOUS
<1> QED
  BY <1>1, <1>6, <1>7

LEMMA FirstFound ==
  ASSUME NEW ix, NEW names, DOMAIN names \subseteq Nat,
         FirstName(ix, names) # None
  PROVE  \E r \in ix.refs : FirstName(ix, names) = r.key
<1> DEFINE chosen == {n \in DOMAIN names : Single(ix, names[n])}
<1>1. chosen # {}
  BY DEF FirstOf, FirstName
<1>2. Min(chosen) \in chosen
  <2>1. chosen \in SUBSET Nat
    OBVIOUS
  <2> HIDE DEF chosen
  <2> QED
    BY <1>1, <2>1, LeastMember
<1> DEFINE m == Min(chosen)
<1>3. Single(ix, names[m])
  BY <1>2
<1>4. FirstOf(ix, names, chosen) = The(Types(ix, {names[m]})).key
  <2> HIDE DEF chosen
  <2> QED
    BY <1>1 DEF FirstOf
<1> HIDE DEF m
<1> QED
  BY <1>3, <1>4, SingleFound DEF FirstName

LEMMA CallEnds ==
  ASSUME NEW s, IsSnapshot(s), NEW c \in CallsIn(s), NEW n \in 11 .. 32, c.r.owner # None
  PROVE  /\ LaidBefore(s, n, c.r.owner)
         /\ \A key \in {c.r.target, c.r.constructs, c.r.initializer} : key # None => LaidBefore(s, n, key)
<1> DEFINE ix == InMemoryIndex(s)
<1>1. PICK f \in ToSet(s) : \E call \in f.calls : c = [f |-> f, call |-> call, r |-> Resolve(ix, f, call)]
  BY CallsAre
<1>2. PICK call \in f.calls : c = [f |-> f, call |-> call, r |-> Resolve(ix, f, call)]
  BY <1>1
<1> DEFINE r == Resolve(ix, f, call)
<1>3. c.r = r
  BY <1>2
<1>4. PICK o \in ix.owners : o.path = f.path /\ r.owner = o.key
  BY <1>3, ResolveSound
<1>5. Sound(ix, r.owner, r)
  BY <1>3, ResolveSound
<1>6. n \in 7 .. 32 /\ n \in 4 .. 32
  OBVIOUS
<1>7. \A key \in SymbolKeys(ix) : key # None => LaidBefore(s, n, key)
  BY <1>6, RefsLaid DEF SymbolKeys, Keys
<1>8. o \in ix.refs \/ \E g \in ToSet(s) : o = InitOwner(g)
  BY DEF InMemoryIndex
<1>9. f.sql = None
  <2>1. f.calls # {}
    OBVIOUS
  <2> QED
    BY <2>1 DEF IsSnapshot, IsParsed
<1>10. LaidBefore(s, n, o.key)
  <2>1. CASE o \in ix.refs
    BY <1>6, <2>1, RefsLaid
  <2>2. CASE \E g \in ToSet(s) : o = InitOwner(g)
    <3>1. o.key = InitKey(f)
      BY <1>4, <2>2 DEF InitOwner, InitKey
    <3> QED
      BY <1>6, <1>9, <3>1, InitsLaid
  <2> QED
    BY <1>8, <2>1, <2>2
<1> HIDE DEF r, ix
<1>11. r.target \in SymbolKeys(ix) /\ r.constructs \in SymbolKeys(ix) /\ r.initializer \in SymbolKeys(ix)
  BY <1>5 DEF Sound
<1> QED
  BY <1>3, <1>4, <1>7, <1>10, <1>11

(***************************************************************************)
(* What a row of SQL hangs on is in an operation before.                   *)
(***************************************************************************)
LEMMA PartLaid ==
  ASSUME NEW s, NEW x \in SqlPart(s, SqlIndex(s)).nodes, NEW n \in 22 .. 32
  PROVE  LaidBefore(s, n, x.key)
<1>1. x.label \in ToSet(SqlLabels) /\ DOMAIN SqlLabels = 1 .. 5
  BY SqlNodesLabelled DEF SqlLabels
<1>2. PICK i \in 1 .. 5 : x.label = SqlLabels[i]
  BY <1>1 DEF ToSet
<1>3. PICK k \in 17 .. 21 : k - 16 = i
  OBVIOUS
<1>4. x.label = SqlLabels[k - 16]
  BY <1>2, <1>3
<1>5. SqlRow(s, k, Lone(x))
  BY <1>4 DEF SqlRow
<1>6. k \in 17 .. 32 /\ k \in 1 .. 32 /\ n \in 1 .. 32 /\ k < n
  OBVIOUS
<1>7. Lone(x) \in Planned(s, k) /\ x \in Lone(x).nodes
  BY <1>5, <1>6, SqlRowsAre, RowParts
<1> QED
  BY <1>6, <1>7, LaidOnce

LEMMA RanksAre ==
  ASSUME NEW s, IsSnapshot(s)
  PROVE  /\ {f.rank : f \in ToSet(s)} \in SUBSET Nat
         /\ \A f \in SqlFiles(s) : f.rank \in {g.rank : g \in ToSet(s)}
BY DEF IsSnapshot, IsParsed, SqlFiles

LEMMA ObjectDefined ==
  ASSUME NEW s, IsSnapshot(s), NEW o \in SqlIndex(s).objects
  PROVE  \E f \in SqlFiles(s) : \E n \in DOMAIN SqlIndex(s).refs[f] : <<f.rank, n>> \in DefinitionsOf(SqlIndex(s), o)
<1> DEFINE ix == SqlIndex(s)
           F == SqlFiles(s)
           all == UNION {ToSet(ix.refs[f]) : f \in F}
           Defines(d) == d.role = "define" /\ d.kind \in Relations \cup Routines \cup Direct /\ Place(d) # None
           made(r) == SqlObject(Place(r), r.kind, r.name, r.signature)
<1>1. ix.objects = SqlObjects(all) /\ DOMAIN ix.refs = F
  BY DEF SqlIndex
<1> HIDE DEF ix, F
<1>2. \A S : SqlObjects(S) = {made(r) : r \in {d \in S : Defines(d)}}
  BY DEF SqlObjects
<1> HIDE DEF Defines, made, all
<1>3. PICK r \in all : Defines(r) /\ o = made(r)
  BY <1>1, <1>2 DEF ix
<1>4. PICK f \in F : r \in ToSet(ix.refs[f])
  BY DEF all
<1>5. PICK n \in DOMAIN ix.refs[f] : r = ix.refs[f][n]
  BY <1>4 DEF ToSet
<1>6. SqlObjects({ix.refs[f][n]}) = {o}
  BY <1>2, <1>3, <1>5
<1> DEFINE of(g) == {<<g.rank, k>> : k \in {m \in DOMAIN ix.refs[g] : SqlObjects({ix.refs[g][m]}) = {o}}}
<1>7. DefinitionsOf(ix, o) = UNION {of(g) : g \in DOMAIN ix.refs}
  BY DEF DefinitionsOf
<1>8. <<f.rank, n>> \in of(f)
  BY <1>6
<1> HIDE DEF of
<1>9. <<f.rank, n>> \in DefinitionsOf(ix, o)
  BY <1>1, <1>7, <1>8
<1> QED
  BY <1>9 DEF ix, F

(* A snapshot has a node for each object that it defines, and the database's
   with the first.                                                           *)
LEMMA ObjectsThere ==
  ASSUME NEW s, IsSnapshot(s), NEW o \in SqlIndex(s).objects
  PROVE  LET ranks == {f.rank : f \in ToSet(s)}
         IN  o \in ObjectsOf(SqlIndex(s), ranks) /\ DatabaseKey \in DatabasesOf(SqlIndex(s), ranks)
<1> DEFINE ix == SqlIndex(s)
           F == SqlFiles(s)
           ranks == {f.rank : f \in ToSet(s)}
           places == {d[1] : d \in DefinitionsOf(ix, o)}
           referring == {f.rank : f \in {g \in DOMAIN ix.refs : ix.refs[g] # <<>>}}
<1>1. PICK f \in F : \E n \in DOMAIN ix.refs[f] : <<f.rank, n>> \in DefinitionsOf(ix, o)
  BY ObjectDefined
<1>2. PICK n \in DOMAIN ix.refs[f] : <<f.rank, n>> \in DefinitionsOf(ix, o)
  BY <1>1
<1>3. DOMAIN ix.refs = F
  BY DEF SqlIndex
<1>4. ranks \in SUBSET Nat /\ \A g \in F : g.rank \in ranks
  BY RanksAre
<1> HIDE DEF ix, F, ranks
<1>5. places \subseteq ranks /\ f.rank \in places
  <2> DEFINE defining(g) == {m \in DOMAIN ix.refs[g] : SqlObjects({ix.refs[g][m]}) = {o}}
             of(g) == {<<g.rank, k>> : k \in defining(g)}
  <2>1. DefinitionsOf(ix, o) = UNION {of(g) : g \in DOMAIN ix.refs}
    BY DEF DefinitionsOf
  <2> HIDE DEF defining
  <2>2. \A g : \A d \in of(g) : d[1] = g.rank
    OBVIOUS
  <2> HIDE DEF of
  <2>3. \A d \in DefinitionsOf(ix, o) : d[1] \in ranks
    BY <1>3, <1>4, <2>1, <2>2
  <2>4. <<f.rank, n>>[1] = f.rank
    OBVIOUS
  <2> QED
    BY <1>2, <2>3, <2>4
<1> HIDE DEF places
<1>6. Min(places) \in ranks
  <2>1. places \in SUBSET Nat /\ places # {}
    BY <1>4, <1>5
  <2> QED
    BY <1>5, <2>1, LeastMember
<1>7. o \in ObjectsOf(ix, ranks)
  BY <1>6 DEF ObjectsOf, places, ix
<1>8. referring \subseteq ranks /\ f.rank \in referring
  <2>1. ix.refs[f] # <<>>
    BY <1>2
  <2> QED
    BY <1>3, <1>4, <2>1
<1>10. DatabasesOf(ix, ranks) = IF referring # {} /\ Min(referring) \in ranks THEN {DatabaseKey} ELSE {}
  BY DEF DatabasesOf
<1> HIDE DEF referring
<1>9. Min(referring) \in ranks
  <2>1. referring \in SUBSET Nat /\ referring # {}
    BY <1>4, <1>8
  <2> QED
    BY <1>8, <2>1, LeastMember
<1>11. DatabaseKey \in DatabasesOf(ix, ranks)
  BY <1>8, <1>9, <1>10
<1> QED
  BY <1>7, <1>11 DEF ix, ranks

LEMMA ExactTarget ==
  ASSUME NEW objects, NEW r, ResolveUncached(objects, r).status = "exact"
  PROVE  ResolveUncached(objects, r).target \in objects
<1> DEFINE kinds == CompatibleKinds(r.kind)
           schemas == IF r.schema # None THEN <<r.schema>>
                      ELSE IF r.kind \in Schemaless THEN <<NoSchema>> ELSE r.path
           own == {o \in Candidates(objects, Place(r), {r.kind}, r) : o.signature = r.signature}
           routines == UNION {Candidates(objects, s, kinds, r) : s \in ToSet(schemas)}
           seen == FirstSchema(objects, schemas, kinds, r)
<1>1. ResolveUncached(objects, r) =
        IF r.kind = "dynamic" THEN Concluded("dynamic", None)
        ELSE IF kinds = {} THEN Concluded("unresolved", None)
        ELSE IF r.role = "define" THEN SqlConclude(own, TRUE)
        ELSE IF kinds \subseteq Routines /\ ~SafeSignature(r.signature) THEN SqlConclude(routines, FALSE)
        ELSE SqlConclude(seen, TRUE)
  BY DEF ResolveUncached
<1>2. \A schema, ks : Candidates(objects, schema, ks, r) \subseteq objects
  BY DEF Candidates
<1>3. own \subseteq objects /\ seen \subseteq objects
  <2>1. own \subseteq objects
    BY <1>2
  <2> HIDE DEF schemas, kinds
  <2>2. seen \subseteq objects
    BY <1>2 DEF FirstSchema
  <2> QED
    BY <2>1, <2>2
<1> HIDE DEF kinds, own, routines, seen
<1>4. \A status, target : /\ Concluded(status, target).status = status
                          /\ Concluded(status, target).target = target
  BY DEF Concluded
<1>5. ASSUME NEW found \in SUBSET objects, SqlConclude(found, TRUE).status = "exact"
      PROVE  SqlConclude(found, TRUE).target \in objects
  <2>1. CASE Cardinality(found) = 1
    <3>1. found # {}
      BY <2>1, FS_EmptySet
    <3> DEFINE t == CHOOSE o \in found : TRUE
    <3>2. SqlConclude(found, TRUE) = Concluded("exact", t)
      BY <2>1 DEF SqlConclude
    <3>3. t \in found
      BY <3>1
    <3> HIDE DEF t
    <3> DEFINE answer == SqlConclude(found, TRUE)
    <3>4. answer = Concluded("exact", t)
      BY <3>2
    <3> HIDE DEF answer
    <3>5. answer.target = t
      BY <1>4, <3>4
    <3>6. answer.target \in objects
      BY <3>3, <3>5
    <3> QED
      BY <3>6 DEF answer
  <2>2. CASE Cardinality(found) # 1
    <3>1. SqlConclude(found, TRUE).status \in {"ambiguous", "unresolved"}
      BY <1>4, <2>2 DEF SqlConclude
    <3> QED
      BY <1>5, <3>1
  <2> QED
    BY <2>1, <2>2
<1>6. \A found : SqlConclude(found, FALSE).status \in {"ambiguous", "unresolved"}
  BY <1>4 DEF SqlConclude
<1>7. ResolveUncached(objects, r) = SqlConclude(own, TRUE) \/ ResolveUncached(objects, r) = SqlConclude(seen, TRUE)
  BY <1>1, <1>4, <1>6
<1> QED
  BY <1>3, <1>5, <1>7

LEMMA StatementsAround ==
  ASSUME NEW script, NEW at \in Places(script), Len(at) = 2
  PROVE  <<at[1]>> \in Places(script)
<1> DEFINE N == DOMAIN script.statements
           R == {m \in N : script.statements[m].do = "create routine"}
           Inner(n) == {<<n, k>> : k \in DOMAIN script.statements[n].body}
<1>1. Places(script) = {<<n>> : n \in N} \cup UNION {Inner(n) : n \in R}
  BY DEF Places
<1>2. \A n : Len(<<n>>) = 1
  OBVIOUS
<1>3. \A n : \A p \in Inner(n) : p[1] = n
  OBVIOUS
<1>4. \A n \in R : n \in N
  OBVIOUS
<1> HIDE DEF N, R, Inner
<1>5. PICK n \in R : at \in Inner(n)
  BY <1>1, <1>2
<1>6. at[1] \in N
  BY <1>3, <1>4, <1>5
<1> QED
  BY <1>1, <1>6

LEMMA SqlAnchored ==
  ASSUME NEW s, IsSnapshot(s), NEW n \in 22 .. 32, NEW r \in SqlPart(s, SqlIndex(s)).rels, NEW e \in Ends(r)
  PROVE  e = RepositoryKey \/ LaidBefore(s, n, e)
<1> DEFINE ix == SqlIndex(s)
           ranks == {f.rank : f \in ToSet(s)}
           part == SqlPart(s, ix)
<1>1. e = r.start \/ e = r.end
  BY DEF Ends
<1>2. \A kind, start, end, of : LET z == Rel(kind, start, end, of) IN z.start = start /\ z.end = end
  BY DEF Rel
<1>3. \A label, key, of : Node(label, key, of).key = key
  BY DEF Node
<1>4. \A x \in part.nodes : LaidBefore(s, n, x.key)
  BY PartLaid
<1>5. \A x : SqlNodeForm(s, x) => x \in part.nodes
  BY SqlNodesAre
<1> HIDE DEF part
<1>6. \A x : SqlNodeForm(s, x) => LaidBefore(s, n, x.key)
  BY <1>4, <1>5
<1>7. DatabaseKey \in DatabasesOf(ix, ranks) => LaidBefore(s, n, DatabaseKey)
  <2> HAVE DatabaseKey \in DatabasesOf(ix, ranks)
  <2>1. SqlNodeForm(s, Node("Database", DatabaseKey, Plain))
    BY DEF SqlNodeForm
  <2> QED
    BY <1>3, <1>6, <2>1
<1>8. ASSUME NEW o \in ObjectsOf(ix, ranks) PROVE LaidBefore(s, n, ObjectKey(o))
  <2>1. SqlNodeForm(s, Node("SqlObject", ObjectKey(o), <<"defined", Cardinality(DefinitionsOf(ix, o))>>))
    BY DEF SqlNodeForm
  <2> QED
    BY <1>3, <1>6, <2>1
<1>9. ASSUME NEW f \in SqlFiles(s)
      PROVE  LaidBefore(s, n, FileKey(f)) /\ LaidBefore(s, n, ArtifactKey(f))
  <2>1. SqlNodeForm(s, Node("SqlArtifact", ArtifactKey(f), Plain))
    BY DEF SqlNodeForm
  <2>2. f \in ToSet(s) /\ n \in 2 .. 32
    BY DEF SqlFiles
  <2> QED
    BY <1>3, <1>6, <2>1, <2>2, FilesLaid
<1>10. ASSUME NEW f \in SqlFiles(s), NEW at \in Places(f.sql) PROVE LaidBefore(s, n, StatementKey(f, at))
  <2>1. SqlNodeForm(s, Node("SqlStatement", StatementKey(f, at), Plain))
    BY DEF SqlNodeForm
  <2> QED
    BY <1>3, <1>6, <2>1
<1>11. ASSUME NEW f \in SqlFiles(s), NEW k \in DOMAIN ix.refs[f] PROVE LaidBefore(s, n, ReferenceKey(f, ix.refs[f][k].at, k))
  <2>1. SqlNodeForm(s, Node("Reference", ReferenceKey(f, ix.refs[f][k].at, k),
                            <<ix.refs[f][k].role, ResolveUncached(ix.objects, ix.refs[f][k])>>))
    BY DEF SqlNodeForm
  <2> QED
    BY <1>3, <1>6, <2>1
<1>12. \A o \in ix.objects : o \in ObjectsOf(ix, ranks) /\ DatabaseKey \in DatabasesOf(ix, ranks)
  BY ObjectsThere
<1>13. ASSUME NEW f \in SqlFiles(s), NEW k \in DOMAIN ix.refs[f], RefRelForm(ix, f, k, r) PROVE LaidBefore(s, n, e)
  <2> DEFINE ref == ix.refs[f][k]
             answer == ResolveUncached(ix.objects, ref)
  <2>1. ref.at \in Places(f.sql)
    BY RefsAre
  <2>2. answer.status = "exact" => LaidBefore(s, n, ObjectKey(answer.target))
    <3> HIDE DEF ref
    <3> QED
      BY <1>8, <1>12, ExactTarget
  <2>3. LaidBefore(s, n, StatementKey(f, ref.at)) /\ LaidBefore(s, n, ReferenceKey(f, ref.at, k))
    BY <1>10, <1>11, <2>1
  <2> HIDE DEF ix
  <2>4. \/ r.start = StatementKey(f, ref.at) /\ r.end = ReferenceKey(f, ref.at, k)
        \/ answer.status = "exact" /\ r.start = ReferenceKey(f, ref.at, k) /\ r.end = ObjectKey(answer.target)
        \/ answer.status = "exact" /\ r.start = StatementKey(f, ref.at) /\ r.end = ObjectKey(answer.target)
    BY <1>2, <1>13 DEF RefRelForm
  <2> HIDE DEF ref, answer
  <2> QED
    BY <1>1, <2>2, <2>3, <2>4
<1>14. ASSUME NEW f \in SqlFiles(s), NEW at \in Places(f.sql),
              \/ r = Rel("CONTAINS_SQL", ArtifactKey(f), StatementKey(f, at), Plain)
              \/ Len(at) = 2 /\ r = Rel("CONTAINS_SQL", StatementKey(f, <<at[1]>>), StatementKey(f, at), Plain)
       PROVE  LaidBefore(s, n, e)
  <2>1. CASE r = Rel("CONTAINS_SQL", ArtifactKey(f), StatementKey(f, at), Plain)
    BY <1>1, <1>2, <1>9, <1>10, <2>1
  <2>2. CASE Len(at) = 2 /\ r = Rel("CONTAINS_SQL", StatementKey(f, <<at[1]>>), StatementKey(f, at), Plain)
    <3>1. <<at[1]>> \in Places(f.sql)
      BY <2>2, StatementsAround
    <3> QED
      BY <1>1, <1>2, <1>10, <2>2, <3>1
  <2> QED
    BY <1>14, <2>1, <2>2
<1>15. ASSUME NEW f \in SqlFiles(s), r = Rel("CONTAINS_SQL", FileKey(f), ArtifactKey(f), Plain) PROVE LaidBefore(s, n, e)
  BY <1>1, <1>2, <1>9, <1>15
<1>16. ASSUME NEW o \in ObjectsOf(ix, ranks), r = Rel("HAS_OBJECT", DatabaseKey, ObjectKey(o), Plain) PROVE LaidBefore(s, n, e)
  <2>1. o \in ix.objects
    BY DEF ObjectsOf
  <2> QED
    BY <1>1, <1>2, <1>7, <1>8, <1>12, <1>16, <2>1
<1>17. CASE DatabaseKey \in DatabasesOf(ix, ranks) /\ r = Rel("HAS_DATABASE", RepositoryKey, DatabaseKey, Plain)
  BY <1>1, <1>2, <1>7, <1>17
<1>18. SqlRelForm(s, r)
  BY SqlRelsAre
<1> QED
  BY <1>13, <1>14, <1>15, <1>16, <1>17, <1>18 DEF SqlRelForm

LEMMA PlanAnchored ==
  ASSUME NEW s, IsSnapshot(s)
  PROVE  Anchored(s)
<1> SUFFICES ASSUME NEW n \in 1 .. 32, NEW row \in Planned(s, n), NEW r \in row.rels, NEW e \in Ends(r)
             PROVE  e \in KeysOf(row) \/ LaidBefore(s, n, e)
  BY DEF Anchored, LaidBefore
<1> DEFINE ix == InMemoryIndex(s)
<1>1. \A z \in row.nodes : z.key \in KeysOf(row)
  BY DEF KeysOf
<1>2. RepositoryKey \in KeysOf(row)
  BY DEF KeysOf
<1>3. e = r.start \/ e = r.end
  BY DEF Ends
<1>4. \A kind, start, end, of : LET z == Rel(kind, start, end, of) IN z.start = start /\ z.end = end
  BY DEF Rel
<1>5. \A label, key, of : Node(label, key, of).key = key
  BY DEF Node
<1>6. CASE n \in 1 .. 9
  <2>1. CodeRow(s, n, row)
    BY <1>6, CodeRowsAre
  <2>2. CASE n = 1
    <3>1. PICK f \in ToSet(s) : row = FileRow(f)
      BY <2>1, <2>2 DEF CodeRow
    <3>2. FileKey(f) \in KeysOf(row) /\ ModuleKey(f.module) \in KeysOf(row)
      BY <1>1, <1>5, <3>1, RowParts
    <3>3. r = Rel("CONTAINS", RepositoryKey, FileKey(f), Plain) \/ r = Rel("DEFINES", FileKey(f), ModuleKey(f.module), Plain)
      BY <3>1, RowParts
    <3> QED
      BY <1>2, <1>3, <1>4, <3>2, <3>3
  <2>3. CASE n = 2
    <3>1. PICK f \in ToSet(s) : \E d \in 1 .. f.diagnostics : row = DiagnosticRow(f, d)
      BY <2>1, <2>3 DEF CodeRow
    <3>2. PICK d \in 1 .. f.diagnostics : row = DiagnosticRow(f, d)
      BY <3>1
    <3>3. Diagnostic(f, d) \in KeysOf(row) /\ LaidBefore(s, n, FileKey(f))
      BY <1>1, <1>5, <2>3, <3>2, RowParts, FilesLaid
    <3>4. r = Rel("HAS_DIAGNOSTIC", FileKey(f), Diagnostic(f, d), Plain)
      BY <3>2, RowParts
    <3> QED
      BY <1>3, <1>4, <3>3, <3>4
  <2>4. CASE n = 3
    <3>1. PICK f \in ToSet(s) : row = InitRow(f)
      BY <2>1, <2>4 DEF CodeRow
    <3>2. InitKey(f) \in KeysOf(row)
      BY <1>1, <1>5, <3>1, RowParts
    <3>3. LaidBefore(s, n, FileKey(f)) /\ LaidBefore(s, n, ModuleKey(f.module))
      BY <2>4, FilesLaid
    <3>4. r = Rel("CONTAINS", FileKey(f), InitKey(f), Plain) \/ r = Rel("INITIALIZES", ModuleKey(f.module), InitKey(f), Plain)
      BY <3>1, RowParts
    <3> QED
      BY <1>3, <1>4, <3>2, <3>3, <3>4
  <2>5. CASE n \in {4, 5, 6}
    <3>1. PICK f \in ToSet(s) : \E y \in f.symbols : row = SymbolRow(f, y)
      BY <2>1, <2>5 DEF CodeRow
    <3>2. PICK y \in f.symbols : row = SymbolRow(f, y)
      BY <3>1
    <3>3. Ref(f, y).key \in KeysOf(row)
      <4>1. SymbolNode(f, y) \in row.nodes /\ SymbolNode(f, y).key = Ref(f, y).key
        BY <1>5, <3>2, RowParts DEF SymbolNode
      <4> QED
        BY <1>1, <4>1
    <3>4. LaidBefore(s, n, FileKey(f))
      BY <2>5, FilesLaid
    <3>5. r = Rel("CONTAINS", FileKey(f), Ref(f, y).key, Plain)
      BY <3>2, RowParts
    <3> QED
      BY <1>3, <1>4, <3>3, <3>4, <3>5
  <2>6. CASE n = 7
    <3>1. PICK f \in ToSet(s) : \E z \in MethodRels(ix, f) : row = Link(z)
      BY <2>1, <2>6 DEF CodeRow
    <3>2. r \in MethodRels(ix, f)
      BY <3>1, RowParts
    <3>3. PICK y \in f.symbols : /\ Single(ix, y.parent)
                                 /\ r.start = The(Types(ix, {y.parent})).key /\ r.end = Ref(f, y).key
      BY <3>2, MethodRelsAre
    <3>4. LaidBefore(s, n, r.start)
      BY <2>6, <3>3, SingleFound, RefsLaid
    <3>5. LaidBefore(s, n, r.end)
      BY <2>6, <3>3, SymbolsLaid
    <3> QED
      BY <1>3, <3>4, <3>5
  <2>7. CASE n = 8
    <3>1. PICK f \in ToSet(s) : \E z \in ImportRels(f) : row = ImportRow(z)
      BY <2>1, <2>7 DEF CodeRow
    <3>2. r \in ImportRels(f) /\ row = ImportRow(r)
      BY <3>1, RowParts
    <3>3. r.end \in KeysOf(row)
      BY <1>1, <1>5, <3>2, RowParts
    <3>4. LaidBefore(s, n, r.start)
      BY <2>7, <3>2, ImportRelEnds, FilesLaid
    <3> QED
      BY <1>3, <3>3, <3>4
  <2>8. CASE n = 9
    <3>1. PICK f \in ToSet(s) : \E z \in Inherits(ix, f) : row = Link(z)
      BY <2>1, <2>8 DEF CodeRow
    <3>2. r \in Inherits(ix, f)
      BY <3>1, RowParts
    <3>3. r.end # None
      BY <3>2, InheritsAre
    <3>4. PICK base \in ToSet(f.bases) :
              /\ Single(ix, base.type) /\ r.start = The(Types(ix, {base.type})).key
              /\ r.end = FirstName(ix, CandidateNames(f, base))
      BY <3>2, InheritsAre
    <3>5. LaidBefore(s, n, r.start)
      BY <2>8, <3>4, SingleFound, RefsLaid
    <3>6. \E ref \in ix.refs : r.end = ref.key
      <4>1. DOMAIN CandidateNames(f, base) \subseteq Nat
        BY NamesListed
      <4> HIDE DEF ix
      <4> QED
        BY <3>3, <3>4, <4>1, FirstFound
    <3>7. LaidBefore(s, n, r.end)
      BY <2>8, <3>6, RefsLaid
    <3> QED
      BY <1>3, <3>5, <3>7
  <2> QED
    BY <1>6, <2>2, <2>3, <2>4, <2>5, <2>6, <2>7, <2>8
<1>7. CASE n = 10
  <2>1. CallRow(s, n, row)
    BY <1>7, CallRowsAre
  <2>2. \E x : row = Lone(x)
    BY <1>7, <2>1 DEF CallRow
  <2>3. row.rels = {}
    BY <2>2, RowParts
  <2> QED
    BY <2>3
<1>8. CASE n \in 11 .. 16
  <2>1. CallRow(s, n, row)
    BY <1>8, CallRowsAre
  <2>2. n # 10
    BY <1>8
  <2>3. PICK c \in CallsIn(s) : \/ \E z \in CallOwnerRel(c.f, c.call, c.r) : row = Link(z)
                                \/ \E z \in CalledRels(c.f, c.call, c.r) : row = Link(z)
                                \/ \E z \in ConstructRels(c.f, c.call, c.r) : row = Link(z)
    BY <2>1, <2>2 DEF CallRow
  <2>4. r \in CallOwnerRel(c.f, c.call, c.r) \/ r \in CalledRels(c.f, c.call, c.r) \/ r \in ConstructRels(c.f, c.call, c.r)
    BY <2>3, RowParts
  <2> DEFINE target == IF c.r.constructs # None THEN c.r.initializer ELSE c.r.target
             known == {c.r.target, c.r.constructs, c.r.initializer}
  <2>5. /\ c.r.owner # None
        /\ r.start \in {c.r.owner, CallKey(c.f, c.call, c.r)}
        /\ r.end = CallKey(c.f, c.call, c.r) \/ (r.end \in known /\ r.end # None)
    <3>1. CASE r \in CallOwnerRel(c.f, c.call, c.r)
      BY <3>1, CallRelsAre
    <3>2. CASE r \in CalledRels(c.f, c.call, c.r)
      <4>1. target \in known
        OBVIOUS
      <4>2. c.r.owner # None /\ target # None /\ r.start \in {c.r.owner, CallKey(c.f, c.call, c.r)} /\ r.end = target
        BY <3>2, CallRelsAre
      <4> HIDE DEF target, known
      <4> QED
        BY <4>1, <4>2
    <3>3. CASE r \in ConstructRels(c.f, c.call, c.r)
      BY <3>3, CallRelsAre
    <3> QED
      BY <2>4, <3>1, <3>2, <3>3
  <2>6. n \in 11 .. 32
    BY <1>8
  <2>7. LaidBefore(s, n, CallKey(c.f, c.call, c.r)) /\ LaidBefore(s, n, c.r.owner)
    BY <2>5, <2>6, CallsLaid, CallEnds
  <2>8. \A key \in known : key # None => LaidBefore(s, n, key)
    BY <2>5, <2>6, CallEnds
  <2> HIDE DEF known
  <2> QED
    BY <1>3, <2>5, <2>7, <2>8
<1>9. CASE n \in 17 .. 32
  <2>1. SqlRow(s, n, row)
    BY <1>9, SqlRowsAre
  <2>2. CASE n \in 17 .. 21
    <3>1. \E x : row = Lone(x)
      BY <2>1, <2>2 DEF SqlRow
    <3>2. row.rels = {}
      BY <3>1, RowParts
    <3> QED
      BY <3>2
  <2>3. CASE n \in 22 .. 32
    <3>1. r \in SqlPart(s, SqlIndex(s)).rels
      <4>1. PICK z \in SqlPart(s, SqlIndex(s)).rels : row = Link(z)
        BY <2>1, <2>3 DEF SqlRow
      <4> QED
        BY <4>1, RowParts
    <3> QED
      BY <1>2, <2>3, <3>1, SqlAnchored
  <2> QED
    BY <1>9, <2>2, <2>3
<1> QED
  BY <1>6, <1>7, <1>8, <1>9

LEMMA PlanIsRight ==
  ASSUME NEW x \in Sources
  PROVE  PlanRight(x.snapshot, CodeGraph(x))
BY SourcesAre, PlanComplete, GraphInShape, GraphOneEach, PlanAnchored, PlanDerivedLate, PlanSqlLate DEF PlanRight

(***************************************************************************)
(* What merging rows of a graph keeps of the store, and what it adds.      *)
(***************************************************************************)
Shaped(g) == InShape(g.nodes) /\ \A r \in g.rels : Ends(r) \subseteq KeysOf(g)
Has(g, row) == row.nodes \subseteq g.nodes /\ row.rels \subseteq g.rels
Adds(g, h, w) ==
  /\ GraphForm(h) /\ Shaped(h) /\ KeysOf(g) \subseteq KeysOf(h)
  /\ g.nodes \cap w.nodes \subseteq h.nodes /\ g.rels \subseteq h.rels
  /\ h.nodes \subseteq g.nodes \cup w.nodes /\ h.rels \subseteq g.rels \cup w.rels

LEMMA AddsAgain ==
  ASSUME NEW g, NEW h, NEW k, NEW w, Adds(g, h, w), Adds(h, k, w)
  PROVE  Adds(g, k, w)
BY DEF Adds

LEMMA HasAgain ==
  ASSUME NEW g, NEW h, NEW w, Adds(g, h, w), NEW row, Has(w, row), Has(g, row)
  PROVE  Has(h, row)
BY DEF Adds, Has

LEMMA FindsMore ==
  ASSUME NEW g, NEW h, NEW w, Adds(g, h, w), NEW row, Finds(g, row)
  PROVE  Finds(h, row)
BY DEF Adds, Finds

LEMMA MergeAdds ==
  ASSUME NEW g, GraphForm(g), Shaped(g), NEW w, InShape(w.nodes), OneEach(w.nodes), NEW row, Has(w, row)
  PROVE  Adds(g, Merge(g, row), w) /\ (Finds(g, row) => Has(Merge(g, row), row))
<1> DEFINE lost == \E r \in row.rels : {r.start, r.end} \ (KeysOf(g) \cup KeysOf(row)) # {}
           kept == {n \in g.nodes : \A m \in row.nodes : <<m.label, m.key>> # <<n.label, n.key>>}
           h == Merge(g, row)
<1>1. Finds(g, row) => ~lost
  BY DEF Finds
<1>2. CASE lost
  <2>1. h = g
    BY <1>2 DEF Merge
  <2> HIDE DEF h, lost
  <2> QED
    BY <1>1, <1>2, <2>1 DEF Adds, h
<1>3. CASE ~lost
  <2>1. h = [nodes |-> kept \cup row.nodes, rels |-> g.rels \cup row.rels]
    BY <1>3 DEF Merge
  <2>2. \A r \in row.rels : Ends(r) \subseteq KeysOf(g) \cup KeysOf(row)
    BY <1>3 DEF Ends
  <2>3. KeysOf(g) \subseteq KeysOf(h)
    BY MergeKeeps, KeysKept
  <2>4. ASSUME NEW n \in g.nodes, n \in w.nodes PROVE n \in kept \cup row.nodes
    <3>1. CASE n \in kept
      BY <3>1
    <3>2. CASE n \notin kept
      <4>1. PICK m \in row.nodes : <<m.label, m.key>> = <<n.label, n.key>>
        BY <3>2
      <4>2. m \in w.nodes /\ m.label = n.label /\ m.key = n.key
        BY <4>1 DEF Has
      <4>3. m = n
        BY <2>4, <4>2 DEF OneEach
      <4> QED
        BY <4>3
    <3> QED
      BY <3>1, <3>2
  <2>5. kept \subseteq g.nodes
    OBVIOUS
  <2> HIDE DEF kept, lost, h
  <2>6. GraphForm(h) /\ h.nodes = kept \cup row.nodes /\ h.rels = g.rels \cup row.rels
    BY <2>1 DEF GraphForm
  <2>7. InShape(h.nodes)
    BY <2>5, <2>6 DEF InShape, Shaped, Has
  <2>8. KeysOf(row) \subseteq KeysOf(h)
    BY <2>6 DEF KeysOf
  <2>9. \A r \in h.rels : Ends(r) \subseteq KeysOf(h)
    BY <2>2, <2>3, <2>6, <2>8 DEF Shaped
  <2>10. Adds(g, h, w)
    BY <2>3, <2>4, <2>5, <2>6, <2>7, <2>9 DEF Adds, Shaped, Has
  <2> QED
    BY <2>6, <2>10 DEF Has, h
<1> QED
  BY <1>2, <1>3

LEMMA BatchAdds ==
  ASSUME NEW g, GraphForm(g), Shaped(g), NEW w, InShape(w.nodes), OneEach(w.nodes),
         NEW rows, NEW n \in Nat, DOMAIN rows = 1 .. n, \A k \in 1 .. n : Has(w, rows[k])
  PROVE  /\ Adds(g, MergeRows(g, rows), w)
         /\ \A k \in 1 .. n : Finds(g, rows[k]) => Has(MergeRows(g, rows), rows[k])
<1>1. PICK f : MergeRun(f, n, g, rows)
  BY MergeRuns
<1> DEFINE V == {m \in Nat : m <= n => /\ Adds(g, f[m], w)
                                       /\ \A k \in 1 .. m : Finds(g, rows[k]) => Has(f[m], rows[k])}
<1>2. 0 \in V
  <2>1. f[0] = g
    BY <1>1 DEF MergeRun
  <2>2. Adds(g, g, w)
    BY DEF Adds
  <2> QED
    BY <2>1, <2>2
<1>3. ASSUME NEW m \in Nat, m \in V PROVE m + 1 \in V
  <2> SUFFICES ASSUME m + 1 <= n
               PROVE  /\ Adds(g, f[m + 1], w)
                      /\ \A k \in 1 .. m + 1 : Finds(g, rows[k]) => Has(f[m + 1], rows[k])
    OBVIOUS
  <2>1. m + 1 \in 1 .. n /\ (m + 1) - 1 = m /\ m <= n
    OBVIOUS
  <2>2. Adds(g, f[m], w) /\ \A k \in 1 .. m : Finds(g, rows[k]) => Has(f[m], rows[k])
    BY <1>3, <2>1
  <2> HIDE DEF V
  <2>3. f[m + 1] = Merge(f[m], rows[m + 1])
    BY <1>1, <2>1 DEF MergeRun
  <2>4. GraphForm(f[m]) /\ Shaped(f[m]) /\ Has(w, rows[m + 1])
    BY <2>1, <2>2 DEF Adds
  <2>5. Adds(f[m], f[m + 1], w) /\ (Finds(f[m], rows[m + 1]) => Has(f[m + 1], rows[m + 1]))
    BY <2>3, <2>4, MergeAdds
  <2>6. Adds(g, f[m + 1], w)
    BY <2>2, <2>5, AddsAgain
  <2>7. ASSUME NEW k \in 1 .. m + 1, Finds(g, rows[k]) PROVE Has(f[m + 1], rows[k])
    <3>1. CASE k = m + 1
      BY <2>2, <2>5, <2>7, <3>1, FindsMore
    <3>2. CASE k # m + 1
      <4>1. k \in 1 .. m /\ Has(w, rows[k])
        BY <2>1, <3>2
      <4> QED
        BY <2>2, <2>5, <2>7, <4>1, HasAgain
    <3> QED
      BY <3>1, <3>2
  <2> QED
    BY <2>6, <2>7
<1> HIDE DEF V
<1>4. n \in V
  BY <1>2, <1>3, Induction
<1> QED
  BY <1>1, <1>4 DEF V, MergeRun

(***************************************************************************)
(* What the stores hold of an earlier run and of this one.                 *)
(***************************************************************************)
(* Everywhere, SQL is what has keys of SQL, and a relationship has its ends.  *)
GraphsShaped == \A c \in Commits : Shaped(request.graph[c])
GraphsOwned ==
  /\ request.repository = None => \A c \in Commits : request.graph[c] = Nothing
  /\ progress.pc \in Writes \cup {"index.validate"} => request.repository # None
Wanted == CodeGraph(request.source)
(* The operations at hand are those of the plan after this one.              *)
Offset == IF progress.pc = "index.sql" THEN 16 ELSE 0
Behind(n, row) ==
  \/ progress.pc = "index.validate"
  \/ n <= Offset
  \/ /\ n <= Offset + 16
     /\ \E k \in DOMAIN progress.operations[n - Offset] :
          Reached(n - Offset, k) /\ progress.operations[n - Offset][k] = row
(* What is behind the place of the load is in the graph.                     *)
PlanWritten ==
  progress.pc \in Writes \cup {"index.validate"} =>
    \A n \in 1 .. 32 : \A row \in Planned(request.source.snapshot, n) : Behind(n, row) => Has(Loaded, row)
(* Resolutions are cleared before any is written.                            *)
ClearAhead ==
  progress.pc = "index.load" =>
    progress.operation < Clear \/ (progress.operation = Clear /\ progress.rows = 0)
(* From then on no resolution is in the graph but today's, from the second
   clearing on no SQL; and if the run replaces, nothing at all.              *)
DerivedWanted ==
  progress.pc \in {"index.write", "index.sql", "index.validate"} =>
    \A r \in Loaded.rels : r.kind \in Derived => r \in Wanted.rels
SqlWanted ==
  progress.pc \in {"index.sql", "index.validate"} =>
    /\ \A x \in Loaded.nodes : SqlKey(x.key) => x \in Wanted.nodes
    /\ \A r \in Loaded.rels : (\E e \in Ends(r) : SqlKey(e)) => r \in Wanted.rels
OnlyWanted ==
  request.replace /\ progress.pc \in {"index.repository", "index.validate"} \cup Writes =>
    /\ Loaded.nodes \subseteq Wanted.nodes /\ Loaded.rels \subseteq Wanted.rels
    /\ \A c \in Commits : c # request.source.commit => request.graph[c] = Nothing
Unfinished == progress.pc # "idle" => request.status # "ok"
ConvergeInv ==
  GraphsShaped /\ GraphsOwned /\ PlanWritten /\ ClearAhead /\ DerivedWanted /\ SqlWanted /\ OnlyWanted
  /\ Unfinished /\ IndexConverges

LEMMA OperationsPlanned ==
  ASSUME IndexInv, progress.pc \in Writes
  PROVE  /\ DOMAIN progress.operations = 1 .. 16 /\ Len(progress.operations) = 16
         /\ \A n \in 1 .. 16 : Lists(progress.operations[n], Planned(request.source.snapshot, Offset + n))
<1> DEFINE s == request.source.snapshot
<1>1. IsSnapshot(s)
  BY IndexAssumption DEF IndexInv, ProgressForm, Begun, IsSnapshot
<1>2. CASE progress.pc \in Loads
  <2>1. progress.operations = OperationsOf(s) /\ Offset = 0
    BY <1>2 DEF IndexInv, OperationsForm, Offset, Loads
  <2>2. \A n \in 1 .. 16 : Planned(s, 0 + n) = Operations(s, InMemoryIndex(s), CallsIn(s))[n]
    BY DEF Planned
  <2> QED
    BY <1>1, <2>1, <2>2, OperationsListed DEF Lists
<1>3. CASE progress.pc = "index.sql"
  <2>1. progress.operations = SqlOperationsOf(s) /\ Offset = 16
    BY <1>3 DEF IndexInv, OperationsForm, Offset
  <2>2. ASSUME NEW n \in 1 .. 16 PROVE Planned(s, 16 + n) = SqlRows(s, n)
    <3>1. ~(16 + n <= 16) /\ (16 + n) - 16 = n
      OBVIOUS
    <3> QED
      BY <3>1 DEF Planned
  <2> QED
    BY <1>1, <2>1, <2>2, SqlOperationsListed
<1> QED
  BY <1>2, <1>3 DEF Writes

(* A row of the plan has its place in the list of its operation.             *)
LEMMA PlacePlanned ==
  ASSUME IndexInv, progress.pc \in Writes, NEW n \in 1 .. 32, n > Offset, n <= Offset + 16,
         NEW row \in Planned(request.source.snapshot, n)
  PROVE  /\ n - Offset \in 1 .. 16
         /\ \E k \in DOMAIN progress.operations[n - Offset] : progress.operations[n - Offset][k] = row
<1>1. Offset \in {0, 16}
  BY DEF Offset
<1>2. n - Offset \in 1 .. 16 /\ Offset + (n - Offset) = n
  BY <1>1
<1>3. ToSet(progress.operations[n - Offset]) = Planned(request.source.snapshot, n)
  BY <1>2, OperationsPlanned DEF Lists
<1> QED
  BY <1>2, <1>3 DEF ToSet

LEMMA LoadKeeps ==
  ASSUME RequestForm, request.source \in Sources, NEW g, Load(g)
  PROVE  /\ request'.repository = request.repository /\ request'.replace = request.replace
         /\ request'.status = request.status /\ request'.source = request.source /\ Loaded' = g
         /\ \A c \in Commits : c # request.source.commit => request'.graph[c] = request.graph[c]
<1> DEFINE commit == request.source.commit
           G == request.graph
           H == [G EXCEPT ![commit] = g]
<1>1. commit \in Commits
  BY DEF Commits
<1>2. G = [c \in Commits |-> G[c]]
  BY DEF RequestForm
<1>3. request' = [request EXCEPT !.graph = H]
  BY DEF Load
<1>4. H = [c \in Commits |-> IF c = commit THEN g ELSE G[c]]
  <2> HIDE DEF commit, G
  <2> QED
    BY <1>1, <1>2
<1>5. request'.graph = H /\ request'.repository = request.repository /\ request'.replace = request.replace
      /\ request'.status = request.status /\ request'.source = request.source
  <2> HIDE DEF H, G, commit
  <2> QED
    BY <1>3 DEF RequestForm, RequestFields
<1>6. H[commit] = g /\ \A c \in Commits : c # commit => H[c] = G[c]
  <2> HIDE DEF H, G, commit
  <2> QED
    BY <1>1, <1>4
<1> HIDE DEF H
<1> QED
  BY <1>5, <1>6 DEF Loaded

LEMMA ConvergeStarts == IndexInit => ConvergeInv
<1> SUFFICES ASSUME IndexInit PROVE ConvergeInv
  OBVIOUS
<1> DEFINE empty == [c \in Commits |-> Nothing]
<1>1. /\ request.graph = empty /\ request.replace = FALSE /\ request.status = "new"
      /\ progress.pc = "idle"
  BY DEF IndexInit, Idle
<1>2. \A c \in Commits : empty[c] = Nothing
  OBVIOUS
<1> HIDE DEF empty
<1>3. Shaped(Nothing)
  BY DEF Shaped, InShape, Nothing
<1>4. GraphsShaped /\ GraphsOwned
  BY <1>1, <1>2, <1>3 DEF GraphsShaped, GraphsOwned, Writes, Loads
<1>5. PlanWritten /\ ClearAhead /\ DerivedWanted /\ SqlWanted /\ OnlyWanted
  BY <1>1 DEF PlanWritten, ClearAhead, DerivedWanted, SqlWanted, OnlyWanted, Writes, Loads
<1>6. Unfinished /\ IndexConverges
  BY <1>1 DEF Unfinished, IndexConverges
<1> QED
  BY <1>4, <1>5, <1>6 DEF ConvergeInv

LEMMA BeginConverges ==
  ASSUME IndexInv, ConvergeInv, BeginIndex
  PROVE  ConvergeInv'
<1>1. PICK source \in Sources, replace \in BOOLEAN :
        /\ request' = [request EXCEPT !.source = source, !.replace = replace, !.times = @ + 1, !.status = "indexing"]
        /\ progress' = [pc |-> IF replace THEN "index.docs" ELSE "index.repository",
                        replaced |-> IF replace THEN LiveKeys(request.graph) ELSE {}]
  BY DEF BeginIndex
<1>2. /\ request'.graph = request.graph /\ request'.repository = request.repository
      /\ request'.replace = replace /\ request'.status = "indexing"
      /\ progress'.pc \in {"index.docs", "index.repository"}
      /\ replace => progress'.pc = "index.docs"
  BY <1>1 DEF IndexInv, RequestForm, RequestFields
<1>3. GraphsShaped' /\ GraphsOwned'
  BY <1>2 DEF ConvergeInv, GraphsShaped, GraphsOwned, Writes, Loads
<1>4. (PlanWritten /\ ClearAhead /\ DerivedWanted /\ SqlWanted)'
  BY <1>2 DEF PlanWritten, ClearAhead, DerivedWanted, SqlWanted, Writes, Loads
<1>5. (OnlyWanted /\ Unfinished /\ IndexConverges)'
  BY <1>2 DEF OnlyWanted, Unfinished, IndexConverges, Writes, Loads
<1> QED
  BY <1>3, <1>4, <1>5 DEF ConvergeInv

LEMMA DeleteDocsConverges ==
  ASSUME IndexInv, ConvergeInv, DeleteDocs
  PROVE  ConvergeInv'
<1>1. progress.pc = "index.docs" /\ request' = [request EXCEPT !.docs = {}]
      /\ progress' = [progress EXCEPT !.pc = "index.delete"]
  BY DEF DeleteDocs, DropDocs
<1>2. /\ request'.graph = request.graph /\ request'.repository = request.repository
      /\ request'.replace = request.replace /\ request'.status = request.status
      /\ progress'.pc = "index.delete"
  BY <1>1 DEF IndexInv, RequestForm, RequestFields, ProgressForm, Begun
<1>3. GraphsShaped' /\ GraphsOwned'
  BY <1>2 DEF ConvergeInv, GraphsShaped, GraphsOwned, Writes, Loads
<1>4. (PlanWritten /\ ClearAhead /\ DerivedWanted /\ SqlWanted)'
  BY <1>2 DEF PlanWritten, ClearAhead, DerivedWanted, SqlWanted, Writes, Loads
<1>5. (OnlyWanted /\ Unfinished /\ IndexConverges)'
  BY <1>1, <1>2 DEF ConvergeInv, OnlyWanted, Unfinished, IndexConverges, Writes, Loads
<1> QED
  BY <1>3, <1>4, <1>5 DEF ConvergeInv

LEMMA DeleteGraphConverges ==
  ASSUME IndexInv, ConvergeInv, DeleteGraph
  PROVE  ConvergeInv'
<1> DEFINE empty == [c \in Commits |-> Nothing]
<1>1. progress.pc = "index.delete" /\ progress' = [progress EXCEPT !.pc = "index.repository"]
      /\ request' = IF request.repository = None THEN request
                    ELSE [request EXCEPT !.repository = None, !.graph = empty]
  BY DEF DeleteGraph
<1>2. \A c \in Commits : empty[c] = Nothing
  OBVIOUS
<1> HIDE DEF empty
<1>3. /\ \A c \in Commits : request'.graph[c] = Nothing
      /\ request'.source = request.source /\ request'.status = request.status
  <2>1. CASE request.repository = None
    BY <1>1, <2>1 DEF ConvergeInv, GraphsOwned
  <2>2. CASE request.repository # None
    <3>1. request' = [request EXCEPT !.repository = None, !.graph = empty]
      BY <1>1, <2>2
    <3>2. request'.graph = empty /\ request'.source = request.source /\ request'.status = request.status
      BY <3>1 DEF IndexInv, RequestForm, RequestFields
    <3> QED
      BY <1>2, <3>2
  <2> QED
    BY <2>1, <2>2
<1>4. progress'.pc = "index.repository" /\ request.source \in Sources
  BY <1>1 DEF IndexInv, ProgressForm, Begun
<1>5. request'.source.commit \in Commits
  BY <1>3, <1>4 DEF Commits
<1>6. Shaped(Nothing)
  BY DEF Shaped, InShape, Nothing
<1>7. GraphsShaped' /\ GraphsOwned'
  BY <1>3, <1>4, <1>6 DEF GraphsShaped, GraphsOwned, Writes, Loads
<1>8. (PlanWritten /\ ClearAhead /\ DerivedWanted /\ SqlWanted)'
  BY <1>4 DEF PlanWritten, ClearAhead, DerivedWanted, SqlWanted, Writes, Loads
<1>9. OnlyWanted'
  <2>1. Loaded' = Nothing
    BY <1>3, <1>5 DEF Loaded
  <2>2. Loaded'.nodes = {} /\ Loaded'.rels = {}
    BY <2>1 DEF Nothing
  <2> QED
    BY <1>3, <2>2 DEF OnlyWanted
<1>10. (Unfinished /\ IndexConverges)'
  BY <1>1, <1>3, <1>4 DEF ConvergeInv, Unfinished, IndexConverges
<1> QED
  BY <1>7, <1>8, <1>9, <1>10 DEF ConvergeInv

LEMMA MergeRepositoryConverges ==
  ASSUME IndexInv, ConvergeInv, MergeRepository
  PROVE  ConvergeInv'
<1>1. progress.pc = "index.repository" /\ request' = [request EXCEPT !.repository = request.source.commit]
      /\ progress' = [pc |-> "index.load", replaced |-> progress.replaced, operation |-> 1, rows |-> 0,
                      operations |-> OperationsOf(request.source.snapshot)]
  BY DEF MergeRepository
<1>2. /\ request'.graph = request.graph /\ request'.repository = request.source.commit
      /\ request'.replace = request.replace /\ request'.status = request.status /\ request'.source = request.source
      /\ progress'.pc = "index.load" /\ progress'.operation = 1 /\ progress'.rows = 0
  BY <1>1 DEF IndexInv, RequestForm, RequestFields
<1>3. request.source \in Sources /\ request.source.commit # None
  BY <1>1, IndexAssumption DEF IndexInv, ProgressForm, Begun
<1>4. GraphsShaped' /\ GraphsOwned'
  BY <1>2, <1>3 DEF ConvergeInv, GraphsShaped, GraphsOwned
<1>5. PlanWritten'
  <2> SUFFICES ASSUME NEW n \in 1 .. 32, NEW row, Behind(n, row)'
               PROVE  FALSE
    BY DEF PlanWritten
  <2>1. Offset' = 0
    BY <1>2 DEF Offset
  <2>2. PICK k \in DOMAIN progress'.operations[n - 0] : n <= 16 /\ Reached(n - 0, k)'
    BY <1>2, <2>1 DEF Behind
  <2>3. n - 0 = n /\ n \in 1 .. 16
    BY <2>2
  <2>4. IsList(progress'.operations[n])
    BY <1>1, <1>3, <2>3, OperationsListed, IndexAssumption DEF IsSnapshot
  <2>5. k \in Nat /\ ~(k <= 0)
    BY <2>2, <2>3, <2>4 DEF IsList
  <2> QED
    BY <1>2, <2>2, <2>3, <2>5 DEF Reached
<1>6. (ClearAhead /\ DerivedWanted /\ SqlWanted)'
  BY <1>2 DEF ClearAhead, DerivedWanted, SqlWanted, Clear
<1>7. OnlyWanted'
  BY <1>1, <1>2 DEF ConvergeInv, OnlyWanted, Loaded, Wanted
<1>8. (Unfinished /\ IndexConverges)'
  BY <1>1, <1>2 DEF ConvergeInv, Unfinished, IndexConverges
<1> QED
  BY <1>4, <1>5, <1>6, <1>7, <1>8 DEF ConvergeInv

(* A load of an unfinished run: what it must keep, and nothing else.         *)
LEMMA LoadConverges ==
  ASSUME IndexInv, ConvergeInv, progress.pc \in Writes, NEW g, Load(g), Shaped(g),
         progress'.pc \in Writes,
         g.nodes \subseteq Loaded.nodes \cup Wanted.nodes, g.rels \subseteq Loaded.rels \cup Wanted.rels
  PROVE  /\ GraphsShaped' /\ GraphsOwned' /\ OnlyWanted' /\ Unfinished' /\ IndexConverges'
         /\ Loaded' = g /\ request'.source = request.source /\ Wanted' = Wanted
<1>1. RequestForm /\ request.source \in Sources
  BY DEF IndexInv, ProgressForm, Begun
<1>2. /\ request'.repository = request.repository /\ request'.replace = request.replace
      /\ request'.status = request.status /\ request'.source = request.source /\ Loaded' = g
      /\ \A c \in Commits : c # request.source.commit => request'.graph[c] = request.graph[c]
  BY <1>1, LoadKeeps
<1>3. Wanted' = Wanted
  BY <1>2 DEF Wanted
<1>4. progress.pc # "idle" /\ progress'.pc # "idle"
  BY DEF Writes, Loads
<1>5. GraphsShaped'
  <2>1. request'.graph[request.source.commit] = g
    BY <1>2 DEF Loaded
  <2>2. ASSUME NEW c \in Commits PROVE Shaped(request'.graph[c])
    <3>1. CASE c = request.source.commit
      BY <2>1, <3>1
    <3>2. CASE c # request.source.commit
      BY <1>2, <3>2 DEF ConvergeInv, GraphsShaped
    <3> QED
      BY <3>1, <3>2
  <2> QED
    BY <2>2 DEF GraphsShaped
<1>6. GraphsOwned'
  BY <1>2 DEF ConvergeInv, GraphsOwned
<1>7. OnlyWanted'
  BY <1>2, <1>3 DEF ConvergeInv, OnlyWanted
<1>8. Unfinished' /\ IndexConverges'
  BY <1>2, <1>4 DEF ConvergeInv, Unfinished, IndexConverges
<1> QED
  BY <1>2, <1>3, <1>5, <1>6, <1>7, <1>8

(* The derived relationships go before the first row that derives one.       *)
LEMMA ClearResolutionsConverges ==
  ASSUME IndexInv, ConvergeInv, ClearResolutions
  PROVE  ConvergeInv'
<1> DEFINE g == ClearDerived(Loaded)
           s == request.source.snapshot
<1>1. progress.pc = "index.load" /\ progress.operation = Clear /\ Load(g)
      /\ progress' = [progress EXCEPT !.pc = "index.write"]
  BY DEF ClearResolutions
<1>2. progress'.pc = "index.write" /\ progress'.operation = 10 /\ progress'.rows = 0
      /\ progress'.operations = progress.operations /\ progress.operation = 10 /\ progress.rows = 0
  <2>1. progress = [pc |-> progress.pc, replaced |-> progress.replaced, operation |-> progress.operation,
                    rows |-> progress.rows, operations |-> progress.operations]
    BY <1>1 DEF IndexInv, ProgressForm, Writes, Loads
  <2>2. progress.rows = 0 /\ progress.operation = 10
    BY <1>1 DEF ConvergeInv, ClearAhead, Clear
  <2> QED
    BY <1>1, <2>1, <2>2
<1>3. RequestForm /\ request.source \in Sources /\ request.source.commit \in Commits
  BY <1>1 DEF IndexInv, ProgressForm, Begun, Writes, Loads, Commits
<1>4. GraphForm(Loaded) /\ Shaped(Loaded)
  BY <1>3 DEF RequestForm, Loaded, ConvergeInv, GraphsShaped
<1>5. g.nodes = Loaded.nodes /\ g.rels = {r \in Loaded.rels : r.kind \notin Derived}
  <2>1. g = [nodes |-> Loaded.nodes, rels |-> {r \in Loaded.rels : r.kind \notin Derived}]
    BY <1>4 DEF ClearDerived, WithoutDerived, GraphForm
  <2> QED
    BY <2>1
<1> HIDE DEF g
<1>6. Shaped(g)
  BY <1>4, <1>5 DEF Shaped, KeysOf
<1>7. /\ GraphsShaped' /\ GraphsOwned' /\ OnlyWanted' /\ Unfinished' /\ IndexConverges'
      /\ Loaded' = g /\ request'.source = request.source /\ Wanted' = Wanted
  <2>1. progress.pc \in Writes /\ progress'.pc \in Writes
    BY <1>1, <1>2 DEF Writes, Loads
  <2> QED
    BY <1>1, <1>5, <1>6, <2>1, LoadConverges
<1>8. PlanWritten'
  <2> SUFFICES ASSUME NEW n \in 1 .. 32, NEW row \in Planned(s, n), Behind(n, row)' PROVE Has(g, row)
    BY <1>7 DEF PlanWritten
  <2>1. Offset' = 0 /\ Offset = 0
    BY <1>1, <1>2 DEF Offset
  <2>2. PICK k \in DOMAIN progress'.operations[n - 0] :
          n <= 16 /\ Reached(n - 0, k)' /\ progress'.operations[n - 0][k] = row
    BY <1>2, <2>1 DEF Behind
  <2>3. n - 0 = n /\ n \in 1 .. 16
    BY <2>2
  <2>4. IsList(progress.operations[n])
    BY <1>1, <2>3, OperationsPlanned DEF Lists, Writes, Loads
  <2>5. k \in DOMAIN progress.operations[n] /\ progress.operations[n][k] = row
    BY <1>2, <2>2, <2>3
  <2>6. k \in Nat /\ ~(k <= 0)
    BY <2>4, <2>5 DEF IsList
  <2>7. n < 10
    BY <1>2, <2>2, <2>3, <2>6 DEF Reached
  <2>8. Reached(n - 0, k)
    BY <1>2, <2>3, <2>7 DEF Reached
  <2>9. Behind(n, row)
    BY <2>1, <2>3, <2>5, <2>8 DEF Behind
  <2>10. Has(Loaded, row)
    BY <1>1, <2>9 DEF ConvergeInv, PlanWritten, Writes, Loads
  <2>11. \A r \in row.rels : r.kind \notin Derived
    <3>1. n \in 1 .. 9
      BY <2>7
    <3> QED
      BY <1>3, <3>1, PlanIsRight DEF PlanRight, DerivedLate
  <2> QED
    BY <1>5, <2>10, <2>11 DEF Has
<1>9. (ClearAhead /\ DerivedWanted /\ SqlWanted)'
  BY <1>2, <1>5, <1>7 DEF ClearAhead, DerivedWanted, SqlWanted
<1> QED
  BY <1>7, <1>8, <1>9 DEF ConvergeInv

(* A key at an end of a row written before the SQL is none of SQL.           *)
LEMMA EndsBeforeSql ==
  ASSUME NEW x \in Sources, NEW n \in 1 .. 16, NEW row \in Planned(x.snapshot, n),
         NEW r \in row.rels, NEW e \in Ends(r)
  PROVE  ~SqlKey(e)
<1> DEFINE s == x.snapshot
<1>1. Anchored(s) /\ SqlLate(s)
  BY PlanIsRight DEF PlanRight
<1>2. ~SqlKey(RepositoryKey)
  BY DEF SqlKey, RepositoryKey, DatabaseKey
<1>3. n \in 1 .. 32
  OBVIOUS
<1>4. CASE e \in KeysOf(row)
  BY <1>1, <1>2, <1>4 DEF KeysOf, SqlLate
<1>5. CASE \E m \in 1 .. 32 : m < n /\ \E other \in Planned(s, m) : e \in KeysAmong(other.nodes)
  <2>1. PICK m \in 1 .. 32 : m < n /\ \E other \in Planned(s, m) : e \in KeysAmong(other.nodes)
    BY <1>5
  <2>2. m \in 1 .. 16
    BY <2>1
  <2> QED
    BY <1>1, <2>1, <2>2 DEF SqlLate, KeysAmong
<1> QED
  BY <1>1, <1>3, <1>4, <1>5 DEF Anchored

LEMMA SqlGone ==
  ASSUME NEW h, GraphForm(h), Shaped(h)
  PROVE  LET g == WithoutSql(h)
         IN  /\ g.nodes \subseteq h.nodes /\ g.rels \subseteq h.rels /\ Shaped(g)
             /\ \A x \in h.nodes : x \in g.nodes <=> ~SqlKey(x.key)
             /\ \A r \in h.rels : r \in g.rels <=> \A e \in Ends(r) : ~SqlKey(e)
<1> DEFINE g == WithoutSql(h)
           gone == {n \in h.nodes : n.label \in ToSet(SqlLabels)}
           keys == {n.key : n \in gone}
<1>1. SqlOf(h).nodes = gone /\ SqlOf(h).rels = {r \in h.rels : {r.start, r.end} \cap keys # {}}
  BY DEF SqlOf
<1>2. g = [nodes |-> h.nodes \ SqlOf(h).nodes, rels |-> h.rels \ SqlOf(h).rels]
  BY DEF WithoutSql
<1>3. g.nodes = h.nodes \ gone /\ g.rels = {r \in h.rels : Ends(r) \cap keys = {}}
  <2> HIDE DEF gone, keys
  <2>1. g.nodes = h.nodes \ gone /\ g.rels = h.rels \ SqlOf(h).rels
    BY <1>1, <1>2
  <2> HIDE DEF g
  <2> QED
    BY <1>1, <2>1 DEF Ends
<1>4. \A x \in h.nodes : x \in gone <=> SqlKey(x.key)
  BY DEF Shaped, InShape
<1> HIDE DEF gone, g
<1>5. \A r \in h.rels : \A e \in Ends(r) : e = RepositoryKey \/ \E x \in h.nodes : e = x.key
  BY DEF Shaped, KeysOf
<1>6. ~SqlKey(RepositoryKey)
  BY DEF SqlKey, RepositoryKey, DatabaseKey
<1>7. ASSUME NEW r \in h.rels PROVE r \in g.rels <=> \A e \in Ends(r) : ~SqlKey(e)
  <2>1. ASSUME NEW e \in Ends(r), SqlKey(e) PROVE e \in keys
    BY <1>4, <1>5, <1>6, <2>1
  <2>2. ASSUME NEW e \in keys PROVE SqlKey(e)
    <3>1. PICK x \in gone : e = x.key
      OBVIOUS
    <3>2. x \in h.nodes
      BY DEF gone
    <3> QED
      BY <1>4, <3>1, <3>2
  <2> HIDE DEF keys
  <2> QED
    BY <1>3, <2>1, <2>2
<1>8. \A x \in h.nodes : x \in g.nodes <=> ~SqlKey(x.key)
  BY <1>3, <1>4
<1>9. g.nodes \subseteq h.nodes /\ g.rels \subseteq h.rels
  BY <1>3
<1>10. Shaped(g)
  <2>1. InShape(g.nodes)
    BY <1>9 DEF Shaped, InShape
  <2>2. ASSUME NEW r \in g.rels, NEW e \in Ends(r) PROVE e \in KeysOf(g)
    <3>1. r \in h.rels /\ ~SqlKey(e)
      BY <1>7, <1>9
    <3>2. CASE e = RepositoryKey
      BY <3>2 DEF KeysOf
    <3>3. CASE \E x \in h.nodes : e = x.key
      BY <1>8, <3>1, <3>3 DEF KeysOf
    <3> QED
      BY <1>5, <3>1, <3>2, <3>3
  <2> QED
    BY <2>1, <2>2 DEF Shaped
<1> QED
  BY <1>7, <1>8, <1>9, <1>10 DEF g

LEMMA ClearSqlConverges ==
  ASSUME IndexInv, ConvergeInv, ClearSql
  PROVE  ConvergeInv'
<1> DEFINE g == WithoutSql(Loaded)
           s == request.source.snapshot
<1>1. progress.pc = "index.write" /\ progress.operation > Len(progress.operations) /\ Load(g)
      /\ progress' = [pc |-> "index.sql", replaced |-> progress.replaced, operation |-> 1, rows |-> 0,
                      operations |-> SqlOperationsOf(s)]
  BY DEF ClearSql
<1>2. progress'.pc = "index.sql" /\ progress'.operation = 1 /\ progress'.rows = 0
      /\ progress'.operations = SqlOperationsOf(s) /\ progress.pc \in Writes /\ progress'.pc \in Writes
  BY <1>1 DEF Writes, Loads
<1>3. RequestForm /\ request.source \in Sources /\ request.source.commit \in Commits
  BY <1>1 DEF IndexInv, ProgressForm, Begun, Writes, Loads, Commits
<1>4. GraphForm(Loaded) /\ Shaped(Loaded)
  BY <1>3 DEF RequestForm, Loaded, ConvergeInv, GraphsShaped
<1>5. /\ g.nodes \subseteq Loaded.nodes /\ g.rels \subseteq Loaded.rels /\ Shaped(g)
      /\ \A x \in Loaded.nodes : x \in g.nodes <=> ~SqlKey(x.key)
      /\ \A r \in Loaded.rels : r \in g.rels <=> \A e \in Ends(r) : ~SqlKey(e)
  BY <1>4, SqlGone
<1> HIDE DEF g
<1>6. /\ GraphsShaped' /\ GraphsOwned' /\ OnlyWanted' /\ Unfinished' /\ IndexConverges'
      /\ Loaded' = g /\ request'.source = request.source /\ Wanted' = Wanted
  BY <1>1, <1>2, <1>5, LoadConverges
<1>7. PlanWritten'
  <2> SUFFICES ASSUME NEW n \in 1 .. 32, NEW row \in Planned(s, n), Behind(n, row)' PROVE Has(g, row)
    BY <1>6 DEF PlanWritten
  <2>1. Offset' = 16 /\ Offset = 0
    BY <1>1, <1>2 DEF Offset
  <2>2. n <= 16
    <3> SUFFICES ASSUME ~(n <= 16) PROVE FALSE
      OBVIOUS
    <3>1. PICK k \in DOMAIN progress'.operations[n - 16] : Reached(n - 16, k)'
      BY <1>2, <2>1 DEF Behind
    <3>2. n - 16 \in 1 .. 16 /\ ~(n - 16 < 1)
      OBVIOUS
    <3>3. IsList(progress'.operations[n - 16])
      BY <1>2, <1>3, <3>2, SqlOperationsListed, IndexAssumption DEF IsSnapshot, Lists
    <3>4. ~(k <= 0)
      BY <3>1, <3>3 DEF IsList
    <3> QED
      BY <1>2, <3>1, <3>2, <3>4 DEF Reached
  <2>3. n \in 1 .. 16 /\ n > 0 /\ n - 0 = n
    BY <2>2
  <2>4. PICK k \in DOMAIN progress.operations[n - 0] : progress.operations[n - 0][k] = row
    BY <1>2, <2>1, <2>3, PlacePlanned
  <2>5. n - 0 < progress.operation
    <3>1. progress.operation \in Nat /\ Len(progress.operations) = 16
      BY <1>2, OperationsPlanned DEF IndexInv, ProgressForm
    <3> QED
      BY <1>1, <2>3, <3>1
  <2>6. Behind(n, row)
    BY <2>1, <2>3, <2>4, <2>5 DEF Behind, Reached
  <2>7. Has(Loaded, row)
    BY <1>2, <2>6 DEF ConvergeInv, PlanWritten
  <2>8. \A x \in row.nodes : ~SqlKey(x.key)
    BY <1>3, <2>3, PlanIsRight DEF PlanRight, SqlLate
  <2>9. \A r \in row.rels : \A e \in Ends(r) : ~SqlKey(e)
    BY <1>3, <2>3, EndsBeforeSql
  <2> QED
    BY <1>5, <2>7, <2>8, <2>9 DEF Has
<1>8. (ClearAhead /\ DerivedWanted)'
  BY <1>1, <1>2, <1>5, <1>6 DEF ConvergeInv, ClearAhead, DerivedWanted
<1>9. SqlWanted'
  BY <1>5, <1>6 DEF SqlWanted
<1> QED
  BY <1>6, <1>7, <1>8, <1>9 DEF ConvergeInv

LEMMA WantedForm ==
  ASSUME NEW x
  PROVE  GraphForm(CodeGraph(x))
BY GraphIs

(* What a batch holds is of the list.                                        *)
LEMMA BatchInList ==
  ASSUME NEW rows, IsList(rows), NEW offset \in Nat, NEW m \in Nat,
         DOMAIN Window(rows, offset, BatchRows) = 1 .. m, NEW j \in 1 .. m
  PROVE  Window(rows, offset, BatchRows)[j] \in ToSet(rows)
<1> DEFINE end == IF Len(rows) < offset + BatchRows THEN Len(rows) ELSE offset + BatchRows
           batch == Window(rows, offset, BatchRows)
           T == ToSet(rows)
<1>1. rows \in Seq(T) /\ Len(rows) \in Nat /\ BatchRows \in Nat \ {0}
  BY IndexAssumption DEF IsList
<1>2. batch = SubSeq(rows, offset + 1, end)
  BY <1>1 DEF Window
<1>3. end \in Nat /\ end <= Len(rows)
  BY <1>1
<1> HIDE DEF end, T
<1>4. batch \in Seq(T)
  <2>1. CASE offset + 1 <= end
    BY <1>1, <1>2, <1>3, <2>1
  <2>2. CASE ~(offset + 1 <= end)
    BY <1>1, <1>2, <1>3, <2>2
  <2> QED
    BY <2>1, <2>2
<1> HIDE DEF batch
<1>5. \A t : t \in Seq(T) => \A i \in DOMAIN t : t[i] \in T
  OBVIOUS
<1>6. batch[j] \in T
  BY <1>4, <1>5 DEF batch
<1> QED
  BY <1>6 DEF batch, T

(* The rows that a batch brings are those of the list from where it stands.  *)
LEMMA NewlyReached ==
  ASSUME IndexInv, WriteBatch, NEW n \in 1 .. 16, NEW k \in DOMAIN progress.operations[n],
         Reached(n, k)', ~Reached(n, k)
  PROVE  /\ n = progress.operation
         /\ k > progress.rows /\ k <= progress.rows + BatchRows
<1> DEFINE rows == progress.operations[progress.operation]
           done == progress.rows + BatchRows >= Len(rows)
           operation == IF done THEN progress.operation + 1 ELSE progress.operation
           written == IF done THEN 0 ELSE progress.rows + BatchRows
<1>1. progress.pc \in Writes /\ progress.operation <= Len(progress.operations)
      /\ progress' = [progress EXCEPT !.operation = IF done THEN @ + 1 ELSE @,
                                      !.rows = IF done THEN 0 ELSE @ + BatchRows]
  BY DEF WriteBatch, Writes, Loads
<1>2. progress = [pc |-> progress.pc, replaced |-> progress.replaced, operation |-> progress.operation,
                  rows |-> progress.rows, operations |-> progress.operations]
      /\ progress.operation \in Nat \ {0} /\ progress.rows \in Nat
  BY <1>1 DEF IndexInv, ProgressForm, Writes, Loads
<1>3. Len(progress.operations) = 16 /\ \A j \in 1 .. 16 : IsList(progress.operations[j])
  BY <1>1, OperationsPlanned DEF Lists
<1>4. IsList(rows) /\ IsList(progress.operations[n])
  BY <1>1, <1>2, <1>3
<1>5. progress'.operation = operation /\ progress'.rows = written
  BY <1>1, <1>2
<1> HIDE DEF rows
<1>6. Len(rows) \in Nat /\ BatchRows \in Nat \ {0} /\ k \in Nat \ {0}
  BY <1>4, IndexAssumption DEF IsList
<1>7. n < operation \/ (n = operation /\ k <= written)
  BY <1>5 DEF Reached
<1>8. ~(n < progress.operation) /\ ~(n = progress.operation /\ k <= progress.rows)
  BY DEF Reached
<1>9. n = progress.operation
  <2>1. progress.operation \in Nat /\ ~(k <= 0)
    BY <1>2, <1>6
  <2>2. CASE done
    <3>1. operation = progress.operation + 1 /\ written = 0
      BY <2>2
    <3> HIDE DEF operation, written
    <3> QED
      BY <1>7, <1>8, <2>1, <3>1
  <2>3. CASE ~done
    <3>1. operation = progress.operation
      BY <2>3
    <3> HIDE DEF operation, written
    <3> QED
      BY <1>7, <1>8, <2>1, <3>1
  <2> QED
    BY <2>2, <2>3
<1>10. k <= Len(rows)
  BY <1>4, <1>9 DEF rows, IsList
<1>11. CASE done
  BY <1>2, <1>6, <1>8, <1>9, <1>10, <1>11
<1>12. CASE ~done
  BY <1>2, <1>6, <1>7, <1>8, <1>9, <1>12
<1> QED
  BY <1>9, <1>11, <1>12

(* Any row at hand finds what it hangs on: itself, the repository, or a row
   of an operation before, which is in the graph.                            *)
LEMMA PlannedFound ==
  ASSUME IndexInv, ConvergeInv, progress.pc \in Writes, progress.operation \in 1 .. 16,
         NEW row \in Planned(request.source.snapshot, Offset + progress.operation)
  PROVE  Finds(Loaded, row)
<1> DEFINE s == request.source.snapshot
           n == Offset + progress.operation
<1>1. request.source \in Sources /\ Offset \in {0, 16} /\ n \in 1 .. 32
  BY DEF IndexInv, ProgressForm, Begun, Offset
<1>2. Anchored(s)
  BY <1>1, PlanIsRight DEF PlanRight
<1> SUFFICES ASSUME NEW r \in row.rels, NEW e \in Ends(r) PROVE e \in KeysOf(Loaded) \cup KeysOf(row)
  BY DEF Finds, Ends
<1>3. CASE e \in KeysOf(row)
  BY <1>3
<1>4. CASE \E m \in 1 .. 32 : m < n /\ \E other \in Planned(s, m) : e \in KeysAmong(other.nodes)
  <2>1. PICK m \in 1 .. 32 : m < n /\ \E other \in Planned(s, m) : e \in KeysAmong(other.nodes)
    BY <1>4
  <2>2. PICK other \in Planned(s, m) : e \in KeysAmong(other.nodes)
    BY <2>1
  <2>3. Behind(m, other)
    <3>1. CASE m <= Offset
      BY <3>1 DEF Behind
    <3>2. CASE ~(m <= Offset)
      <4>1. m > Offset /\ m <= Offset + 16 /\ m - Offset < progress.operation
        BY <1>1, <2>1, <3>2
      <4>2. PICK k \in DOMAIN progress.operations[m - Offset] : progress.operations[m - Offset][k] = other
        BY <4>1, PlacePlanned
      <4> QED
        BY <4>1, <4>2 DEF Behind, Reached
    <3> QED
      BY <3>1, <3>2
  <2>4. Has(Loaded, other)
    BY <2>3 DEF ConvergeInv, PlanWritten
  <2> QED
    BY <2>2, <2>4 DEF Has, KeysAmong, KeysOf
<1> QED
  BY <1>1, <1>2, <1>3, <1>4 DEF Anchored

LEMMA WriteBatchConverges ==
  ASSUME IndexInv, ConvergeInv, WriteBatch
  PROVE  ConvergeInv'
<1> DEFINE s == request.source.snapshot
           rows == progress.operations[progress.operation]
           batch == Window(rows, progress.rows, BatchRows)
           done == progress.rows + BatchRows >= Len(rows)
           g == MergeRows(Loaded, batch)
<1>1. /\ progress.pc \in Writes /\ progress.operation <= Len(progress.operations)
      /\ progress.pc = "index.load" => progress.operation < Clear
      /\ Load(g)
      /\ progress' = [progress EXCEPT !.operation = IF done THEN @ + 1 ELSE @,
                                      !.rows = IF done THEN 0 ELSE @ + BatchRows]
  BY DEF WriteBatch, Writes, Loads
<1>2. progress = [pc |-> progress.pc, replaced |-> progress.replaced, operation |-> progress.operation,
                  rows |-> progress.rows, operations |-> progress.operations]
      /\ progress.operation \in Nat \ {0} /\ progress.rows \in Nat
  BY <1>1 DEF IndexInv, ProgressForm, Writes, Loads
<1>3. /\ progress'.pc = progress.pc /\ progress'.operations = progress.operations
      /\ progress'.operation = (IF done THEN progress.operation + 1 ELSE progress.operation)
      /\ progress'.rows = (IF done THEN 0 ELSE progress.rows + BatchRows)
  <2> HIDE DEF done
  <2> QED
    BY <1>1, <1>2
<1>4. progress.operation \in 1 .. 16
  <2>1. Len(progress.operations) = 16
    BY <1>1, OperationsPlanned
  <2> QED
    BY <1>1, <1>2, <2>1
<1>5. IsList(rows) /\ ToSet(rows) = Planned(s, Offset + progress.operation)
  BY <1>1, <1>4, OperationsPlanned DEF Lists
<1>6. RequestForm /\ request.source \in Sources /\ request.source.commit \in Commits
  BY <1>1 DEF IndexInv, ProgressForm, Begun, Commits
<1>7. GraphForm(Loaded) /\ Shaped(Loaded)
  BY <1>6 DEF RequestForm, Loaded, ConvergeInv, GraphsShaped
<1>8. InShape(Wanted.nodes) /\ OneEach(Wanted.nodes)
      /\ \A n \in 1 .. 32 : \A row \in Planned(s, n) : Has(Wanted, row)
  BY <1>6, PlanIsRight DEF PlanRight, PlanMakes, Wanted, Has
<1> HIDE DEF rows
<1>9. PICK m \in Nat : /\ DOMAIN batch = 1 .. m
                       /\ \A j \in 1 .. m : batch[j] = rows[progress.rows + j]
                       /\ \A k \in 1 .. Len(rows) : k > progress.rows /\ k <= progress.rows + BatchRows =>
                                                      k - progress.rows \in 1 .. m
  BY <1>2, <1>5, BatchAt
<1>10. Offset \in {0, 16} /\ Offset + progress.operation \in 1 .. 32
  BY <1>4 DEF Offset
<1>11. \A j \in 1 .. m : Has(Wanted, batch[j])
  <2>1. ASSUME NEW j \in 1 .. m PROVE batch[j] \in ToSet(rows)
    BY <1>2, <1>5, <1>9, BatchInList
  <2> QED
    BY <1>5, <1>8, <1>10, <2>1
<1> HIDE DEF batch
<1>12. Adds(Loaded, g, Wanted) /\ \A j \in 1 .. m : Finds(Loaded, batch[j]) => Has(g, batch[j])
  BY <1>7, <1>8, <1>9, <1>11, BatchAdds
<1> HIDE DEF g
<1>13. /\ GraphsShaped' /\ GraphsOwned' /\ OnlyWanted' /\ Unfinished' /\ IndexConverges'
       /\ Loaded' = g /\ request'.source = request.source /\ Wanted' = Wanted
  BY <1>1, <1>3, <1>12, LoadConverges DEF Adds
<1>14. PlanWritten'
  <2> SUFFICES ASSUME NEW n \in 1 .. 32, NEW row \in Planned(s, n), Behind(n, row)' PROVE Has(g, row)
    BY <1>13 DEF PlanWritten
  <2>1. Offset' = Offset
    BY <1>3 DEF Offset
  <2>2. CASE Behind(n, row)
    <3>1. Has(Loaded, row)
      BY <1>1, <2>2 DEF ConvergeInv, PlanWritten
    <3> QED
      BY <1>8, <1>12, <3>1, HasAgain
  <2>3. CASE ~Behind(n, row)
    <3>1. progress.pc # "index.validate"
      BY <1>1 DEF Writes, Loads
    <3>2. ~(n <= Offset) /\ n <= Offset + 16
      BY <1>3, <2>1, <2>3, <3>1 DEF Behind
    <3>3. PICK i \in 1 .. 16 : i = n - Offset
      BY <1>10, <3>2
    <3>4. PICK k \in DOMAIN progress.operations[i] : Reached(i, k)' /\ progress.operations[i][k] = row
      <4>1. PICK k \in DOMAIN progress'.operations[n - Offset'] :
              Reached(n - Offset, k)' /\ progress'.operations[n - Offset'][k] = row
        BY <1>3, <2>1, <3>1, <3>2 DEF Behind
      <4>2. Reached(i, k)'
        BY <2>1, <3>3, <4>1 DEF Reached
      <4> QED
        BY <1>3, <2>1, <3>3, <4>1, <4>2
    <3>5. ~Reached(i, k)
      BY <2>3, <3>2, <3>3, <3>4 DEF Behind
    <3>6. n - Offset = progress.operation /\ k > progress.rows /\ k <= progress.rows + BatchRows
      BY <3>3, <3>4, <3>5, NewlyReached
    <3>7. k \in 1 .. Len(rows) /\ rows[k] = row
      BY <1>5, <3>3, <3>4, <3>6 DEF rows, IsList
    <3>8. k - progress.rows \in 1 .. m /\ progress.rows + (k - progress.rows) = k
      BY <1>2, <1>9, <3>6, <3>7
    <3>9. batch[k - progress.rows] = row
      BY <1>9, <3>7, <3>8
    <3>10. n = Offset + progress.operation
      BY <1>2, <1>10, <3>6
    <3>11. Finds(Loaded, row)
      BY <1>1, <1>4, <3>10, PlannedFound
    <3> QED
      BY <1>12, <3>8, <3>9, <3>11
  <2> QED
    BY <2>2, <2>3
<1>15. ClearAhead'
  <2> SUFFICES ASSUME progress.pc = "index.load" PROVE progress'.operation < Clear \/ (progress'.operation = Clear /\ progress'.rows = 0)
    BY <1>3 DEF ClearAhead
  <2>1. progress.operation < 10
    BY <1>1 DEF Clear
  <2> HIDE DEF done
  <2> QED
    BY <1>2, <1>3, <2>1 DEF Clear
<1>16. DerivedWanted' /\ SqlWanted'
  BY <1>1, <1>3, <1>12, <1>13 DEF ConvergeInv, DerivedWanted, SqlWanted, Adds
<1> QED
  BY <1>13, <1>14, <1>15, <1>16 DEF ConvergeInv

LEMMA UpsertDocsConverges ==
  ASSUME IndexInv, ConvergeInv, UpsertDocs
  PROVE  ConvergeInv'
<1> DEFINE s == request.source.snapshot
           wanted == Expected(request.source)
<1>1. progress.pc = "index.sql" /\ progress.operation > Len(progress.operations)
      /\ \E keys \in {wanted} \cup {{d} : d \in wanted} : request' = [request EXCEPT !.docs = @ \cup keys]
      /\ (progress' = [pc |-> "index.validate", replaced |-> progress.replaced] \/ progress' = progress)
  BY DEF UpsertDocs
<1>2. PICK keys : request' = [request EXCEPT !.docs = @ \cup keys]
  BY <1>1
<1>3. /\ request'.graph = request.graph /\ request'.repository = request.repository
      /\ request'.replace = request.replace /\ request'.status = request.status /\ request'.source = request.source
  BY <1>2 DEF IndexInv, RequestForm, RequestFields
<1>4. Loaded' = Loaded /\ Wanted' = Wanted
  BY <1>3 DEF Loaded, Wanted
<1>5. progress'.pc \in {"index.sql", "index.validate"}
  BY <1>1
<1>6. GraphsShaped' /\ GraphsOwned' /\ DerivedWanted' /\ SqlWanted' /\ OnlyWanted' /\ ClearAhead'
  BY <1>1, <1>3, <1>4, <1>5 DEF ConvergeInv, GraphsShaped, GraphsOwned, DerivedWanted, SqlWanted, OnlyWanted,
                                ClearAhead, Writes, Loads
<1>7. PlanWritten'
  <2> SUFFICES ASSUME NEW n \in 1 .. 32, NEW row \in Planned(s, n) PROVE Has(Loaded, row)
    BY <1>3, <1>4 DEF PlanWritten
  <2>1. Offset = 16 /\ progress.pc \in Writes
    BY <1>1 DEF Offset, Writes, Loads
  <2>2. Behind(n, row)
    <3>1. CASE n <= 16
      BY <2>1, <3>1 DEF Behind
    <3>2. CASE ~(n <= 16)
      <4>1. PICK k \in DOMAIN progress.operations[n - 16] : progress.operations[n - 16][k] = row
        BY <2>1, <3>2, PlacePlanned
      <4>2. n - 16 < progress.operation
        <5>1. progress.operation \in Nat /\ Len(progress.operations) = 16
          BY <2>1, OperationsPlanned DEF IndexInv, ProgressForm
        <5> QED
          BY <1>1, <5>1
      <4> QED
        BY <2>1, <4>1, <4>2 DEF Behind, Reached
    <3> QED
      BY <3>1, <3>2
  <2> QED
    BY <2>1, <2>2 DEF ConvergeInv, PlanWritten
<1>8. Unfinished' /\ IndexConverges'
  BY <1>1, <1>3 DEF ConvergeInv, Unfinished, IndexConverges
<1> QED
  BY <1>6, <1>7, <1>8 DEF ConvergeInv

LEMMA AnswerConverges ==
  ASSUME IndexInv, ConvergeInv, progress.pc \in Begun, NEW status, Answer(status)
  PROVE  /\ GraphsShaped' /\ GraphsOwned' /\ PlanWritten' /\ ClearAhead' /\ DerivedWanted' /\ SqlWanted'
         /\ OnlyWanted' /\ Unfinished'
         /\ request'.status = status /\ request'.graph = request.graph /\ request'.docs = request.docs
         /\ request'.source = request.source /\ request'.replace = request.replace /\ Loaded' = Loaded
<1>1. request' = [request EXCEPT !.status = status] /\ progress' = Idle
  BY DEF Answer
<1>2. /\ request'.graph = request.graph /\ request'.repository = request.repository /\ request'.docs = request.docs
      /\ request'.replace = request.replace /\ request'.status = status /\ request'.source = request.source
      /\ progress'.pc = "idle"
  BY <1>1 DEF IndexInv, RequestForm, RequestFields, Idle
<1>3. GraphsShaped' /\ GraphsOwned'
  BY <1>2 DEF ConvergeInv, GraphsShaped, GraphsOwned, Writes, Loads
<1>4. (PlanWritten /\ ClearAhead /\ DerivedWanted /\ SqlWanted /\ OnlyWanted /\ Unfinished)'
  BY <1>2 DEF PlanWritten, ClearAhead, DerivedWanted, SqlWanted, OnlyWanted, Unfinished, Writes, Loads
<1> QED
  BY <1>2, <1>3, <1>4 DEF Loaded

(* A run that validates its stores has converged.                            *)
LEMMA ValidateConverges ==
  ASSUME IndexInv, ConvergeInv, ValidateIndex
  PROVE  ConvergeInv'
<1> DEFINE live == LiveKeys(request.graph)
           answer == IF Consistent(live) THEN "ok" ELSE "inconsistent"
<1>1. progress.pc = "index.validate" /\ Answer(answer)
  BY DEF ValidateIndex
<1>2. /\ GraphsShaped' /\ GraphsOwned' /\ PlanWritten' /\ ClearAhead' /\ DerivedWanted' /\ SqlWanted'
      /\ OnlyWanted' /\ Unfinished'
      /\ request'.status = answer /\ request'.graph = request.graph /\ request'.docs = request.docs
      /\ request'.source = request.source /\ request'.replace = request.replace /\ Loaded' = Loaded
  BY <1>1, AnswerConverges DEF Begun
<1>3. RequestForm /\ request.source \in Sources /\ request.source.commit \in Commits
  BY <1>1 DEF IndexInv, ProgressForm, Begun, Commits
<1>4. GraphForm(Loaded) /\ Shaped(Loaded)
  BY <1>3 DEF RequestForm, Loaded, ConvergeInv, GraphsShaped
<1>5. PlanRight(request.source.snapshot, Wanted)
  BY <1>3, PlanIsRight DEF Wanted
<1>6. Wanted.nodes \subseteq Loaded.nodes /\ Wanted.rels \subseteq Loaded.rels
  <2>1. \A n \in 1 .. 32 : \A row \in Planned(request.source.snapshot, n) : Has(Loaded, row)
    BY <1>1 DEF ConvergeInv, PlanWritten, Behind
  <2> QED
    BY <1>5, <2>1 DEF PlanRight, PlanMakes, Has
<1>7. {r \in Loaded.rels : r.kind \in Derived} = {r \in Wanted.rels : r.kind \in Derived}
  BY <1>1, <1>6 DEF ConvergeInv, DerivedWanted
<1>8. SqlOf(Loaded) = SqlOf(Wanted)
  <2> DEFINE ours(g) == {n \in g.nodes : n.label \in ToSet(SqlLabels)}
             keys(g) == {n.key : n \in ours(g)}
             links(g) == {r \in g.rels : Ends(r) \cap keys(g) # {}}
  <2>1. \A g : SqlOf(g) = [nodes |-> ours(g), rels |-> links(g)]
    BY DEF SqlOf, Ends
  <2>2. /\ \A x \in Loaded.nodes : SqlKey(x.key) => x \in Wanted.nodes
        /\ \A r \in Loaded.rels : (\E e \in Ends(r) : SqlKey(e)) => r \in Wanted.rels
    BY <1>1 DEF ConvergeInv, SqlWanted
  <2>3. /\ \A x \in Loaded.nodes : x.label \in ToSet(SqlLabels) <=> SqlKey(x.key)
        /\ \A x \in Wanted.nodes : x.label \in ToSet(SqlLabels) <=> SqlKey(x.key)
    BY <1>4, <1>5 DEF PlanRight, Shaped, InShape
  <2>4. ours(Loaded) = ours(Wanted)
    BY <1>6, <2>2, <2>3
  <2>5. \A e \in keys(Loaded) : SqlKey(e)
    BY <2>3
  <2>6. keys(Loaded) = keys(Wanted)
    BY <2>4
  <2> HIDE DEF keys, ours
  <2>7. links(Loaded) = links(Wanted)
    BY <1>6, <2>2, <2>5, <2>6
  <2> HIDE DEF links
  <2> QED
    BY <2>1, <2>4, <2>7
<1>9. ASSUME Consistent(live) PROVE request.docs = live
  BY <1>9 DEF Consistent, IndexInv, HitsLive
<1>10. ASSUME request.replace
       PROVE  request.graph = [c \in Commits |-> IF c = request.source.commit THEN Wanted ELSE Nothing]
  <2>1. Loaded.nodes = Wanted.nodes /\ Loaded.rels = Wanted.rels
        /\ \A c \in Commits : c # request.source.commit => request.graph[c] = Nothing
    BY <1>1, <1>6, <1>10 DEF ConvergeInv, OnlyWanted
  <2>2. GraphForm(Wanted)
    BY WantedForm DEF Wanted
  <2>3. Loaded = Wanted
    BY <1>4, <2>1, <2>2 DEF GraphForm
  <2>4. request.graph = [c \in Commits |-> request.graph[c]]
    BY <1>3 DEF RequestForm
  <2> QED
    BY <2>1, <2>3, <2>4 DEF Loaded
<1>11. IndexConverges'
  <2> SUFFICES ASSUME request'.status = "ok" PROVE IndexConverges'
    BY DEF IndexConverges
  <2>1. Consistent(live)
    BY <1>2
  <2> QED
    BY <1>2, <1>6, <1>7, <1>8, <1>9, <1>10, <2>1 DEF IndexConverges, Wanted
<1> QED
  BY <1>2, <1>11 DEF ConvergeInv

LEMMA ConvergeKept ==
  ASSUME IndexInv, ConvergeInv, [IndexNext]_vars
  PROVE  ConvergeInv'
<1>1. CASE BeginIndex
  BY <1>1, BeginConverges
<1>2. CASE DeleteDocs
  BY <1>2, DeleteDocsConverges
<1>3. CASE DeleteGraph
  BY <1>3, DeleteGraphConverges
<1>4. CASE MergeRepository
  BY <1>4, MergeRepositoryConverges
<1>5. CASE ClearResolutions
  BY <1>5, ClearResolutionsConverges
<1>6. CASE ClearSql
  BY <1>6, ClearSqlConverges
<1>7. CASE WriteBatch
  BY <1>7, WriteBatchConverges
<1>8. CASE UpsertDocs
  BY <1>8, UpsertDocsConverges
<1>9. CASE ValidateIndex
  BY <1>9, ValidateConverges
<1>10. CASE IndexFails
  <2>1. progress.pc \in Begun /\ Answer("failed")
    BY <1>10 DEF IndexFails, Begun, Writes, Loads
  <2>2. IndexConverges'
    BY <2>1, AnswerConverges DEF IndexConverges
  <2> QED
    BY <2>1, <2>2, AnswerConverges DEF ConvergeInv
<1>11. CASE UNCHANGED vars
  BY <1>11 DEF vars, ConvergeInv, GraphsShaped, GraphsOwned, PlanWritten, Behind, Offset, ClearAhead, DerivedWanted,
               SqlWanted, OnlyWanted, Unfinished, IndexConverges, Reached, Loaded, Wanted
<1> QED
  BY <1>1, <1>2, <1>3, <1>4, <1>5, <1>6, <1>7, <1>8, <1>9, <1>10, <1>11 DEF IndexNext

(* Whatever an earlier run left behind, of this commit or another, whole or
   broken off anywhere: one that answers has put all of the snapshot into the
   graph and no resolution and no SQL but today's, and if it replaces, nothing
   else; and the lexical index has the callables of the graph
   (ingest.py:652-739, loader.py:304-316).                                   *)
THEOREM RunsConverge == IndexSpec => []IndexConverges
<1>1. IndexInit => IndexInv /\ ConvergeInv
  BY IndexStarts, ConvergeStarts
<1>2. IndexInv /\ ConvergeInv /\ [IndexNext]_vars => IndexInv' /\ ConvergeInv'
  BY IndexKept, ConvergeKept
<1>3. ConvergeInv => IndexConverges
  BY DEF ConvergeInv
<1> QED
  BY <1>1, <1>2, <1>3, PTL DEF IndexSpec
=============================================================================
