---------------------- MODULE CorpusPublicationProofs ----------------------
(***************************************************************************)
(* Theorems about CorpusPublication, for any number of exports, freezes,   *)
(* files, snapshots, edits and generations.                                *)
(***************************************************************************)
EXTENDS CorpusPublication, TLAPS

(* The numbering of files by snapshots: a file is followed by one of its own
   snapshot, or it is the last and the next one is the first of the next.   *)
LEMMA FileOrder ==
  /\ 1 \in Files /\ FileCount \in Files
  /\ \A f \in Files : /\ f \in Int
                      /\ FirstOf[f] \in Files /\ LastOf[f] \in Files
                      /\ FirstOf[f] <= f /\ f <= LastOf[f]
                      /\ LastOf[FirstOf[f]] = LastOf[f]
                      /\ f # FileCount => f + 1 \in Files
  /\ \A f \in Files : f # LastOf[f] =>
       f + 1 \in Files /\ FirstOf[f + 1] = FirstOf[f] /\ LastOf[f + 1] = LastOf[f]
  /\ \A f \in Files : f = LastOf[f] /\ f # FileCount => FirstOf[f + 1] = f + 1
  /\ FirstOf[1] = 1
<1>1. /\ FileCount \in Nat /\ FileCount > 0
      /\ \A f \in Files : f \in 1..FileCount
      /\ \A f \in 1..FileCount : f \in Files
  BY PublicationAssumption DEF Files
<1>2. \A f \in Files :
        /\ FirstOf[f] \in Files /\ LastOf[f] \in Files
        /\ FirstOf[f] <= f /\ f <= LastOf[f]
        /\ \A g \in FirstOf[f]..LastOf[f] : FirstOf[g] = FirstOf[f] /\ LastOf[g] = LastOf[f]
  BY <1>1, PublicationAssumption
<1>3. \A f \in Files : f # LastOf[f] => f + 1 \in FirstOf[f]..LastOf[f]
  BY <1>1, <1>2
<1>4. ASSUME NEW f \in Files, f = LastOf[f], f # FileCount PROVE FirstOf[f + 1] = f + 1
  <2>1. f + 1 \in Files
    BY <1>1, <1>4
  <2>2. CASE FirstOf[f + 1] <= f
    <3>1. f \in FirstOf[f + 1]..LastOf[f + 1]
      BY <2>1, <2>2, <1>1, <1>2
    <3>2. LastOf[f] = LastOf[f + 1] /\ f + 1 <= LastOf[f + 1]
      BY <2>1, <3>1, <1>2
    <3> QED
      BY <3>2, <1>4, <1>1
  <2> QED
    BY <2>1, <2>2, <1>1, <1>2
<1>5. \A f \in Files : FirstOf[f] \in FirstOf[f]..LastOf[f] /\ (f # FileCount => f + 1 \in Files)
  BY <1>1, <1>2
<1>6. \A f \in Files : f # LastOf[f] =>
        f + 1 \in Files /\ FirstOf[f + 1] = FirstOf[f] /\ LastOf[f + 1] = LastOf[f]
  <2> SUFFICES ASSUME NEW f \in Files, f # LastOf[f]
               PROVE  f + 1 \in Files /\ FirstOf[f + 1] = FirstOf[f] /\ LastOf[f + 1] = LastOf[f]
    OBVIOUS
  <2>1. f + 1 \in FirstOf[f]..LastOf[f]
    BY <1>3
  <2>2. f + 1 \in Files
    BY <2>1, <1>1, <1>2
  <2> QED
    BY <2>1, <2>2, <1>2
<1>7. 1 \in Files /\ FileCount \in Files /\ FirstOf[1] = 1
  BY <1>1, <1>2
<1>8. \A f \in Files : LastOf[FirstOf[f]] = LastOf[f]
  BY <1>5, <1>2
<1> QED
  BY <1>1, <1>2, <1>4, <1>5, <1>6, <1>7, <1>8

-----------------------------------------------------------------------------
(***************************************************************************)
(* Types.                                                                  *)
(***************************************************************************)

LEMMA ReadingUpdate ==
  ASSUME NEW r \in Reading, NEW f \in Files, NEW v \in Versions
  PROVE  /\ [r EXCEPT ![f] = v] \in Reading
         /\ [r EXCEPT ![f] = v][f] = v
         /\ \A g \in Files : g # f => [r EXCEPT ![f] = v][g] = r[g]
BY DEF Reading

LEMMA InitialTypes ==
  /\ Nothing \in Reading
  /\ NewGeneration \in Generation
  /\ NoExport \in Export
  /\ NoFreeze \in Freeze
  /\ Tree \subseteq Reading
<1>1. Nothing \in Reading
  BY DEF Nothing, Reading
<1>2. NewGeneration \in Generation
  BY <1>1 DEF NewGeneration, Generation
<1>3. NoExport \in Export
  BY <1>1, FileOrder DEF NoExport, Export
<1>4. NoFreeze \in Freeze /\ Tree \subseteq Reading
  BY DEF NoFreeze, Freeze, Tree, Reading
<1> QED
  BY <1>1, <1>2, <1>3, <1>4

LEMMA TypeInit == Init => TypeOK
<1> SUFFICES ASSUME Init PROVE TypeOK
  OBVIOUS
<1>1. source \in Tree
  BY PublicationAssumption DEF Init, Tree, Versions
<1>2. \A e \in Exporters : export[e].pc = "idle" /\ export[e] = NoExport
  BY DEF Init, NoExport
<1> QED
  BY <1>1, <1>2, InitialTypes DEF Init, TypeOK, At

(* A step of an export touches its own record; one rule for all of them.    *)
LEMMA ExportMoves ==
  ASSUME TypeOK, NEW e \in Exporters, NEW x \in Export,
         export' = [export EXCEPT ![e] = x],
         x.pc = "idle" <=> x = NoExport
  PROVE  /\ export' \in [Exporters -> Export]
         /\ \A d \in Exporters : (At(d, "idle") <=> export[d] = NoExport)'
<1>1. export' \in [Exporters -> Export]
  BY DEF TypeOK
<1>2. \A d \in Exporters : export'[d] = IF d = e THEN x ELSE export[d]
  BY DEF TypeOK
<1> QED
  BY <1>1, <1>2 DEF TypeOK, At

LEMMA GotoType ==
  ASSUME TypeOK, NEW e \in Exporters,
         NEW pc \in {"before", "create", "extract", "after", "resolve", "check",
                     "compose", "replace", "published"},
         NEW next \in Files, Goto(e, pc, next)
  PROVE  /\ export' \in [Exporters -> Export]
         /\ \A d \in Exporters : (At(d, "idle") <=> export[d] = NoExport)'
<1> DEFINE x == [export[e] EXCEPT !.pc = pc, !.next = next]
<1>1. export[e] \in Export
  BY DEF TypeOK
<1>2. x \in Export /\ x.pc = pc
  BY <1>1 DEF Export
<1>3. x.pc # "idle" /\ NoExport.pc = "idle"
  BY <1>2 DEF NoExport
<1>4. export' = [export EXCEPT ![e] = x]
  BY DEF Goto
<1> HIDE DEF x
<1> QED
  BY <1>2, <1>3, <1>4, ExportMoves

(* And to its own directory.                                                *)
LEMMA GenerationUpdate ==
  ASSUME TypeOK, NEW g \in Generations \cup {NoGeneration}, NEW x \in Generation,
         generation' = [generation EXCEPT ![g] = x]
  PROVE  /\ generation' \in [Generations -> Generation]
         /\ \A h \in Generations : generation'[h] = IF h = g THEN x ELSE generation[h]
BY DEF TypeOK

LEMMA TypeStep == TypeOK /\ [Next]_vars => TypeOK'
<1> SUFFICES ASSUME TypeOK, [Next]_vars PROVE TypeOK'
  OBVIOUS
<1>0. /\ source \in Tree
      /\ generation \in [Generations -> Generation]
      /\ manifest \in Generations \cup {NoGeneration}
      /\ export \in [Exporters -> Export]
      /\ frozen \in Generations \cup {NoGeneration}
      /\ freeze \in [Freezers -> Freeze]
  BY DEF TypeOK
<1>1. \A e \in Exporters : /\ export[e] \in Export
                           /\ File(e) \in Files
                           /\ Dir(e) \in Generations \cup {NoGeneration}
                           /\ export[e].before \in Reading
  BY <1>0 DEF Export, File, Dir
<1>2. \A f \in Files : source[f] \in Versions
  BY <1>0 DEF Tree
<1>3. ASSUME NEW f \in Files, Edit(f) PROVE TypeOK'
  <2>1. source' \in Tree
    BY <1>0, <1>3 DEF Edit, Tree
  <2> QED
    BY <2>1, <1>3 DEF Edit, TypeOK, At
<1>4. ASSUME NEW e \in Exporters, ExportStep(e) PROVE TypeOK'
  <2> DEFINE f == File(e)
             ExportOK == /\ export \in [Exporters -> Export]
                         /\ \A d \in Exporters : At(d, "idle") <=> export[d] = NoExport
             GenerationOK == generation \in [Generations -> Generation]
  <2>0. export[e] \in Export /\ export[e].before \in Reading
    BY <1>1
  <2>1. ASSUME NEW pc \in {"before", "create", "extract", "after", "resolve", "check",
                           "compose", "replace", "published"},
               NEW next \in Files, Goto(e, pc, next)
        PROVE  ExportOK'
    BY <2>1, GotoType
  <2>2. CASE BeginExport(e)
    BY <2>1, <2>2, <1>0, FileOrder DEF BeginExport, Quiet, TypeOK
  <2>3. CASE ReadBefore(e)
    <3> DEFINE b == [export[e].before EXCEPT ![f] = source[f]]
               p == IF f = FileCount THEN "create" ELSE "before"
               n == IF f = FileCount THEN 1 ELSE f + 1
               x == [export[e] EXCEPT !.before = b, !.pc = p, !.next = n]
    <3>1. b \in Reading
      BY <1>1, <1>2, ReadingUpdate
    <3>2. p \in {"create", "before"} /\ n \in Files
      BY <1>1, FileOrder
    <3>3. export' = [export EXCEPT ![e] = x]
      BY <2>3 DEF ReadBefore
    <3> HIDE DEF b, p, n
    <3>4. x \in Export /\ x.pc # "idle"
      BY <3>1, <3>2, <2>0 DEF Export
    <3> HIDE DEF x
    <3>5. ExportOK'
      BY <3>3, <3>4, ExportMoves DEF NoExport
    <3> QED
      BY <3>5, <2>3, <1>0 DEF ReadBefore, Quiet, TypeOK
  <2>4. ASSUME NEW g \in Generations, CreateGeneration(e, g) PROVE TypeOK'
    <3> DEFINE x == [NewGeneration EXCEPT !.status = "building"]
               y == [export[e] EXCEPT !.pc = "extract", !.dir = g]
    <3>1. x \in Generation
      BY InitialTypes DEF Generation
    <3>2. y \in Export /\ y.pc # "idle"
      BY <2>0 DEF Export
    <3>3. /\ generation' = [generation EXCEPT ![g] = x]
          /\ export' = [export EXCEPT ![e] = y]
      BY <2>4 DEF CreateGeneration
    <3> HIDE DEF x, y
    <3>4. GenerationOK' /\ ExportOK'
      BY <3>1, <3>2, <3>3, <1>0, ExportMoves DEF NoExport
    <3> QED
      BY <3>4, <2>4, <1>0 DEF CreateGeneration, Quiet, TypeOK
  <2>5. ASSUME Dir(e) \in Generations, NEW x \in Generation,
               generation' = [generation EXCEPT ![Dir(e)] = x]
        PROVE  GenerationOK'
    BY <2>5, <1>0
  <2>6. CASE Extract(e)
    <3>1. ExportOK'
      <4>1. CASE f = LastOf[f]
        BY <4>1, <2>1, <2>6, <1>1, FileOrder DEF Extract
      <4>2. CASE f # LastOf[f]
        BY <4>2, <2>1, <2>6, <1>1, FileOrder DEF Extract
      <4> QED
        BY <4>1, <4>2
    <3>2. GenerationOK'
      BY <2>6, <1>0, <1>1, <1>2 DEF Extract, Generation, Reading
    <3> QED
      BY <3>1, <3>2, <2>6, <1>0 DEF Extract, Quiet, TypeOK
  <2>7. CASE ReadAfter(e)
    <3>1. ExportOK'
      <4>1. CASE f = FileCount
        BY <4>1, <2>1, <2>7, <1>1, FileOrder DEF ReadAfter, AfterDigest
      <4>2. CASE f # FileCount /\ f = LastOf[f]
        BY <4>2, <2>1, <2>7, <1>1, FileOrder DEF ReadAfter, AfterDigest
      <4>3. CASE f # FileCount /\ f # LastOf[f]
        BY <4>3, <2>1, <2>7, <1>1, FileOrder DEF ReadAfter, AfterDigest
      <4> QED
        BY <4>1, <4>2, <4>3
    <3>2. GenerationOK'
      BY <2>7, <1>0, <1>1, <1>2 DEF ReadAfter, AfterDigest, Generation, Reading
    <3> QED
      BY <3>1, <3>2, <2>7, <1>0 DEF ReadAfter, Quiet, TypeOK
  <2>8. CASE Resolve(e)
    <3>1. ExportOK'
      BY <2>1, <2>8, FileOrder DEF Resolve
    <3>2. GenerationOK'
      BY <2>8, <1>0, InitialTypes DEF Resolve, Generation
    <3> QED
      BY <3>1, <3>2, <2>8, <1>0 DEF Resolve, Quiet, TypeOK
  <2>9. CASE CheckSource(e)
    <3>1. ExportOK'
      <4>1. CASE f = FileCount
        BY <4>1, <2>1, <2>9, FileOrder DEF CheckSource
      <4>2. CASE f # FileCount
        BY <4>2, <2>1, <2>9, <1>1, FileOrder DEF CheckSource
      <4> QED
        BY <4>1, <4>2
    <3> QED
      BY <3>1, <2>9, <1>0 DEF CheckSource, Quiet, TypeOK
  <2>10. CASE Compose(e)
    <3>1. ExportOK'
      BY <2>1, <2>10, FileOrder DEF Compose
    <3>2. GenerationOK'
      BY <2>10, <1>0 DEF Compose, Generation
    <3> QED
      BY <3>1, <3>2, <2>10, <1>0 DEF Compose, Quiet, TypeOK
  <2>11. CASE Publish(e)
    <3>1. ExportOK'
      BY <2>1, <2>11, FileOrder DEF Publish
    <3> QED
      BY <3>1, <2>11, <1>0, <1>1 DEF Publish, TypeOK
  <2>12. CASE Return(e) \/ Fail(e) \/ Kill(e)
    <3>1. export' = [export EXCEPT ![e] = NoExport]
      BY <2>12 DEF Return, Fail, Kill
    <3>2. ExportOK'
      BY <3>1, InitialTypes, ExportMoves DEF NoExport
    <3>3. GenerationOK'
      <4>1. CASE generation' = generation
        BY <4>1, <1>0
      <4>2. CASE Fail(e)
        BY <4>2, <1>0 DEF Fail, Generation
      <4> QED
        BY <4>1, <4>2, <2>12 DEF Return, Kill
    <3> QED
      BY <3>2, <3>3, <2>12, <1>0 DEF Return, Fail, Kill, Quiet, TypeOK
  <2> QED
    BY <1>4, <2>2, <2>3, <2>4, <2>6, <2>7, <2>8, <2>9, <2>10, <2>11, <2>12 DEF ExportStep
<1>5. ASSUME NEW z \in Freezers, FreezeStep(z) PROVE TypeOK'
  <2>1. freeze[z] \in Freeze /\ freeze[z].document \in Generations \cup {NoGeneration}
    BY <1>0 DEF Freeze
  <2>2. freeze' \in [Freezers -> Freeze] /\ frozen' \in Generations \cup {NoGeneration}
    <3>1. CASE ReadManifest(z)
      BY <3>1, <1>0 DEF ReadManifest, Freeze
    <3>2. CASE CheckTarget(z)
      BY <3>2, <2>1, <1>0, InitialTypes DEF CheckTarget, Freeze
    <3>3. CASE ReplaceTarget(z) \/ AbortFreeze(z)
      BY <3>3, <2>1, <1>0, InitialTypes DEF ReplaceTarget, AbortFreeze
    <3> QED
      BY <3>1, <3>2, <3>3, <1>5 DEF FreezeStep
  <2> QED
    BY <2>2, <1>5, <1>0
       DEF FreezeStep, ReadManifest, CheckTarget, ReplaceTarget, AbortFreeze, TypeOK, At
<1>6. CASE UNCHANGED vars
  BY <1>6 DEF vars, TypeOK, At
<1> QED
  BY <1>3, <1>4, <1>5, <1>6 DEF Next

(* The variables keep their types, for any exports, freezes and edits.      *)
THEOREM TypeCorrect == Spec => []TypeOK
BY TypeInit, TypeStep, PTL DEF Spec

-----------------------------------------------------------------------------
(***************************************************************************)
(* Whoever builds a directory is alone in it.  What an export does to the  *)
(* directories depends only on the phase it is in; the steps of a phase    *)
(* are alike.                                                              *)
(***************************************************************************)

Before  == {"idle", "before", "create"}
Built   == {"extract", "after", "resolve", "check", "compose"}

Status(g) == generation[g].status

(* The other exports, and all directories but the one of e, are untouched.  *)
Elsewhere(e) ==
  /\ \A d \in Exporters : d # e => export'[d] = export[d]
  /\ \A g \in Generations : g # Dir(e) /\ g # Dir(e)' => generation'[g] = generation[g]

(* What a step of e can be.                                                 *)
Prepares(e) == /\ export[e].pc \in Before /\ (export[e].pc \in Before)'
               /\ Dir(e)' = Dir(e)
               /\ generation' = generation

Enters(e) == /\ export[e].pc = "create" /\ (export[e].pc = "extract")'
             /\ Dir(e)' \in Generations
             /\ generation[Dir(e)'].status = "absent"
             /\ (Status(Dir(e)) = "building")'

Builds(e) == /\ export[e].pc \in Built /\ (export[e].pc \in Built)'
             /\ Dir(e)' = Dir(e)
             /\ Dir(e) \in Generations => Status(Dir(e))' = Status(Dir(e))

Completes(e) == /\ export[e].pc = "compose" /\ (export[e].pc = "replace")'
                /\ Dir(e)' = Dir(e)
                /\ Dir(e) \in Generations => (Status(Dir(e)) = "complete")'

Publishes(e) == /\ export[e].pc = "replace" /\ (export[e].pc = "published")'
                /\ Dir(e)' = Dir(e)
                /\ generation' = generation
                /\ manifest' = Dir(e)

Leaves(e) == /\ export'[e] = NoExport
             /\ generation' = generation \/ Fail(e)

LEMMA ExportPhases ==
  ASSUME TypeOK, NEW e \in Exporters, ExportStep(e)
  PROVE  /\ Elsewhere(e)
         /\ frozen' = frozen /\ freeze' = freeze
         /\ ~Publish(e) => manifest' = manifest
         /\ \/ Prepares(e) \/ Enters(e) \/ Builds(e) \/ Completes(e)
            \/ (Publish(e) /\ Publishes(e)) \/ Leaves(e)
<1>0. /\ generation \in [Generations -> Generation]
      /\ export \in [Exporters -> Export]
      /\ export[e] \in Export
  BY DEF TypeOK
<1>1. ASSUME NEW pc, NEW next, Goto(e, pc, next)
      PROVE  /\ \A d \in Exporters : d # e => export'[d] = export[d]
             /\ export'[e].pc = pc /\ export'[e].dir = export[e].dir
  BY <1>0, <1>1 DEF Goto, Export
<1>2. CASE BeginExport(e)
  <2>1. Goto(e, "before", 1) /\ generation' = generation /\ export[e].pc = "idle"
    BY <1>2 DEF BeginExport, At
  <2> QED
    BY <1>1, <1>2, <2>1 DEF BeginExport, Quiet, Elsewhere, Prepares, Before, Dir
<1>3. CASE ReadBefore(e)
  BY <1>3, <1>0 DEF ReadBefore, At, Quiet, Elsewhere, Prepares, Before, Dir, Export
<1>4. ASSUME NEW g \in Generations, CreateGeneration(e, g)
      PROVE  Elsewhere(e) /\ Enters(e)
  <2>1. /\ \A d \in Exporters : d # e => export'[d] = export[d]
        /\ export'[e].pc = "extract" /\ export'[e].dir = g
    BY <1>4, <1>0 DEF CreateGeneration, Export
  <2>2. \A h \in Generations :
          generation'[h] = IF h = g THEN [NewGeneration EXCEPT !.status = "building"]
                                    ELSE generation[h]
    BY <1>4, <1>0 DEF CreateGeneration
  <2>3. generation'[g].status = "building"
    BY <2>2 DEF NewGeneration
  <2> QED
    BY <1>4, <2>1, <2>2, <2>3 DEF CreateGeneration, At, Elsewhere, Enters, Dir, Status
<1>5. ASSUME NEW pc, NEW next, Goto(e, pc, next), export[e].pc \in Built, pc \in Built,
             \/ generation' = generation
             \/ \E f, v : generation' = [generation EXCEPT ![Dir(e)].facts[f] = v]
             \/ \E f, v : generation' = [generation EXCEPT ![Dir(e)].digest[f] = v]
             \/ \E v : generation' = [generation EXCEPT ![Dir(e)].moment = v]
      PROVE  Elsewhere(e) /\ Builds(e)
  <2>1. /\ \A d \in Exporters : d # e => export'[d] = export[d]
        /\ export'[e].pc = pc /\ Dir(e)' = Dir(e)
    BY <1>1, <1>5 DEF Dir
  <2>2. \A g \in Generations : /\ g # Dir(e) => generation'[g] = generation[g]
                               /\ generation'[g].status = generation[g].status
    <3>1. \A g \in Generations : generation[g] \in Generation
      BY <1>0
    <3> QED
      BY <1>5, <1>0, <3>1 DEF Generation
  <2> QED
    BY <1>5, <2>1, <2>2 DEF Elsewhere, Builds, Status
<1>6. CASE Extract(e)
  <2>1. \E pc, next : pc \in Built /\ Goto(e, pc, next)
    BY <1>6 DEF Extract, Built
  <2>2. Elsewhere(e) /\ Builds(e)
    BY <1>5, <1>6, <2>1 DEF Extract, At, Built
  <2> QED
    BY <1>6, <2>2 DEF Extract, Quiet
<1>7. CASE ReadAfter(e)
  <2>1. \E pc, next : pc \in Built /\ Goto(e, pc, next)
    BY <1>7 DEF ReadAfter, AfterDigest, Built
  <2>2. Elsewhere(e) /\ Builds(e)
    BY <1>5, <1>7, <2>1 DEF ReadAfter, AfterDigest, At, Built
  <2> QED
    BY <1>7, <2>2 DEF ReadAfter, Quiet
<1>8. CASE Resolve(e)
  <2>1. Elsewhere(e) /\ Builds(e)
    BY <1>5, <1>8 DEF Resolve, At, Built
  <2> QED
    BY <1>8, <2>1 DEF Resolve, Quiet
<1>9. CASE CheckSource(e)
  <2>1. \E pc, next : pc \in Built /\ Goto(e, pc, next)
    BY <1>9 DEF CheckSource, Built
  <2>2. Elsewhere(e) /\ Builds(e)
    BY <1>5, <1>9, <2>1 DEF CheckSource, At, Built
  <2> QED
    BY <1>9, <2>2 DEF CheckSource, Quiet
<1>10. CASE Compose(e)
  <2>1. Goto(e, "replace", 1)
    BY <1>10 DEF Compose
  <2>2. \A g \in Generations : /\ g # Dir(e) => generation'[g] = generation[g]
                               /\ g = Dir(e) => generation'[g].status = "complete"
    BY <1>10, <1>0 DEF Compose, Generation
  <2> QED
    BY <1>1, <1>10, <2>1, <2>2 DEF Compose, Quiet, At, Elsewhere, Completes, Dir, Status
<1>11. CASE Publish(e)
  <2>1. Goto(e, "published", 1)
    BY <1>11 DEF Publish
  <2> QED
    BY <1>1, <1>11, <2>1 DEF Publish, At, Elsewhere, Publishes, Dir
<1>12. CASE Return(e) \/ Fail(e) \/ Kill(e)
  <2>1. /\ \A d \in Exporters : export'[d] = IF d = e THEN NoExport ELSE export[d]
        /\ Quiet
    BY <1>12, <1>0 DEF Return, Fail, Kill
  <2>2. \A g \in Generations : g # Dir(e) => generation'[g] = generation[g]
    BY <1>12 DEF Return, Fail, Kill
  <2> QED
    BY <1>12, <2>1, <2>2 DEF Return, Kill, Quiet, Elsewhere, Leaves
<1> QED
  BY <1>2, <1>3, <1>4, <1>6, <1>7, <1>8, <1>9, <1>10, <1>11, <1>12
     DEF ExportStep, CreateGeneration, Quiet

(* The directory of an export, by its phase.                                *)
Owns(e) ==
  /\ export[e].pc \in Before => Dir(e) = NoGeneration
  /\ export[e].pc \notin Before => Dir(e) \in Generations
  /\ export[e].pc \in Built => Status(Dir(e)) = "building"
  /\ export[e].pc \in {"replace", "published"} => Status(Dir(e)) = "complete"

Alone == \A e, d \in Exporters : e # d /\ Dir(e) # NoGeneration => Dir(e) # Dir(d)

OwnInv ==
  /\ TypeOK
  /\ \A e \in Exporters : Owns(e)
  /\ Alone

LEMMA Phases ==
  ASSUME TypeOK, NEW e \in Exporters
  PROVE  /\ export[e].pc \in Before \cup Built \cup {"replace", "published"}
         /\ Dir(e) \in Generations \cup {NoGeneration}
BY DEF TypeOK, Export, Before, Built, Dir

LEMMA OwnInit == Init => OwnInv
<1> SUFFICES ASSUME Init PROVE OwnInv
  OBVIOUS
<1>1. \A e \in Exporters : export[e].pc = "idle" /\ Dir(e) = NoGeneration
  BY DEF Init, NoExport, Dir
<1> QED
  BY <1>1, TypeInit DEF OwnInv, Owns, Alone, Before, Built

(* A directory somebody owns is not "absent", so nobody else enters it.     *)
LEMMA OwnStep == OwnInv /\ [Next]_vars => OwnInv'
<1> SUFFICES ASSUME OwnInv, [Next]_vars PROVE OwnInv'
  OBVIOUS
<1>0. TypeOK /\ TypeOK' /\ Alone /\ (\A d \in Exporters : Owns(d)) /\ NoGeneration \notin Generations
  BY TypeStep, PublicationAssumption DEF OwnInv
<1>1. ASSUME NEW e \in Exporters, ExportStep(e)
      PROVE  (\A d \in Exporters : Owns(d))' /\ Alone'
  <2>1. /\ Elsewhere(e)
        /\ \/ Prepares(e) \/ Enters(e) \/ Builds(e) \/ Completes(e)
           \/ Publishes(e) \/ Leaves(e)
    BY <1>0, <1>1, ExportPhases
  <2>2. /\ \A d \in Exporters : d # e => Dir(d)' = Dir(d) /\ (export[d].pc)' = export[d].pc
        /\ Dir(e)' \in {Dir(e), NoGeneration} \/ Enters(e)
    BY <2>1 DEF Elsewhere, Dir, Prepares, Builds, Completes, Publishes, Leaves, NoExport
  <2>3. ASSUME Enters(e), NEW d \in Exporters, d # e PROVE Dir(e)' # Dir(d)
    BY <2>3, <1>0, Phases DEF Enters, Owns, Built, Before, Status
  <2>4. Alone'
    BY <2>2, <2>3, <1>0, Phases DEF Alone
  <2>5. ASSUME NEW d \in Exporters, d # e PROVE Owns(d)'
    <3>1. CASE Dir(d) = NoGeneration
      BY <3>1, <2>2, <2>5, <1>0, Phases DEF Owns, Built, Before
    <3>2. CASE Dir(d) # NoGeneration
      <4>1. Dir(d) # Dir(e) /\ Dir(d) # Dir(e)' /\ Dir(d) \in Generations
        BY <3>2, <2>2, <2>3, <2>5, <1>0, Phases DEF Alone
      <4>2. Status(Dir(d))' = Status(Dir(d))
        BY <4>1, <2>1, <2>2, <2>5 DEF Elsewhere, Status
      <4> QED
        BY <4>1, <4>2, <2>2, <2>5, <1>0 DEF Owns
    <3> QED
      BY <3>1, <3>2
  <2>6. Owns(e)'
    <3>1. Owns(e)
      BY <1>0
    <3>2. CASE Prepares(e)
      BY <3>1, <3>2 DEF Owns, Prepares, Before, Built
    <3>3. CASE Enters(e)
      BY <3>3 DEF Owns, Enters, Before, Built
    <3>4. CASE Builds(e)
      BY <3>1, <3>4 DEF Owns, Builds, Before, Built
    <3>5. CASE Completes(e)
      BY <3>1, <3>5 DEF Owns, Completes, Before, Built
    <3>6. CASE Publishes(e)
      BY <3>1, <3>6 DEF Owns, Publishes, Before, Built, Status
    <3>7. CASE Leaves(e)
      BY <3>7 DEF Owns, Leaves, NoExport, Before, Built, Dir
    <3> QED
      BY <2>1, <3>2, <3>3, <3>4, <3>5, <3>6, <3>7
  <2> QED
    BY <2>4, <2>5, <2>6
<1>2. ASSUME export' = export, generation' = generation
      PROVE  (\A d \in Exporters : Owns(d))' /\ Alone'
  BY <1>2, <1>0 DEF Owns, Alone, Dir, Status
<1> QED
  BY <1>0, <1>1, <1>2
     DEF OwnInv, Next, Edit, FreezeStep, ReadManifest, CheckTarget, ReplaceTarget,
         AbortFreeze, vars

-----------------------------------------------------------------------------
(***************************************************************************)
(* What a manifest names is whole.  Nobody may remove the directory of a   *)
(* manifest: the export that made it must know that it is not its own any  *)
(* more, which it does unless it is interrupted after Publish.             *)
(***************************************************************************)

Named(g) == g = manifest \/ g = frozen \/ \E z \in Freezers : g = freeze[z].document

ManifestInv ==
  /\ OwnInv
  /\ \A g \in Generations : Named(g) => Status(g) = "complete"
  /\ \A e \in Exporters : export[e].pc = "replace" => ~Named(Dir(e))

LEMMA ManifestInit == Init => ManifestInv
<1> SUFFICES ASSUME Init PROVE ManifestInv
  OBVIOUS
<1>1. \A e \in Exporters : export[e].pc = "idle"
  BY DEF Init, NoExport
<1>2. \A g \in Generations : ~Named(g)
  BY PublicationAssumption DEF Init, Named, NoFreeze
<1> QED
  BY <1>1, <1>2, OwnInit DEF ManifestInv

LEMMA ManifestStep ==
  ASSUME ~LateInterrupt
  PROVE  ManifestInv /\ [Next]_vars => ManifestInv'
<1> SUFFICES ASSUME ManifestInv, [Next]_vars PROVE ManifestInv'
  OBVIOUS
<1>0. /\ OwnInv /\ OwnInv' /\ TypeOK
      /\ \A d \in Exporters : Owns(d) /\ Owns(d)'
      /\ NoGeneration \notin Generations
      /\ \A g \in Generations : Named(g) => Status(g) = "complete"
      /\ \A d \in Exporters : export[d].pc = "replace" => ~Named(Dir(d))
  BY OwnStep, PublicationAssumption DEF ManifestInv, OwnInv
<1> DEFINE Rest == /\ \A g \in Generations : Named(g) => Status(g) = "complete"
                   /\ \A d \in Exporters : export[d].pc = "replace" => ~Named(Dir(d))
<1>1. ASSUME NEW e \in Exporters, ExportStep(e) PROVE Rest'
  <2>1. /\ Elsewhere(e)
        /\ frozen' = frozen /\ freeze' = freeze
        /\ ~Publish(e) => manifest' = manifest
        /\ \/ Prepares(e) \/ Enters(e) \/ Builds(e) \/ Completes(e)
           \/ (Publish(e) /\ Publishes(e)) \/ Leaves(e)
    BY <1>0, <1>1, ExportPhases
  <2>2. ASSUME ~Publish(e), NEW g \in Generations, Named(g)' PROVE Status(g)' = "complete"
    <3>1. Named(g) /\ Status(g) = "complete"
      BY <2>1, <2>2, <1>0 DEF Named
    <3>2. CASE g # Dir(e) /\ g # Dir(e)'
      BY <2>1, <3>1, <3>2 DEF Elsewhere, Status
    <3>3. CASE Enters(e)
      <4>1. g # Dir(e)' /\ g # Dir(e)
        BY <3>1, <3>3, <1>0 DEF Enters, Status, Owns, Before
      <4> QED
        BY <4>1, <3>2
    <3>4. CASE g = Dir(e) /\ generation' # generation /\ ~Enters(e)
      <4>1. export[e].pc = "published"
        BY <3>1, <3>4, <1>0, Phases DEF Owns, Before
      <4>2. Leaves(e)
        BY <2>1, <3>4, <4>1 DEF Prepares, Builds, Completes, Publishes, Before, Built
      <4> QED
        BY <4>1, <4>2, <3>4 DEF Leaves, Fail, At
    <3>5. CASE generation' = generation
      BY <3>1, <3>5 DEF Status
    <3>6. g = Dir(e)' => g = Dir(e) \/ Enters(e)
      BY <2>1, <1>0 DEF Prepares, Builds, Completes, Publishes, Leaves, NoExport, Dir
    <3> QED
      BY <3>2, <3>3, <3>4, <3>5, <3>6
  <2>3. ASSUME ~Publish(e), NEW d \in Exporters, (export[d].pc = "replace")'
        PROVE  ~Named(Dir(d))'
    <3>1. Dir(d)' = Dir(d) /\ Dir(d) \in Generations /\ ~Named(Dir(d))
      <4>1. CASE d # e
        BY <4>1, <2>1, <2>3, <1>0 DEF Elsewhere, Dir, Owns, Before
      <4>2. CASE d = e
        <5>1. Completes(e)
          BY <4>2, <2>1, <2>2, <2>3
             DEF Prepares, Enters, Builds, Leaves, NoExport, Before, Built
        <5> QED
          BY <4>2, <5>1, <1>0 DEF Completes, Owns, Before, Built
      <4> QED
        BY <4>1, <4>2
    <3> QED
      BY <3>1, <2>1, <2>3 DEF Named
  <2>4. CASE Publish(e)
    <3>1. Publishes(e)
      BY <2>4, <1>0 DEF Publish, Publishes, At, Goto, Dir, TypeOK, Export
    <3>2. \A g : Named(g)' => Named(g) \/ g = Dir(e)
      BY <2>1, <3>1 DEF Named, Publishes
    <3>3. Dir(e) \in Generations /\ Status(Dir(e)) = "complete"
      BY <3>1, <1>0 DEF Publishes, Owns, Before
    <3>4. ASSUME NEW d \in Exporters, (export[d].pc = "replace")' PROVE ~Named(Dir(d))'
      <4>1. d # e /\ export'[d] = export[d]
        BY <2>1, <3>1, <3>4 DEF Publishes, Elsewhere
      <4>2. Dir(d)' = Dir(d) /\ Dir(d) # Dir(e) /\ ~Named(Dir(d))
        BY <4>1, <3>3, <3>4, <1>0 DEF OwnInv, Alone, Dir
      <4> QED
        BY <4>2, <3>2
    <3> QED
      BY <3>1, <3>2, <3>3, <3>4, <1>0 DEF Publishes, Status
  <2> QED
    BY <2>2, <2>3, <2>4
<1>2. ASSUME NEW z \in Freezers, FreezeStep(z) PROVE Rest'
  <2>1. export' = export /\ generation' = generation /\ manifest' = manifest
    BY <1>2 DEF FreezeStep, ReadManifest, CheckTarget, ReplaceTarget, AbortFreeze
  <2>2. \A g \in Generations : Named(g)' => Named(g)
    <3>1. freeze \in [Freezers -> Freeze] /\ NoFreeze.document = NoGeneration
      BY <1>0 DEF TypeOK, NoFreeze
    <3>2. /\ \A y \in Freezers : freeze'[y].document \in
                                   {freeze[y].document, manifest, NoGeneration}
          /\ frozen' = frozen \/ frozen' = freeze[z].document
      BY <1>2, <3>1
         DEF FreezeStep, ReadManifest, CheckTarget, ReplaceTarget, AbortFreeze, Freeze
    <3> QED
      BY <2>1, <3>2, <1>0 DEF Named
  <2> QED
    BY <2>1, <2>2, <1>0 DEF Status, Dir, Owns, Before
<1>3. ASSUME (\E f \in Files : Edit(f)) \/ UNCHANGED vars PROVE Rest'
  <2>1. UNCHANGED <<generation, manifest, export, frozen, freeze>>
    BY <1>3 DEF Edit, vars
  <2> QED
    BY <2>1, <1>0 DEF Named, Status, Dir
<1> QED
  BY <1>0, <1>1, <1>2, <1>3 DEF ManifestInv, Next

(* If no interrupt arrives between the replacement of the manifest and the
   return, whoever follows the manifest or the frozen descriptor arrives in
   a whole generation.                                                      *)
THEOREM ManifestWhole ==
  ASSUME ~LateInterrupt
  PROVE  Spec => []ManifestComplete
<1>1. ManifestInv => ManifestComplete
  BY DEF ManifestInv, OwnInv, TypeOK, Named, Status, ManifestComplete
<1> QED
  BY <1>1, ManifestInit, ManifestStep, PTL DEF Spec

-----------------------------------------------------------------------------
(***************************************************************************)
(* What a generation says of the sources.  Contents only move forward, so  *)
(* a read is never older than an earlier one; where two reads of a file    *)
(* agree, so does every read between them.  The identity before and the    *)
(* identity after bracket the extraction; the recorded identity and the    *)
(* final check bracket one moment common to all files.                     *)
(*                                                                         *)
(* x is the record of an export, g the record of its directory, s the      *)
(* working trees.                                                          *)
(***************************************************************************)

Past(x, s) ==
  /\ \A f \in Files : x.before[f] <= s[f]
  /\ x.pc = "create" => x.next = 1

Bracketed(x, g, s) ==
  \A f \in Files :
    /\ g.facts[f] # Unread => x.before[f] <= g.facts[f] /\ g.facts[f] <= s[f]
    /\ g.digest[f] # Unread => g.facts[f] = g.digest[f]

(* How far the walk over the files has come.                                *)
Walked(x, g) ==
  \A f \in Files :
    /\ x.pc = "extract" => /\ f < x.next => g.facts[f] # Unread
                           /\ g.digest[f] # Unread <=> f < FirstOf[x.next]
    /\ x.pc = "after"   => /\ f <= LastOf[x.next] => g.facts[f] # Unread
                           /\ g.digest[f] # Unread <=> f < x.next
    /\ x.pc \in {"resolve", "check", "compose"} => g.digest[f] # Unread

Checked(x, g, s) ==
  \A f \in Files :
    /\ x.pc = "check"   => /\ g.digest[f] <= g.moment[f] /\ g.moment[f] <= s[f]
                           /\ f < x.next => g.moment[f] = g.digest[f]
    /\ x.pc = "compose" => g.moment[f] = g.digest[f]

Follows(x, g, s) == Bracketed(x, g, s) /\ Walked(x, g) /\ Checked(x, g, s)

Described(g) ==
  \A f \in Files : g.digest[f] = g.facts[f] /\ g.moment[f] = g.facts[f]

FactsInv ==
  /\ OwnInv
  /\ \A e \in Exporters : Past(export[e], source)
  /\ \A e \in Exporters : export[e].pc \in Built =>
                            Follows(export[e], generation[Dir(e)], source)
  /\ \A g \in Generations : Status(g) = "complete" => Described(generation[g])

LEMMA Numbers ==
  /\ \A r \in Reading, f \in Files : r[f] \in Int /\ (r[f] # Unread => r[f] >= 0)
  /\ \A s \in Tree, f \in Files : s[f] \in Int /\ s[f] >= 0 /\ s[f] # Unread
  /\ Unread = -1
BY PublicationAssumption DEF Reading, Tree, Versions, Unread

LEMMA RecordTypes ==
  /\ \A x \in Export : x.before \in Reading /\ x.next \in Files
  /\ \A g \in Generation : g.facts \in Reading /\ g.digest \in Reading /\ g.moment \in Reading
BY DEF Export, Generation

(* Edits of the working trees disturb nothing.                              *)
LEMMA EditsForward ==
  ASSUME NEW x \in Export, NEW s \in Tree, NEW t \in Tree, \A f \in Files : s[f] <= t[f]
  PROVE  /\ Past(x, s) => Past(x, t)
         /\ \A g \in Generation : Follows(x, g, s) => Follows(x, g, t)
<1>1. Past(x, s) => Past(x, t)
  BY Numbers, RecordTypes DEF Past
<1>2. ASSUME NEW g \in Generation, Follows(x, g, s) PROVE Follows(x, g, t)
  <2>1. Bracketed(x, g, t)
    BY <1>2, Numbers, RecordTypes DEF Follows, Bracketed
  <2>2. Checked(x, g, t)
    BY <1>2, Numbers, RecordTypes DEF Follows, Checked
  <2> QED
    BY <1>2, <2>1, <2>2 DEF Follows
<1> QED
  BY <1>1, <1>2

LEMMA FactsInit == Init => FactsInv
<1> SUFFICES ASSUME Init PROVE FactsInv
  OBVIOUS
<1>1. \A e \in Exporters : export[e] = NoExport
  BY DEF Init
<1>2. Past(NoExport, source) /\ NoExport.pc \notin Built
  BY Numbers DEF Init, NoExport, Nothing, Past, Unread, Built
<1>3. \A g \in Generations : Status(g) = "absent"
  BY DEF Init, Status, NewGeneration
<1> QED
  BY <1>1, <1>2, <1>3, OwnInit DEF FactsInv

(* The walk of one export: x becomes y and g becomes h while the trees are s.
   *)
LEMMA Extracts ==
  ASSUME NEW x \in Export, NEW y \in Export, NEW g \in Generation, NEW h \in Generation,
         NEW s \in Tree, Past(x, s), Follows(x, g, s),
         x.pc = "extract", y.before = x.before,
         h.digest = g.digest,
         \A f \in Files : h.facts[f] = IF f = x.next THEN s[f] ELSE g.facts[f],
         IF x.next = LastOf[x.next] THEN y.pc = "after" /\ y.next = FirstOf[x.next]
                                    ELSE y.pc = "extract" /\ y.next = x.next + 1
  PROVE  Follows(y, h, s)
<1> DEFINE k == x.next
<1>0. k \in Files
  BY RecordTypes
<1>1. Bracketed(y, h, s)
  <2> SUFFICES ASSUME NEW f \in Files
               PROVE  /\ h.facts[f] # Unread => y.before[f] <= h.facts[f] /\ h.facts[f] <= s[f]
                      /\ h.digest[f] # Unread => h.facts[f] = h.digest[f]
    BY DEF Bracketed
  <2>1. CASE f = k
    <3>1. g.digest[f] = Unread
      BY <2>1, <1>0, FileOrder DEF Follows, Walked
    <3> QED
      BY <2>1, <3>1, Numbers DEF Past
  <2>2. CASE f # k
    BY <2>2 DEF Follows, Bracketed
  <2> QED
    BY <2>1, <2>2
<1>2. Walked(y, h)
  <2>1. CASE k = LastOf[k]
    <3>1. LastOf[y.next] = k /\ y.next = FirstOf[k] /\ y.pc = "after"
      BY <2>1, <1>0, FileOrder
    <3> QED
      BY <3>1, <1>0, FileOrder, Numbers DEF Follows, Walked
  <2>2. CASE k # LastOf[k]
    <3>1. FirstOf[y.next] = FirstOf[k] /\ y.next = k + 1 /\ y.pc = "extract"
      BY <2>2, <1>0, FileOrder
    <3> QED
      BY <3>1, <1>0, FileOrder, Numbers DEF Follows, Walked
  <2> QED
    BY <2>1, <2>2
<1> QED
  BY <1>1, <1>2 DEF Follows, Checked

LEMMA Compares ==
  ASSUME NEW x \in Export, NEW y \in Export, NEW g \in Generation, NEW h \in Generation,
         NEW s \in Tree, Past(x, s), Follows(x, g, s),
         x.pc = "after", y.before = x.before,
         s[x.next] = x.before[x.next],
         h.facts = g.facts,
         \A f \in Files : h.digest[f] = IF f = x.next THEN s[f] ELSE g.digest[f],
         IF x.next = FileCount THEN y.pc = "resolve"
         ELSE /\ y.pc = IF x.next = LastOf[x.next] THEN "extract" ELSE "after"
              /\ y.next = x.next + 1
  PROVE  Follows(y, h, s)
<1> DEFINE k == x.next
<1>0. k \in Files
  BY RecordTypes
<1>1. g.facts[k] = s[k]
  <2>1. g.facts[k] # Unread
    BY <1>0, FileOrder DEF Follows, Walked
  <2> QED
    BY <2>1, <1>0, Numbers, RecordTypes DEF Follows, Bracketed
<1>2. Bracketed(y, h, s)
  BY <1>0, <1>1, Numbers, RecordTypes DEF Follows, Bracketed
<1>3. Walked(y, h)
  <2>0. \A f \in Files : h.digest[f] # Unread <=> f < k \/ f = k
    BY <1>0, Numbers DEF Follows, Walked
  <2>1. CASE k = FileCount
    <3>1. \A f \in Files : f < k \/ f = k
      BY <2>1, PublicationAssumption DEF Files
    <3> QED
      BY <2>0, <2>1, <3>1 DEF Walked
  <2>2. CASE k # FileCount /\ k = LastOf[k]
    <3>1. FirstOf[k + 1] = k + 1 /\ y.next = k + 1 /\ y.pc = "extract"
      BY <2>2, <1>0, FileOrder
    <3>2. \A f \in Files : f < k + 1 <=> f < k \/ f = k
      BY <1>0, FileOrder
    <3> QED
      BY <2>0, <2>2, <3>1, <3>2, <1>0, FileOrder DEF Follows, Walked
  <2>3. CASE k # FileCount /\ k # LastOf[k]
    <3>1. LastOf[k + 1] = LastOf[k] /\ y.next = k + 1 /\ y.pc = "after"
      BY <2>3, <1>0, FileOrder
    <3>2. \A f \in Files : f < k + 1 <=> f < k \/ f = k
      BY <1>0, FileOrder
    <3> QED
      BY <2>0, <3>1, <3>2 DEF Follows, Walked
  <2> QED
    BY <2>1, <2>2, <2>3
<1> QED
  BY <1>2, <1>3 DEF Follows, Checked

LEMMA Snapshots ==
  ASSUME NEW x \in Export, NEW y \in Export, NEW g \in Generation, NEW h \in Generation,
         NEW s \in Tree, Follows(x, g, s),
         x.pc = "resolve", y.before = x.before, y.pc = "check", y.next = 1,
         h.facts = g.facts, h.digest = g.digest, h.moment = s
  PROVE  Follows(y, h, s)
<1>1. \A f \in Files : g.digest[f] # Unread /\ g.facts[f] = g.digest[f] /\ g.facts[f] <= s[f]
  BY DEF Follows, Walked, Bracketed
<1>2. Bracketed(y, h, s) /\ Walked(y, h)
  BY <1>1 DEF Follows, Bracketed, Walked
<1>3. Checked(y, h, s)
  BY <1>1, Numbers DEF Checked, Files
<1> QED
  BY <1>2, <1>3 DEF Follows

LEMMA Confirms ==
  ASSUME NEW x \in Export, NEW y \in Export, NEW g \in Generation,
         NEW s \in Tree, Follows(x, g, s),
         x.pc = "check", y.before = x.before,
         s[x.next] = g.digest[x.next],
         IF x.next = FileCount THEN y.pc = "compose"
                               ELSE y.pc = "check" /\ y.next = x.next + 1
  PROVE  Follows(y, g, s)
<1>0. x.next \in Files
  BY RecordTypes
<1>1. g.moment[x.next] = g.digest[x.next]
  BY <1>0, Numbers, RecordTypes DEF Follows, Checked
<1>2. \A f \in Files : f < x.next \/ f = x.next => g.moment[f] = g.digest[f]
  BY <1>1 DEF Follows, Checked
<1>3. Bracketed(y, g, s) /\ Walked(y, g)
  BY DEF Follows, Bracketed, Walked
<1>4. Checked(y, g, s)
  <2>1. CASE x.next = FileCount
    BY <2>1, <1>2, PublicationAssumption DEF Checked, Files
  <2>2. CASE x.next # FileCount
    BY <2>2, <1>0, <1>2, FileOrder DEF Follows, Checked
  <2> QED
    BY <2>1, <2>2
<1> QED
  BY <1>3, <1>4 DEF Follows

LEMMA FactsStep == FactsInv /\ [Next]_vars => FactsInv'
<1> SUFFICES ASSUME FactsInv, [Next]_vars PROVE FactsInv'
  OBVIOUS
<1>0. /\ OwnInv /\ OwnInv' /\ TypeOK /\ TypeOK'
      /\ source \in Tree /\ source' \in Tree
      /\ generation \in [Generations -> Generation]
      /\ \A g \in Generations : generation[g] \in Generation /\ generation'[g] \in Generation
      /\ export \in [Exporters -> Export]
      /\ \A d \in Exporters : export[d] \in Export /\ export'[d] \in Export
      /\ \A d \in Exporters : Owns(d)
      /\ \A d \in Exporters : Owns(d)'
      /\ \A d \in Exporters : Past(export[d], source)
      /\ \A d \in Exporters : export[d].pc \in Built =>
                                Follows(export[d], generation[Dir(d)], source)
      /\ \A g \in Generations : Status(g) = "complete" => Described(generation[g])
  <2>1. OwnInv /\ OwnInv' /\ TypeOK /\ TypeOK'
    BY OwnStep DEF FactsInv, OwnInv
  <2>2. \A d \in Exporters : Owns(d)'
    BY <2>1 DEF OwnInv
  <2> QED
    BY <2>1, <2>2 DEF FactsInv, OwnInv, TypeOK
<1> DEFINE Rest ==
      /\ \A d \in Exporters : Past(export[d], source)
      /\ \A d \in Exporters : export[d].pc \in Built =>
                                Follows(export[d], generation[Dir(d)], source)
      /\ \A g \in Generations : Status(g) = "complete" => Described(generation[g])
<1>1. ASSUME NEW f \in Files, Edit(f) PROVE Rest'
  <2>1. \A g \in Files : source[g] <= source'[g]
    BY <1>0, <1>1, Numbers DEF Edit, Tree
  <2>2. export' = export /\ generation' = generation
    BY <1>1 DEF Edit
  <2>3. \A d \in Exporters : Past(export[d], source')
    BY <2>1, <1>0, EditsForward
  <2>4. ASSUME NEW d \in Exporters, export[d].pc \in Built
        PROVE  Follows(export[d], generation[Dir(d)], source')
    <3>1. Dir(d) \in Generations /\ generation[Dir(d)] \in Generation
      BY <2>4, <1>0 DEF Owns, Before, Built
    <3> QED
      BY <2>1, <2>4, <3>1, <1>0, EditsForward
  <2> QED
    BY <2>2, <2>3, <2>4, <1>0 DEF Dir, Status
<1>2. ASSUME NEW e \in Exporters, ExportStep(e) PROVE Rest'
  <2> DEFINE x == export[e]
             y == export'[e]
             g == generation[Dir(e)]
             h == generation'[Dir(e)]
  <2>0. source' = source
    BY <1>2, ExportPhases DEF ExportStep, BeginExport, ReadBefore, CreateGeneration, Extract,
         ReadAfter, Resolve, CheckSource, Compose, Publish, Return, Fail, Kill, Quiet
  <2>1. /\ Elsewhere(e)
        /\ \/ Prepares(e) \/ Enters(e) \/ Builds(e) \/ Completes(e)
           \/ Publishes(e) \/ Leaves(e)
    BY <1>0, <1>2, ExportPhases
  <2>2. ASSUME NEW d \in Exporters, d # e, export[d].pc \in Built
        PROVE  generation'[Dir(d)] = generation[Dir(d)] /\ Dir(d)' = Dir(d)
    <3>1. Dir(d)' = Dir(d) /\ Dir(d) \in Generations
      BY <2>1, <2>2, <1>0 DEF Elsewhere, Dir, Owns, Before, Built
    <3>2. Dir(d) # Dir(e) /\ Dir(d) # Dir(e)'
      BY <2>2, <3>1, <1>0, PublicationAssumption DEF OwnInv, Alone
    <3> QED
      BY <3>1, <3>2, <2>1 DEF Elsewhere
  <2>3. ASSUME NEW d \in Exporters, d # e
        PROVE  /\ Past(export'[d], source')
               /\ export'[d].pc \in Built => Follows(export'[d], generation'[Dir(d)'], source')
    BY <2>0, <2>1, <2>2, <2>3, <1>0 DEF Elsewhere
  <2>4. ASSUME NEW pc, NEW next, Goto(e, pc, next)
        PROVE  y.pc = pc /\ y.next = next /\ y.before = x.before /\ Dir(e)' = Dir(e)
    BY <2>4, <1>0 DEF Goto, Dir, Export
  <2>5. x \in Export /\ y \in Export /\ Past(x, source)
    BY <1>0
  <2>6. x.pc \in Built => /\ g \in Generation /\ h \in Generation
                          /\ Dir(e) \in Generations
                          /\ Follows(x, g, source)
    BY <1>0 DEF Owns, Before, Built
  <2> DEFINE Goal == /\ Past(y, source)
                     /\ y.pc \in Built => Follows(y, generation'[Dir(e)'], source)
  <2>7. ASSUME BeginExport(e) PROVE Goal
    BY <2>7, <2>4, <2>5 DEF BeginExport, Past, Built
  <2>8. ASSUME ReadBefore(e) PROVE Goal
    <3>1. /\ \A f \in Files : y.before[f] = IF f = x.next THEN source[f] ELSE x.before[f]
          /\ y.pc = IF x.next = FileCount THEN "create" ELSE "before"
          /\ y.pc = "create" => y.next = 1
      BY <2>8, <2>5, <1>0, RecordTypes DEF ReadBefore, File, Export, Reading
    <3> QED
      BY <3>1, <2>5, <1>0, Numbers DEF Past, Built
  <2>9. ASSUME NEW n \in Generations, CreateGeneration(e, n) PROVE Goal
    <3>1. /\ y.pc = "extract" /\ y.before = x.before /\ y.next = 1 /\ Dir(e)' = n
      BY <2>9, <2>5, <1>0 DEF CreateGeneration, At, Past, Export, Dir
    <3>2. generation'[n] = [NewGeneration EXCEPT !.status = "building"]
      BY <2>9, <1>0 DEF CreateGeneration
    <3>3. \A f \in Files : generation'[n].facts[f] = Unread /\ generation'[n].digest[f] = Unread
      BY <3>2 DEF NewGeneration, Nothing
    <3>4. \A f \in Files : ~(f < 1)
      BY DEF Files
    <3>5. Follows(y, generation'[n], source)
      BY <3>1, <3>3, <3>4, FileOrder DEF Follows, Bracketed, Walked, Checked
    <3> QED
      BY <3>1, <3>5, <2>5 DEF Past
  <2>10. ASSUME Extract(e) PROVE Goal
    <3>1. x.pc = "extract"
      BY <2>10 DEF Extract, At
    <3>2. /\ h.digest = g.digest
          /\ \A f \in Files : h.facts[f] = IF f = x.next THEN source[f] ELSE g.facts[f]
      BY <2>10, <2>6, <3>1, <1>0 DEF Extract, File, Generation, Reading, Built
    <3>3. /\ y.before = x.before /\ Dir(e)' = Dir(e)
          /\ IF x.next = LastOf[x.next] THEN y.pc = "after" /\ y.next = FirstOf[x.next]
                                        ELSE y.pc = "extract" /\ y.next = x.next + 1
      BY <2>10, <2>4 DEF Extract, File
    <3>4. Follows(y, h, source)
      BY <3>1, <3>2, <3>3, <2>5, <2>6, <1>0, Extracts DEF Built
    <3> QED
      BY <3>3, <3>4, <2>5 DEF Past
  <2>11. ASSUME ReadAfter(e) PROVE Goal
    <3>1. x.pc = "after" /\ source[x.next] = x.before[x.next]
      BY <2>11 DEF ReadAfter, At, File
    <3>2. /\ h.facts = g.facts
          /\ \A f \in Files : h.digest[f] = IF f = x.next THEN source[f] ELSE g.digest[f]
      BY <2>11, <2>6, <3>1, <1>0 DEF ReadAfter, AfterDigest, File, Generation, Reading, Built
    <3>3. /\ y.before = x.before /\ Dir(e)' = Dir(e)
          /\ IF x.next = FileCount THEN y.pc = "resolve"
             ELSE /\ y.pc = IF x.next = LastOf[x.next] THEN "extract" ELSE "after"
                  /\ y.next = x.next + 1
      BY <2>11, <2>4 DEF ReadAfter, AfterDigest, File
    <3>4. Follows(y, h, source)
      BY <3>1, <3>2, <3>3, <2>5, <2>6, <1>0, Compares DEF Built
    <3> QED
      BY <3>3, <3>4, <2>5 DEF Past
  <2>12. ASSUME Resolve(e) PROVE Goal
    <3>1. x.pc = "resolve"
      BY <2>12 DEF Resolve, At
    <3>2. h.facts = g.facts /\ h.digest = g.digest /\ h.moment = source
      BY <2>12, <2>6, <3>1, <1>0 DEF Resolve, Generation, Built
    <3>3. y.before = x.before /\ Dir(e)' = Dir(e) /\ y.pc = "check" /\ y.next = 1
      BY <2>12, <2>4 DEF Resolve
    <3>4. Follows(y, h, source)
      BY <3>1, <3>2, <3>3, <2>5, <2>6, <1>0, Snapshots DEF Built
    <3> QED
      BY <3>3, <3>4, <2>5 DEF Past
  <2>13. ASSUME CheckSource(e) PROVE Goal
    <3>1. x.pc = "check" /\ source[x.next] = g.digest[x.next] /\ h = g
      BY <2>13 DEF CheckSource, At, File
    <3>2. /\ y.before = x.before /\ Dir(e)' = Dir(e)
          /\ IF x.next = FileCount THEN y.pc = "compose"
                                   ELSE y.pc = "check" /\ y.next = x.next + 1
      BY <2>13, <2>4 DEF CheckSource, File
    <3>3. Follows(y, g, source)
      BY <3>1, <3>2, <2>5, <2>6, <1>0, Confirms DEF Built
    <3> QED
      BY <3>1, <3>2, <3>3, <2>5 DEF Past
  <2>14. ASSUME Compose(e) \/ Publish(e) PROVE Goal
    BY <2>14, <2>4, <2>5 DEF Compose, Publish, Past, Built
  <2>15. ASSUME Return(e) \/ Fail(e) \/ Kill(e) PROVE Goal
    <3>1. y = NoExport
      BY <2>15, <1>0 DEF Return, Fail, Kill
    <3> QED
      BY <3>1, <1>0, Numbers DEF NoExport, Nothing, Past, Built
  <2>16. Goal
    BY <1>2, <2>7, <2>8, <2>9, <2>10, <2>11, <2>12, <2>13, <2>14, <2>15 DEF ExportStep
  <2>17. ASSUME NEW n \in Generations, Status(n)' = "complete" PROVE Described(generation'[n])
    <3>1. CASE generation'[n] = generation[n]
      BY <3>1, <2>17, <1>0 DEF Status
    <3>2. CASE n = Dir(e) /\ Completes(e)
      <4>1. Compose(e)
        <5>1. x.pc = "compose" /\ y.pc # "idle"
          BY <3>2 DEF Completes
        <5>2. ~Return(e) /\ ~Fail(e) /\ ~Kill(e)
          BY <5>1, <1>0 DEF Return, Fail, Kill, NoExport
        <5> QED
          BY <1>2, <5>1, <5>2
             DEF ExportStep, At, BeginExport, ReadBefore, CreateGeneration, Extract, ReadAfter,
                 Resolve, CheckSource, Publish
      <4>2. /\ generation'[n].facts = g.facts
            /\ generation'[n].digest = g.digest
            /\ generation'[n].moment = g.moment
        BY <3>2, <4>1, <1>0 DEF Compose, Generation
      <4>3. \A f \in Files : g.moment[f] = g.digest[f] /\ g.facts[f] = g.digest[f]
        BY <3>2, <2>6 DEF Completes, Built, Follows, Walked, Checked, Bracketed
      <4> QED
        BY <4>2, <4>3 DEF Described
    <3>3. CASE n = Dir(e) /\ Builds(e)
      BY <3>3, <2>17, <1>0 DEF Builds, Owns, Before, Built
    <3>4. CASE n = Dir(e)' /\ Enters(e)
      BY <3>4, <2>17 DEF Enters, Status
    <3>5. CASE n = Dir(e) /\ Leaves(e)
      BY <3>1, <3>5, <2>17, <1>0 DEF Leaves, Fail, Status, Generation
    <3>6. \/ generation'[n] = generation[n]
          \/ n = Dir(e)' /\ Enters(e)
          \/ n = Dir(e) /\ (Completes(e) \/ Builds(e) \/ Leaves(e))
      <4>1. CASE n # Dir(e) /\ n # Dir(e)'
        BY <4>1, <2>1 DEF Elsewhere
      <4>2. Enters(e) => Dir(e) = NoGeneration
        BY <1>0 DEF Enters, Owns, Before
      <4>3. Leaves(e) => Dir(e)' = NoGeneration
        BY DEF Leaves, NoExport, Dir
      <4> QED
        BY <2>1, <4>1, <4>2, <4>3, PublicationAssumption
           DEF Prepares, Builds, Completes, Publishes
    <3> QED
      BY <3>1, <3>2, <3>3, <3>4, <3>5, <3>6
  <2> QED
    BY <2>0, <2>3, <2>16, <2>17
<1>3. ASSUME UNCHANGED <<source, generation, export>> PROVE Rest'
  BY <1>3, <1>0 DEF Dir, Status
<1> QED
  BY <1>0, <1>1, <1>2, <1>3
     DEF FactsInv, Next, FreezeStep, ReadManifest, CheckTarget, ReplaceTarget, AbortFreeze, vars

LEMMA SameReading ==
  ASSUME NEW r \in Reading, NEW q \in Reading, \A f \in Files : r[f] = q[f]
  PROVE  r = q
BY DEF Reading

(* The recorded revisions of a whole generation are those of the contents
   its facts were extracted from, however the trees were edited meanwhile.  *)
THEOREM DigestCorrect == Spec => []DigestDescribesFacts
<1>1. ASSUME FactsInv PROVE DigestDescribesFacts
  <2>1. \A g \in Generations : generation[g] \in Generation
    BY <1>1 DEF FactsInv, OwnInv, TypeOK
  <2> QED
    BY <1>1, <2>1, RecordTypes, SameReading
       DEF FactsInv, Described, Status, DigestDescribesFacts
<1> QED
  BY <1>1, FactsInit, FactsStep, PTL DEF Spec

(* And the facts of all snapshots were in the trees at one moment.          *)
THEOREM OneMoment == Spec => []FactsOfOneMoment
<1>1. ASSUME FactsInv PROVE FactsOfOneMoment
  <2>1. \A g \in Generations : generation[g] \in Generation
    BY <1>1 DEF FactsInv, OwnInv, TypeOK
  <2> QED
    BY <1>1, <2>1, RecordTypes, SameReading
       DEF FactsInv, Described, Status, FactsOfOneMoment
<1> QED
  BY <1>1, FactsInit, FactsStep, PTL DEF Spec

-----------------------------------------------------------------------------
(***************************************************************************)
(* Freezes that overlap.  What each means to put in place is a generation, *)
(* and once there is a descriptor nobody passes the test any more.         *)
(***************************************************************************)

FreezeInv ==
  /\ TypeOK
  /\ \A z \in Freezers : freeze[z].pc # "idle" => freeze[z].document # NoGeneration

LEMMA FreezeInit == Init => FreezeInv
BY TypeInit DEF Init, NoFreeze, FreezeInv

LEMMA FreezeKeeps ==
  ASSUME FreezeInv, [Next]_vars
  PROVE  /\ FreezeInv'
         /\ frozen # NoGeneration =>
              /\ Replacing' \subseteq Replacing
              /\ frozen' = frozen \/ (frozen' # NoGeneration /\ Replacing' # Replacing)
<1> DEFINE Keeps == /\ \A z \in Freezers : (freeze[z].pc # "idle" => freeze[z].document # NoGeneration)'
                    /\ frozen # NoGeneration =>
                         /\ Replacing' \subseteq Replacing
                         /\ frozen' = frozen \/ (frozen' # NoGeneration /\ Replacing' # Replacing)
<1>0. TypeOK /\ TypeOK' /\ freeze \in [Freezers -> Freeze]
  BY TypeStep DEF FreezeInv, TypeOK
<1>1. ASSUME NEW z \in Freezers, FreezeStep(z) PROVE Keeps
  <2>1. CASE ReadManifest(z)
    BY <1>0, <2>1 DEF FreezeInv, ReadManifest, Replacing
  <2>2. CASE CheckTarget(z)
    BY <1>0, <2>2 DEF FreezeInv, CheckTarget, NoFreeze, Freeze, Replacing
  <2>3. CASE ReplaceTarget(z)
    <3>1. /\ z \in Replacing /\ z \notin Replacing' /\ Replacing' \subseteq Replacing
          /\ frozen' = freeze[z].document /\ freeze[z].document # NoGeneration
      BY <1>0, <2>3 DEF FreezeInv, ReplaceTarget, NoFreeze, Replacing
    <3> QED
      BY <1>0, <2>3, <3>1 DEF FreezeInv, ReplaceTarget, NoFreeze
  <2>4. CASE AbortFreeze(z)
    BY <1>0, <2>4 DEF FreezeInv, AbortFreeze, NoFreeze, Replacing
  <2> QED
    BY <1>1, <2>1, <2>2, <2>3, <2>4 DEF FreezeStep
<1>2. ASSUME NEW e \in Exporters, ExportStep(e) PROVE frozen' = frozen /\ freeze' = freeze
  BY <1>0, <1>2, ExportPhases
<1>3. ASSUME frozen' = frozen, freeze' = freeze PROVE Keeps
  BY <1>3 DEF FreezeInv, Replacing
<1>4. Keeps
  BY <1>1, <1>2, <1>3 DEF Next, Edit, vars
<1> QED
  BY <1>0, <1>4 DEF FreezeInv

(* However many freezes overlap: once there is a descriptor, the freezes that
   may still replace it only become fewer, and each does so once.           *)
THEOREM DescriptorSettles == Spec => FrozenSettles
BY FreezeInit, FreezeKeeps, PTL DEF Spec, FrozenSettles

(* So a descriptor that no freeze is about to replace is immutable, as
   freeze_generation_manifest says (graph_artifacts.py:48-49), however many
   freezes, exports and failures follow.                                    *)
THEOREM FrozenStays ==
  ASSUME NEW g \in Generations
  PROVE  Spec => [](frozen = g /\ Replacing = {} => [](frozen = g))
<1> DEFINE Final == frozen = g /\ Replacing = {}
<1>1. ASSUME FreezeInv, [Next]_vars, Final PROVE Final'
  <2>1. g # NoGeneration
    BY PublicationAssumption
  <2> QED
    BY <1>1, <2>1, FreezeKeeps
<1>2. FreezeInv /\ [Next]_vars => FreezeInv'
  BY FreezeKeeps
<1>3. FreezeInv /\ [Next]_vars => (Final => Final')
  BY <1>1
<1>4. Final => frozen = g
  OBVIOUS
<1> HIDE DEF Final
<1>5. Spec => [](Final => []Final)
  BY FreezeInit, <1>2, <1>3, PTL DEF Spec
<1>6. [](Final => []Final) => [](Final => [](frozen = g))
  BY <1>4, PTL
<1> QED
  BY <1>5, <1>6, PTL DEF Final
=============================================================================
