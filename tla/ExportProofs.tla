------------------------------ MODULE ExportProofs ------------------------------
(***************************************************************************)
(* Theorems about what exports build.  RepositoryExport, for any number of *)
(* exports, batches and worker processes: what the published manifest      *)
(* names, whatever fails, dies, is killed or overlaps.  CorpusStaging, for *)
(* any selection of files: how it is divided.  CorpusResolution, for any   *)
(* corpora: what is linked of the snapshots that are exported together.    *)
(* CorpusGraph, for corpora whose facts are of files of the registry: that *)
(* the graph made of the links and the facts is whole.                     *)
(***************************************************************************)
EXTENDS CorpusGraph, CorpusStaging, RepositoryExport, DataProofs

Building == {"extract", "registry", "stage", "project", "merge"}
Manifesting == {"open", "write", "rename", "load"}
Flat == {"files", "written", "publish"}
Over == {"idle", "done", "failed", "killed"}
ExportSteps == Over \cup Building \cup Manifesting \cup Flat \cup {"drain"}

Results == {"queued", "done", "failed", "lost"}
Pools == UNION {[D -> Results] : D \in SUBSET Nat}
Exporter ==
  [pc : ExportSteps, mode : {Absent, "single", "several"}, next : Nat, futures : Pools,
   file : Exports \cup {Absent}]
Generation ==
  [spools : SUBSET Nat, registry : SUBSET Nat, staged : BOOLEAN, shards : SUBSET Nat,
   manifest : BOOLEAN]
Contents == Exports \cup {Torn, Absent}

ExportTypeOK ==
  /\ exporter \in [Exports -> Exporter]
  /\ generation \in [Exports -> Generation]
  /\ content \in [Exports -> Contents]
  /\ temporary \in Exports \cup {Absent} /\ top \in Exports \cup {Absent}
  /\ alone \in BOOLEAN

(* A pool that has work 1..n: what was submitted is made, or is still to be
   taken.                                                                    *)
Progress(x, made, n) ==
  /\ x.next \in 1 .. n + 1
  /\ DOMAIN x.futures \subseteq 1 .. x.next - 1 /\ made \subseteq 1..n
  /\ \A b \in 1 .. x.next - 1 : b \in made \/ (b \in DOMAIN x.futures /\ x.futures[b] # "done")

All == 1..Batches
(* How far an export has come with its own directory.                        *)
Stages(x, g) ==
  /\ x.pc = "idle" => g = Empty /\ x.next = 1 /\ x.mode = Absent
  /\ x.pc \in Building \cup Manifesting => x.mode = "single"
  /\ x.pc \in Flat => x.mode = "several"
  /\ x.pc \in {"idle", "registry", "stage", "merge"} \cup Manifesting => DOMAIN x.futures = {}
  /\ x.pc \in {"idle"} \cup Building => ~g.manifest
  /\ x.pc \in {"extract", "registry", "stage"} => g.shards = {}
  /\ x.pc \in {"extract", "registry"} => g.registry = {} /\ ~g.staged
  /\ x.pc = "extract" => Progress(x, g.spools, Batches)
  /\ x.pc \in {"registry", "stage", "project", "merge"} => g.spools = All
  /\ x.pc \in {"stage", "project", "merge"} => g.registry = All
  /\ x.pc \in {"project", "merge"} => g.staged
  /\ x.pc = "project" => Progress(x, g.shards, Parts)
  /\ x.pc = "merge" => g.shards = 1..Parts
  /\ x.pc \in Manifesting => g.manifest
  /\ g.manifest => /\ DOMAIN x.futures = {}
                   /\ g.spools = All /\ g.registry = All /\ g.staged /\ g.shards = 1..Parts
StagesInv == \A e \in Exports : Stages(exporter[e], generation[e])

(* The files: which export a manifest describes, and that the file which an
   export will create is not there before it does.                           *)
Fresh == {"idle"} \cup Building \cup {"open"} \cup Flat
Describes(d) ==
  \/ exporter[d].mode = "single" /\ generation[d].manifest
  \/ exporter[d].mode = "several" /\ exporter[d].pc = "done"
FilesInv ==
  /\ \A f, d \in Exports : content[f] = d => Describes(d)
  /\ \A e \in Exports : exporter[e].pc \in Fresh => content[e] = Absent
  /\ \A e \in Exports : exporter[e].pc \in {"write", "rename"} =>
       exporter[e].file \in Exports /\ content[exporter[e].file] # Absent
  /\ top # Absent => content[top] # Absent
  /\ temporary # Absent => content[temporary] # Absent /\ temporary # top

(* Without overlap: the files of the one export that is running.             *)
AloneInv ==
  alone =>
    /\ \A d, e \in Running : d = e
    /\ \A e \in Exports :
         /\ exporter[e].pc \in {"write", "rename"} => temporary # Absent /\ exporter[e].file = temporary
         /\ exporter[e].pc = "rename" => content[temporary] = e
         /\ exporter[e].pc = "load" => top # Absent /\ content[top] = e
         /\ exporter[e].pc = "publish" => flat = e
    /\ top # Absent => content[top] # Torn
    /\ \A d \in Exports : top # Absent /\ content[top] = d /\ exporter[d].mode = "several" =>
         flat = d \/ \E e \in Exports \ {d} : exporter[e].mode = "several"

ExportInv == ExportTypeOK /\ StagesInv /\ FilesInv /\ AloneInv

-----------------------------------------------------------------------------
(* What a pool holds is a function from the numbers of some work.            *)
LEMMA PoolType ==
  /\ \A f \in Pools : DOMAIN f \subseteq Nat /\ f = [b \in DOMAIN f |-> f[b]]
                      /\ \A b \in DOMAIN f : f[b] \in Results
  /\ \A D \in SUBSET Nat : [D -> Results] \subseteq Pools
BY DEF Pools

LEMMA NothingInPool == <<>> \in Pools /\ DOMAIN <<>> = {}
<1>1. <<>> \in [{} -> Results]
  OBVIOUS
<1>2. {} \in SUBSET Nat
  OBVIOUS
<1> QED
  BY <1>1, <1>2, PoolType

LEMMA PartsType == Parts \in Nat
BY ExportAssumption DEF Parts

LEMMA ExportInitial == ExportInit => ExportInv
<1> SUFFICES ASSUME ExportInit PROVE ExportInv
  OBVIOUS
<1>1. NoExporter \in Exporter /\ NoExporter.pc = "idle" /\ NoExporter.mode = Absent
      /\ NoExporter.futures = <<>> /\ NoExporter.next = 1
  BY NothingInPool DEF NoExporter, Exporter, ExportSteps, Over
<1>2. Empty \in Generation /\ ~Empty.manifest
  BY DEF Empty, Generation
<1>3. \A e \in Exports : exporter[e] = NoExporter /\ generation[e] = Empty /\ content[e] = Absent
  BY DEF ExportInit
<1>4. ExportTypeOK
  BY <1>1, <1>2 DEF ExportInit, ExportTypeOK, Contents
<1>5. StagesInv
  BY <1>1, <1>2, <1>3, NothingInPool DEF StagesInv, Stages, Building, Manifesting, Flat
<1>6. FilesInv
  BY <1>1, <1>3, ExportAssumption DEF FilesInv, ExportInit, Fresh
<1>7. AloneInv
  BY <1>1, <1>3 DEF AloneInv, ExportInit, Running
<1> QED
  BY <1>4, <1>5, <1>6, <1>7 DEF ExportInv

-----------------------------------------------------------------------------
(* What the actions do to the exporter that takes them, field by field.      *)
Others(e) == \A d \in Exports : d # e => exporter'[d] = exporter[d]
Moved(e, pc) ==
  /\ Others(e) /\ exporter'[e].pc = pc
  /\ exporter'[e].mode = exporter[e].mode /\ exporter'[e].next = exporter[e].next
  /\ exporter'[e].futures = exporter[e].futures /\ exporter'[e].file = exporter[e].file
Pooled(e, futures) ==
  /\ Others(e) /\ exporter'[e].futures = futures
  /\ exporter'[e].mode = exporter[e].mode /\ exporter'[e].file = exporter[e].file

LEMMA GotoMoves ==
  ASSUME ExportTypeOK, NEW e \in Exports, NEW pc \in ExportSteps, Goto(e, pc)
  PROVE  exporter' \in [Exports -> Exporter] /\ Moved(e, pc)
BY DEF Goto, ExportTypeOK, Exporter, Moved, Others

LEMMA PoolMoves ==
  ASSUME ExportTypeOK, NEW e \in Exports, NEW futures \in Pools,
         exporter' = [exporter EXCEPT ![e].futures = futures]
  PROVE  /\ exporter' \in [Exports -> Exporter] /\ Pooled(e, futures)
         /\ exporter'[e].pc = exporter[e].pc /\ exporter'[e].next = exporter[e].next
BY DEF ExportTypeOK, Exporter, Pooled, Others

LEMMA FieldTypes ==
  ASSUME NEW f \in [Exports -> Exporter], NEW e \in Exports
  PROVE  /\ \A futures \in Pools : [f EXCEPT ![e].futures = futures] \in [Exports -> Exporter]
         /\ \A pc \in ExportSteps : [f EXCEPT ![e].pc = pc] \in [Exports -> Exporter]
         /\ \A file \in Exports : [f EXCEPT ![e].file = file] \in [Exports -> Exporter]
         /\ \A mode \in {"single", "several"} : [f EXCEPT ![e].mode = mode] \in [Exports -> Exporter]
         /\ \A n \in Nat : [f EXCEPT ![e].next = n] \in [Exports -> Exporter]
BY DEF Exporter

LEMMA TwoMove ==
  ASSUME ExportTypeOK, NEW e \in Exports, NEW futures \in Pools, NEW pc \in ExportSteps,
         exporter' = [exporter EXCEPT ![e].futures = futures, ![e].pc = pc]
  PROVE  /\ exporter' \in [Exports -> Exporter] /\ Pooled(e, futures)
         /\ exporter'[e].pc = pc /\ exporter'[e].next = exporter[e].next
<1>1. exporter \in [Exports -> Exporter]
  BY DEF ExportTypeOK
<1>2. [exporter EXCEPT ![e].futures = futures] \in [Exports -> Exporter]
  BY <1>1, FieldTypes
<1>3. [exporter EXCEPT ![e].futures = futures, ![e].pc = pc] \in [Exports -> Exporter]
  BY <1>2, FieldTypes, Zenon
<1>4. Others(e) /\ exporter'[e] = [exporter[e] EXCEPT !.futures = futures, !.pc = pc]
  BY <1>1 DEF Others
<1>5. /\ exporter'[e].futures = futures /\ exporter'[e].pc = pc
      /\ exporter'[e].next = exporter[e].next /\ exporter'[e].mode = exporter[e].mode
      /\ exporter'[e].file = exporter[e].file
  BY <1>1, <1>4 DEF Exporter
<1> QED
  BY <1>3, <1>4, <1>5 DEF Pooled

LEMMA SubmitMoves ==
  ASSUME ExportTypeOK, NEW e \in Exports, Submit(e)
  PROVE  /\ exporter' \in [Exports -> Exporter]
         /\ exporter'[e].pc = exporter[e].pc /\ exporter'[e].next = exporter[e].next + 1
         /\ Pooled(e, [b \in DOMAIN Futures(e) \cup {exporter[e].next} |->
                         IF b \in DOMAIN Futures(e) THEN Futures(e)[b] ELSE "queued"])
<1> DEFINE futures == [b \in DOMAIN Futures(e) \cup {exporter[e].next} |->
                         IF b \in DOMAIN Futures(e) THEN Futures(e)[b] ELSE "queued"]
<1>1. Futures(e) \in Pools /\ exporter[e].next \in Nat /\ Futures(e) = exporter[e].futures
  BY DEF ExportTypeOK, Exporter, Futures
<1>2. futures \in Pools
  <2> DEFINE D == DOMAIN Futures(e) \cup {exporter[e].next}
  <2>1. D \in SUBSET Nat
    BY <1>1, PoolType
  <2>2. futures \in [D -> Results]
    BY <1>1, PoolType DEF Results
  <2> HIDE DEF futures, D
  <2> QED
    BY <2>1, <2>2, PoolType
<1>3. exporter' = [exporter EXCEPT ![e].next = exporter[e].next + 1, ![e].futures = futures]
  BY <1>1 DEF Submit
<1> HIDE DEF futures
<1>4. /\ exporter' \in [Exports -> Exporter] /\ Pooled(e, futures)
      /\ exporter'[e].pc = exporter[e].pc /\ exporter'[e].next = exporter[e].next + 1
  <2>1. [exporter EXCEPT ![e].next = exporter[e].next + 1] \in [Exports -> Exporter]
    BY <1>1 DEF ExportTypeOK, Exporter
  <2>2. exporter' \in [Exports -> Exporter]
    BY <2>1, <1>2, <1>3, FieldTypes, Zenon
  <2>3. exporter \in [Exports -> Exporter]
    BY DEF ExportTypeOK
  <2>4. exporter[e] \in Exporter
    BY <2>3
  <2>5. Others(e) /\ exporter'[e] = [exporter[e] EXCEPT !.next = exporter[e].next + 1, !.futures = futures]
    BY <2>3, <1>3 DEF Others
  <2>6. /\ exporter'[e].futures = futures /\ exporter'[e].next = exporter[e].next + 1
        /\ exporter'[e].pc = exporter[e].pc /\ exporter'[e].mode = exporter[e].mode
        /\ exporter'[e].file = exporter[e].file
    BY <2>4, <2>5 DEF Exporter
  <2> QED
    BY <2>2, <2>5, <2>6 DEF Pooled
<1> QED
  BY <1>4 DEF futures

LEMMA TakeMoves ==
  ASSUME ExportTypeOK, NEW e \in Exports, NEW done \in SUBSET DOMAIN Futures(e), Take(e, done)
  PROVE  /\ exporter' \in [Exports -> Exporter]
         /\ exporter'[e].next = exporter[e].next
         /\ Failed(e, done) => Pooled(e, exporter[e].futures) /\ exporter'[e].pc = "drain"
         /\ ~Failed(e, done) => Pooled(e, Without(e, done)) /\ exporter'[e].pc = exporter[e].pc
<1>1. Futures(e) \in Pools /\ exporter[e].futures = Futures(e)
  BY DEF ExportTypeOK, Exporter, Futures
<1>2. Without(e, done) \in Pools
  <2>1. DOMAIN Futures(e) \ done \in SUBSET Nat
    BY <1>1, PoolType
  <2>2. Without(e, done) \in [DOMAIN Futures(e) \ done -> Results]
    BY <1>1, PoolType DEF Without
  <2> QED
    BY <2>1, <2>2, PoolType
<1>3. CASE Failed(e, done)
  <2>1. exporter' = [exporter EXCEPT ![e].futures = exporter[e].futures, ![e].pc = "drain"]
    BY <1>3 DEF Take
  <2>2. exporter[e].futures \in Pools /\ "drain" \in ExportSteps
    BY <1>1 DEF ExportSteps
  <2>3. /\ exporter' \in [Exports -> Exporter] /\ Pooled(e, exporter[e].futures)
        /\ exporter'[e].pc = "drain" /\ exporter'[e].next = exporter[e].next
    BY <2>1, <2>2, TwoMove
  <2> QED
    BY <2>3, <1>3
<1>4. CASE ~Failed(e, done)
  <2>1. exporter' = [exporter EXCEPT ![e].futures = Without(e, done), ![e].pc = exporter[e].pc]
    BY <1>4 DEF Take
  <2>2. exporter[e].pc \in ExportSteps
    BY DEF ExportTypeOK, Exporter
  <2>3. /\ exporter' \in [Exports -> Exporter] /\ Pooled(e, Without(e, done))
        /\ exporter'[e].pc = exporter[e].pc /\ exporter'[e].next = exporter[e].next
    BY <2>1, <2>2, <1>2, TwoMove
  <2> QED
    BY <2>3, <1>4
<1> QED
  BY <1>3, <1>4

(* A future that a worker ends: the pool is still one, and what is done now
   and was not before, the worker made.                                      *)
Standing(e) ==
  /\ exporter'[e].pc = exporter[e].pc /\ exporter'[e].next = exporter[e].next
  /\ exporter'[e].mode = exporter[e].mode /\ exporter'[e].file = exporter[e].file
  /\ Others(e) /\ DOMAIN exporter'[e].futures = DOMAIN exporter[e].futures
Settled(e, made) ==
  \A c \in DOMAIN exporter[e].futures :
    exporter'[e].futures[c] = "done" => exporter[e].futures[c] = "done" \/ c \in made

LEMMA WorkerMoves ==
  ASSUME ExportTypeOK, NEW e \in Exports, WorkPool(e)
  PROVE  /\ exporter' \in [Exports -> Exporter] /\ Standing(e) /\ DOMAIN exporter[e].futures # {}
         /\ \/ \E b \in DOMAIN exporter[e].futures : Produced(e, b) /\ Settled(e, {b})
            \/ generation' = generation /\ Settled(e, {})
<1>1. Futures(e) \in Pools /\ exporter[e].futures = Futures(e)
  BY DEF ExportTypeOK, Exporter, Futures
<1>2. DOMAIN Futures(e) \in SUBSET Nat
  BY <1>1, PoolType
<1>3. ASSUME NEW b \in DOMAIN Futures(e), NEW r \in Results
      PROVE  /\ [Futures(e) EXCEPT ![b] = r] \in Pools
             /\ DOMAIN [Futures(e) EXCEPT ![b] = r] = DOMAIN Futures(e)
             /\ \A c \in DOMAIN Futures(e) :
                  [Futures(e) EXCEPT ![b] = r][c] = IF c = b THEN r ELSE Futures(e)[c]
  <2>1. [Futures(e) EXCEPT ![b] = r] \in [DOMAIN Futures(e) -> Results]
    BY <1>1, PoolType
  <2> QED
    BY <2>1, <1>2, PoolType
<1>4. \A b \in Oldest(e) : b \in DOMAIN Futures(e)
  BY DEF Oldest, Queued
<1>5. ASSUME NEW b \in DOMAIN Futures(e), NEW r \in Results,
             exporter' = [exporter EXCEPT ![e].futures[b] = r]
      PROVE  exporter' = [exporter EXCEPT ![e].futures = [Futures(e) EXCEPT ![b] = r]]
  BY <1>1, <1>5 DEF ExportTypeOK
<1>6. ASSUME NEW made, NEW futures \in Pools, DOMAIN futures = DOMAIN Futures(e),
             exporter' = [exporter EXCEPT ![e].futures = futures],
             \A c \in DOMAIN Futures(e) : futures[c] = "done" => Futures(e)[c] = "done" \/ c \in made
      PROVE  exporter' \in [Exports -> Exporter] /\ Standing(e) /\ Settled(e, made)
  <2>1. /\ exporter' \in [Exports -> Exporter] /\ Pooled(e, futures)
        /\ exporter'[e].pc = exporter[e].pc /\ exporter'[e].next = exporter[e].next
    BY <1>6, PoolMoves
  <2>2. exporter'[e].futures = futures /\ Others(e) /\ exporter'[e].mode = exporter[e].mode
        /\ exporter'[e].file = exporter[e].file
    BY <2>1 DEF Pooled
  <2> QED
    BY <2>1, <2>2, <1>1, <1>6 DEF Standing, Settled
<1>7. CASE WorkerDone(e)
  <2>1. PICK b \in DOMAIN Futures(e) :
          exporter' = [exporter EXCEPT ![e].futures[b] = "done"] /\ Produced(e, b)
    BY <1>7, <1>4 DEF WorkerDone
  <2>2. "done" \in Results
    BY DEF Results
  <2> DEFINE futures == [Futures(e) EXCEPT ![b] = "done"]
  <2>3. futures \in Pools /\ exporter' = [exporter EXCEPT ![e].futures = futures]
    BY <2>1, <2>2, <1>3, <1>5
  <2>4. \A c \in DOMAIN Futures(e) : futures[c] = "done" => Futures(e)[c] = "done" \/ c \in {b}
    BY <2>2, <1>3
  <2>5. DOMAIN futures = DOMAIN Futures(e)
    OBVIOUS
  <2> HIDE DEF futures
  <2>6. exporter' \in [Exports -> Exporter] /\ Standing(e) /\ Settled(e, {b})
    BY <2>3, <2>4, <2>5, <1>6
  <2> QED
    BY <2>1, <2>6, <1>1
<1>8. CASE WorkerFails(e)
  <2>1. PICK b \in DOMAIN Futures(e) : exporter' = [exporter EXCEPT ![e].futures[b] = "failed"]
    BY <1>8, <1>4 DEF WorkerFails
  <2>2. "failed" \in Results
    BY DEF Results
  <2> DEFINE futures == [Futures(e) EXCEPT ![b] = "failed"]
  <2>3. futures \in Pools /\ exporter' = [exporter EXCEPT ![e].futures = futures]
    BY <2>1, <2>2, <1>3, <1>5
  <2>4. \A c \in DOMAIN Futures(e) : futures[c] = "done" => Futures(e)[c] = "done" \/ c \in {}
    BY <2>2, <1>3
  <2>5. DOMAIN futures = DOMAIN Futures(e)
    OBVIOUS
  <2> HIDE DEF futures
  <2>6. exporter' \in [Exports -> Exporter] /\ Standing(e) /\ Settled(e, {})
    BY <2>3, <2>4, <2>5, <1>6
  <2>7. generation' = generation
    BY <1>8 DEF WorkerFails
  <2> QED
    BY <2>1, <2>6, <2>7, <1>1
<1>9. CASE WorkerDies(e)
  <2> DEFINE futures == [b \in DOMAIN Futures(e) |->
                           IF Futures(e)[b] = "queued" THEN "lost" ELSE Futures(e)[b]]
  <2>1. futures \in [DOMAIN Futures(e) -> Results]
    BY <1>1, PoolType DEF Results
  <2>2. futures \in Pools
    BY <2>1, <1>2, PoolType
  <2>3. exporter' = [exporter EXCEPT ![e].futures = futures] /\ generation' = generation
    BY <1>9, <1>1 DEF WorkerDies
  <2>4. DOMAIN Futures(e) # {}
    BY <1>9 DEF WorkerDies, Queued
  <2>5. \A c \in DOMAIN Futures(e) : futures[c] = "done" => Futures(e)[c] = "done" \/ c \in {}
    OBVIOUS
  <2>6. DOMAIN futures = DOMAIN Futures(e)
    OBVIOUS
  <2> HIDE DEF futures
  <2>7. exporter' \in [Exports -> Exporter] /\ Standing(e) /\ Settled(e, {})
    BY <2>2, <2>3, <2>5, <2>6, <1>6
  <2> QED
    BY <2>3, <2>4, <2>7, <1>1
<1> QED
  BY <1>7, <1>8, <1>9 DEF WorkPool

(* A worker adds its spool or its shard, and nothing else.                   *)
LEMMA ProducedMoves ==
  ASSUME ExportTypeOK, NEW e \in Exports, NEW b \in Nat, Produced(e, b)
  PROVE  /\ generation' \in [Exports -> Generation]
         /\ \A d \in Exports : d # e => generation'[d] = generation[d]
         /\ generation'[e].registry = generation[e].registry
         /\ generation'[e].staged = generation[e].staged
         /\ generation'[e].manifest = generation[e].manifest
         /\ ~generation[e].staged =>
              /\ generation'[e].spools = generation[e].spools \cup {b}
              /\ generation'[e].shards = generation[e].shards
         /\ generation[e].staged =>
              /\ generation'[e].spools = generation[e].spools
              /\ generation'[e].shards = generation[e].shards \cup {b}
<1>1. CASE ~generation[e].staged
  <2>1. generation' = [generation EXCEPT ![e].spools = generation[e].spools \cup {b}]
    BY <1>1 DEF Produced
  <2> QED
    BY <1>1, <2>1 DEF ExportTypeOK, Generation
<1>2. CASE generation[e].staged
  <2>1. generation' = [generation EXCEPT ![e].shards = generation[e].shards \cup {b}]
    BY <1>2 DEF Produced
  <2> QED
    BY <1>2, <2>1 DEF ExportTypeOK, Generation
<1> QED
  BY <1>1, <1>2

(* The coordinator's own steps: where they lead, and what they make.         *)
Plain(e) ==
  SubmitRefused(e) \/ EndPool(e) \/ Drain(e) \/ MergeProjection(e) \/ BuildRegistry(e)
  \/ WriteTemporary(e) \/ RenameTemporary(e) \/ LoadManifest(e) \/ WriteFiles(e) \/ FilesWritten(e)
  \/ PublishFiles(e) \/ ExportFails(e) \/ KillExport(e)

LEMMA PlainMoves ==
  ASSUME ExportTypeOK, NEW e \in Exports, Plain(e)
  PROVE  \E pc \in ExportSteps : Goto(e, pc)
<1>1. CASE EndPool(e) \/ Drain(e) \/ MergeProjection(e) \/ BuildRegistry(e) \/ WriteTemporary(e)
  BY <1>1 DEF EndPool, Drain, MergeProjection, BuildRegistry, WriteTemporary, Fail, ExportSteps, Over,
              Building, Manifesting
<1>2. CASE RenameTemporary(e) \/ LoadManifest(e) \/ WriteFiles(e) \/ FilesWritten(e) \/ PublishFiles(e)
  BY <1>2 DEF RenameTemporary, LoadManifest, WriteFiles, FilesWritten, PublishFiles, Fail, ExportSteps,
              Over, Manifesting, Flat
<1>3. CASE SubmitRefused(e) \/ ExportFails(e) \/ KillExport(e)
  BY <1>3 DEF SubmitRefused, ExportFails, KillExport, ExportSteps, Over, Building
<1> QED
  BY <1>1, <1>2, <1>3 DEF Plain

LEMMA OpenMoves ==
  ASSUME ExportTypeOK, NEW e \in Exports, OpenTemporary(e)
  PROVE  LET file == IF temporary = Absent THEN e ELSE temporary IN
         /\ file \in Exports
         /\ exporter' \in [Exports -> Exporter] /\ Others(e)
         /\ exporter'[e].pc = "write" /\ exporter'[e].file = file
         /\ exporter'[e].mode = exporter[e].mode /\ exporter'[e].next = exporter[e].next
         /\ exporter'[e].futures = exporter[e].futures
         /\ temporary' = file /\ content' = [content EXCEPT ![file] = Torn]
<1> DEFINE file == IF temporary = Absent THEN e ELSE temporary
<1>1. file \in Exports
  BY DEF ExportTypeOK
<1>2. /\ temporary' = file /\ content' = [content EXCEPT ![file] = Torn]
      /\ exporter' = [exporter EXCEPT ![e].pc = "write", ![e].file = file]
  BY DEF OpenTemporary
<1> HIDE DEF file
<1>3. exporter \in [Exports -> Exporter] /\ "write" \in ExportSteps
  BY DEF ExportTypeOK, ExportSteps, Manifesting
<1>4. [exporter EXCEPT ![e].pc = "write"] \in [Exports -> Exporter]
  BY <1>3, FieldTypes, Zenon
<1>5. [exporter EXCEPT ![e].pc = "write", ![e].file = file] \in [Exports -> Exporter]
  BY <1>1, <1>4, FieldTypes, Zenon
<1>6. Others(e) /\ exporter'[e] = [exporter[e] EXCEPT !.pc = "write", !.file = file]
  BY <1>2, <1>3 DEF Others
<1>7. /\ exporter'[e].pc = "write" /\ exporter'[e].file = file
      /\ exporter'[e].mode = exporter[e].mode /\ exporter'[e].next = exporter[e].next
      /\ exporter'[e].futures = exporter[e].futures
  BY <1>3, <1>6 DEF Exporter
<1>8. exporter' \in [Exports -> Exporter]
  BY <1>2, <1>5
<1> QED
  BY <1>1, <1>2, <1>6, <1>7, <1>8 DEF file

LEMMA BeginMoves ==
  ASSUME ExportTypeOK, NEW e \in Exports, BeginExport(e)
  PROVE  /\ exporter' \in [Exports -> Exporter] /\ Others(e)
         /\ exporter'[e].next = exporter[e].next /\ exporter'[e].futures = exporter[e].futures
         /\ \/ exporter'[e].mode = "single" /\ exporter'[e].pc = "extract"
            \/ exporter'[e].mode = "several" /\ exporter'[e].pc = "files"
<1>1. PICK mode \in {"single", "several"} :
        exporter' = [exporter EXCEPT ![e].mode = mode,
                                     ![e].pc = IF mode = "single" THEN "extract" ELSE "files"]
  BY DEF BeginExport
<1>2. PICK pc \in ExportSteps :
        /\ pc = (IF mode = "single" THEN "extract" ELSE "files")
        /\ exporter' = [exporter EXCEPT ![e].mode = mode, ![e].pc = pc]
  BY <1>1 DEF ExportSteps, Building, Flat
<1>3. exporter \in [Exports -> Exporter]
  BY DEF ExportTypeOK
<1>4. [exporter EXCEPT ![e].mode = mode] \in [Exports -> Exporter]
  BY <1>3, FieldTypes, Zenon
<1>5. [exporter EXCEPT ![e].mode = mode, ![e].pc = pc] \in [Exports -> Exporter]
  BY <1>4, FieldTypes, Zenon
<1>6. Others(e) /\ exporter'[e] = [exporter[e] EXCEPT !.mode = mode, !.pc = pc]
  BY <1>2, <1>3 DEF Others
<1>7. /\ exporter'[e].mode = mode /\ exporter'[e].pc = pc
      /\ exporter'[e].next = exporter[e].next /\ exporter'[e].futures = exporter[e].futures
  BY <1>3, <1>6 DEF Exporter
<1> QED
  BY <1>2, <1>5, <1>6, <1>7

LEMMA StageMoves ==
  ASSUME ExportTypeOK, NEW e \in Exports, StageSearch(e)
  PROVE  /\ exporter' \in [Exports -> Exporter] /\ Others(e)
         /\ exporter'[e].pc = "project" /\ exporter'[e].next = 1 /\ exporter'[e].futures = <<>>
         /\ exporter'[e].mode = exporter[e].mode /\ exporter'[e].file = exporter[e].file
<1>1. exporter' = [exporter EXCEPT ![e].pc = "project", ![e].next = 1, ![e].futures = <<>>]
  BY DEF StageSearch, ToPool
<1>2. exporter \in [Exports -> Exporter] /\ "project" \in ExportSteps
  BY DEF ExportTypeOK, ExportSteps, Building
<1>3. [exporter EXCEPT ![e].pc = "project"] \in [Exports -> Exporter]
  BY <1>2, FieldTypes, Zenon
<1>4. [exporter EXCEPT ![e].pc = "project", ![e].next = 1] \in [Exports -> Exporter]
  <2>1. 1 \in Nat
    OBVIOUS
  <2> QED
    BY <1>3, <2>1, FieldTypes, Zenon
<1>5. [exporter EXCEPT ![e].pc = "project", ![e].next = 1, ![e].futures = <<>>] \in [Exports -> Exporter]
  BY <1>4, NothingInPool, FieldTypes, Zenon
<1>6. Others(e) /\ exporter'[e] = [exporter[e] EXCEPT !.pc = "project", !.next = 1, !.futures = <<>>]
  BY <1>1, <1>2 DEF Others
<1>7. /\ exporter'[e].pc = "project" /\ exporter'[e].next = 1 /\ exporter'[e].futures = <<>>
      /\ exporter'[e].mode = exporter[e].mode /\ exporter'[e].file = exporter[e].file
  BY <1>2, <1>6 DEF Exporter
<1> QED
  BY <1>1, <1>5, <1>6, <1>7

-----------------------------------------------------------------------------
LEMMA WorkIs ==
  ASSUME ExportTypeOK, NEW e \in Exports
  PROVE  /\ Futures(e) = exporter[e].futures /\ Futures(e) \in Pools
         /\ DOMAIN Futures(e) \subseteq Nat /\ exporter[e].next \in Nat
         /\ \A b \in DOMAIN Futures(e) : Futures(e)[b] \in Results
BY PoolType DEF ExportTypeOK, Exporter, Futures

(* Wait and TakeLast take futures that are not queued.                       *)
LEMMA Taken ==
  ASSUME NEW e \in Exports, Wait(e) \/ TakeLast(e)
  PROVE  /\ InPool(e) /\ generation' = generation
         /\ \E done \in SUBSET DOMAIN Futures(e) : Take(e, done) /\ done \cap Queued(e) = {}
<1>1. CASE Wait(e)
  <2>1. InPool(e) /\ generation' = generation /\ Take(e, DOMAIN Futures(e) \ Queued(e))
    BY <1>1 DEF Wait
  <2>2. /\ DOMAIN Futures(e) \ Queued(e) \in SUBSET DOMAIN Futures(e)
        /\ (DOMAIN Futures(e) \ Queued(e)) \cap Queued(e) = {}
    OBVIOUS
  <2> QED
    BY <2>1, <2>2, Zenon
<1>2. CASE TakeLast(e)
  <2>1. PICK b \in DOMAIN Futures(e) \ Queued(e) : Take(e, {b})
    BY <1>2 DEF TakeLast
  <2>2. {b} \in SUBSET DOMAIN Futures(e) /\ {b} \cap Queued(e) = {}
    OBVIOUS
  <2>3. InPool(e) /\ generation' = generation
    BY <1>2 DEF TakeLast
  <2> QED
    BY <2>1, <2>2, <2>3, Zenon
<1> QED
  BY <1>1, <1>2

LEMMA ExportTypeStep == ExportTypeOK /\ [ExportNext]_exportVars => ExportTypeOK'
<1> SUFFICES ASSUME ExportTypeOK, [ExportNext]_exportVars PROVE ExportTypeOK'
  OBVIOUS
<1>1. ASSUME NEW e \in Exports, Submit(e) \/ Wait(e) \/ TakeLast(e) \/ BeginExport(e) PROVE ExportTypeOK'
  <2>1. exporter' \in [Exports -> Exporter]
    BY <1>1, SubmitMoves, TakeMoves, Taken, BeginMoves
  <2>2. generation' = generation /\ SameFiles
    BY <1>1 DEF Submit, Wait, TakeLast, BeginExport
  <2> QED
    BY <2>1, <2>2 DEF ExportTypeOK, SameFiles
<1>2. ASSUME NEW e \in Exports, WorkPool(e) PROVE ExportTypeOK'
  <2>1. exporter' \in [Exports -> Exporter]
    BY <1>2, WorkerMoves
  <2>2. generation' \in [Exports -> Generation]
    <3>1. CASE generation' = generation
      BY <3>1 DEF ExportTypeOK
    <3>2. CASE \E b \in DOMAIN exporter[e].futures : Produced(e, b)
      BY <3>2, WorkIs, ProducedMoves
    <3> QED
      BY <3>1, <3>2, <1>2, WorkerMoves
  <2>3. SameFiles
    BY <1>2 DEF WorkPool, WorkerDone, WorkerFails, WorkerDies
  <2> QED
    BY <2>1, <2>2, <2>3 DEF ExportTypeOK, SameFiles
<1>3. ASSUME NEW e \in Exports, StageSearch(e) PROVE ExportTypeOK'
  <2>1. exporter' \in [Exports -> Exporter]
    BY <1>3, StageMoves
  <2>2. generation' \in [Exports -> Generation]
    BY <1>3 DEF StageSearch, ExportTypeOK, Generation
  <2> QED
    BY <1>3, <2>1, <2>2 DEF StageSearch, ExportTypeOK, SameFiles
<1>4. ASSUME NEW e \in Exports, Plain(e) PROVE ExportTypeOK'
  <2>1. exporter' \in [Exports -> Exporter]
    BY <1>4, PlainMoves, GotoMoves
  <2>2. generation' \in [Exports -> Generation]
    <3>1. CASE BuildRegistry(e)
      BY <3>1 DEF BuildRegistry, ExportTypeOK, Generation
    <3>2. CASE MergeProjection(e)
      BY <3>2 DEF MergeProjection, ExportTypeOK, Generation
    <3>3. CASE generation' = generation
      BY <3>3 DEF ExportTypeOK
    <3> QED
      BY <1>4, <3>1, <3>2, <3>3 DEF Plain, SubmitRefused, EndPool, Drain, WriteTemporary, RenameTemporary, LoadManifest,
                                    WriteFiles, FilesWritten, PublishFiles, ExportFails, KillExport
  <2>3. content' \in [Exports -> Contents]
    <3>1. content' = content \/ \E f, d \in Exports : content' = [content EXCEPT ![f] = d] \/ WriteTemporary(e)
      BY <1>4 DEF Plain, SubmitRefused, EndPool, Drain, MergeProjection, BuildRegistry, RenameTemporary, LoadManifest,
                  WriteFiles, FilesWritten, PublishFiles, ExportFails, KillExport, SameFiles
    <3>2. ASSUME WriteTemporary(e) PROVE content' \in [Exports -> Contents]
      BY <3>2 DEF WriteTemporary, ExportTypeOK, Contents
    <3> QED
      BY <3>1, <3>2 DEF ExportTypeOK, Contents
  <2>4. temporary' \in Exports \cup {Absent} /\ top' \in Exports \cup {Absent} /\ alone' \in BOOLEAN
    BY <1>4 DEF ExportTypeOK, Plain, SubmitRefused, EndPool, Drain, MergeProjection, BuildRegistry, WriteTemporary,
                RenameTemporary, LoadManifest, WriteFiles, FilesWritten, PublishFiles, ExportFails,
                KillExport, SameFiles
  <2> QED
    BY <2>1, <2>2, <2>3, <2>4 DEF ExportTypeOK
<1>5. ASSUME NEW e \in Exports, OpenTemporary(e) PROVE ExportTypeOK'
  <2>1. PICK file \in Exports : temporary' = file /\ content' = [content EXCEPT ![file] = Torn]
    BY <1>5, OpenMoves
  <2>2. exporter' \in [Exports -> Exporter]
    BY <1>5, OpenMoves
  <2> QED
    BY <1>5, <2>1, <2>2 DEF OpenTemporary, ExportTypeOK, Contents
<1>6. CASE UNCHANGED exportVars
  BY <1>6 DEF exportVars, ExportTypeOK
<1> QED
  BY <1>1, <1>2, <1>3, <1>4, <1>5, <1>6 DEF ExportNext, Coordinate, Plain

-----------------------------------------------------------------------------
(* The pool: whatever its coordinator and its workers do, nothing that was
   submitted is forgotten.                                                   *)
LEMMA ProgressSubmit ==
  ASSUME ExportTypeOK, NEW e \in Exports, Submit(e), NEW made, NEW n \in Nat,
         Progress(exporter[e], made, n), exporter[e].next \in 1..n
  PROVE  Progress(exporter'[e], made, n)
<1>1. DOMAIN exporter[e].futures \subseteq Nat /\ exporter[e].next \in Nat
      /\ exporter[e].futures = Futures(e)
  BY WorkIs
<1>2. exporter'[e].next = exporter[e].next + 1
  BY SubmitMoves
<1>3. /\ DOMAIN exporter'[e].futures = DOMAIN exporter[e].futures \cup {exporter[e].next}
      /\ exporter'[e].futures[exporter[e].next] =
           IF exporter[e].next \in DOMAIN Futures(e) THEN Futures(e)[exporter[e].next] ELSE "queued"
      /\ \A b \in DOMAIN exporter[e].futures : exporter'[e].futures[b] = exporter[e].futures[b]
  BY <1>1, SubmitMoves DEF Pooled
<1>4. exporter[e].next \notin DOMAIN exporter[e].futures
  BY <1>1 DEF Progress
<1>5. exporter'[e].next \in 1 .. n + 1
  BY <1>1, <1>2
<1>6. DOMAIN exporter'[e].futures \subseteq 1 .. exporter'[e].next - 1
  BY <1>1, <1>2, <1>3 DEF Progress
<1>7. ASSUME NEW b \in 1 .. exporter'[e].next - 1
      PROVE  b \in made \/ (b \in DOMAIN exporter'[e].futures /\ exporter'[e].futures[b] # "done")
  <2>1. CASE b = exporter[e].next
    BY <2>1, <1>1, <1>3, <1>4
  <2>2. CASE b # exporter[e].next
    <3>1. b \in 1 .. exporter[e].next - 1
      BY <2>2, <1>1, <1>2
    <3> QED
      BY <3>1, <1>3 DEF Progress
  <2> QED
    BY <2>1, <2>2
<1> QED
  BY <1>5, <1>6, <1>7 DEF Progress

LEMMA ProgressTake ==
  ASSUME ExportTypeOK, NEW e \in Exports, NEW done \in SUBSET DOMAIN Futures(e), Take(e, done),
         done \cap Queued(e) = {}, ~Failed(e, done), NEW made, NEW n \in Nat,
         Progress(exporter[e], made, n)
  PROVE  Progress(exporter'[e], made, n)
<1>1. /\ Futures(e) = exporter[e].futures
      /\ \A b \in DOMAIN Futures(e) : Futures(e)[b] \in Results
  BY WorkIs
<1>2. exporter'[e].next = exporter[e].next /\ exporter'[e].futures = Without(e, done)
  BY TakeMoves DEF Pooled
<1>3. \A b \in done : Futures(e)[b] = "done"
  BY <1>1 DEF Queued, Failed, Results
<1>4. /\ DOMAIN exporter'[e].futures = DOMAIN exporter[e].futures \ done
      /\ \A b \in DOMAIN exporter'[e].futures : exporter'[e].futures[b] = exporter[e].futures[b]
  BY <1>1, <1>2 DEF Without
<1> QED
  BY <1>1, <1>2, <1>3, <1>4 DEF Progress

LEMMA ProgressFailed ==
  ASSUME NEW e \in Exports, Standing(e), Settled(e, {}), NEW made, NEW n \in Nat, Progress(exporter[e], made, n)
  PROVE  Progress(exporter'[e], made, n)
<1>1. exporter'[e].next = exporter[e].next /\ DOMAIN exporter'[e].futures = DOMAIN exporter[e].futures
  BY DEF Standing
<1>2. \A c \in DOMAIN exporter[e].futures :
        exporter'[e].futures[c] = "done" => exporter[e].futures[c] = "done"
  BY DEF Settled
<1> QED
  BY <1>1, <1>2 DEF Progress

LEMMA ProgressDone ==
  ASSUME NEW e \in Exports, Standing(e), NEW b \in DOMAIN exporter[e].futures, Settled(e, {b}),
         NEW made, NEW n \in Nat, exporter[e].next \in Nat, Progress(exporter[e], made, n)
  PROVE  Progress(exporter'[e], made \cup {b}, n)
<1>1. exporter'[e].next = exporter[e].next /\ DOMAIN exporter'[e].futures = DOMAIN exporter[e].futures
  BY DEF Standing
<1>2. \A c \in DOMAIN exporter[e].futures :
        exporter'[e].futures[c] = "done" => exporter[e].futures[c] = "done" \/ c = b
  BY DEF Settled
<1>3. b \in 1..n
  <2>1. b \in 1 .. exporter[e].next - 1 /\ exporter[e].next \in 1 .. n + 1
    BY DEF Progress
  <2> QED
    BY <2>1
<1>4. made \cup {b} \subseteq 1..n
  BY <1>3 DEF Progress
<1> QED
  BY <1>1, <1>2, <1>4 DEF Progress

(* The pool of an export is at its end when nothing is left to submit or to
   take: then everything is made.                                            *)
LEMMA ProgressEnd ==
  ASSUME NEW x, NEW made, NEW n \in Nat, x.next \in Nat, Progress(x, made, n), x.next \notin 1..n,
         DOMAIN x.futures = {}
  PROVE  made = 1..n
<1>1. x.next = n + 1
  BY DEF Progress
<1>2. \A b \in 1..n : b \in made
  BY <1>1 DEF Progress
<1> QED
  BY <1>2 DEF Progress

LEMMA ProgressBegin ==
  ASSUME NEW x, x.next = 1, DOMAIN x.futures = {}, NEW n \in Nat
  PROVE  Progress(x, {}, n)
BY DEF Progress

-----------------------------------------------------------------------------
(* How far each export has come: only the one that takes a step moves.       *)
LEMMA StagesOnly ==
  ASSUME StagesInv, NEW e \in Exports, Others(e),
         \A d \in Exports : d # e => generation'[d] = generation[d],
         Stages(exporter'[e], generation'[e])
  PROVE  StagesInv'
<1> SUFFICES ASSUME NEW d \in Exports PROVE Stages(exporter'[d], generation'[d])
  BY DEF StagesInv
<1>1. CASE d = e
  BY <1>1
<1>2. CASE d # e
  <2>1. exporter'[d] = exporter[d] /\ generation'[d] = generation[d]
    BY <1>2 DEF Others
  <2>2. Stages(exporter[d], generation[d])
    BY DEF StagesInv
  <2> QED
    BY <2>1, <2>2
<1> QED
  BY <1>1, <1>2

(* What Stages says when the export stops: nothing but what its manifest
   would say.                                                                *)
LEMMA StagesStop ==
  ASSUME NEW x, NEW y, NEW g, Stages(x, g), y.pc \in {"done", "failed", "killed", "drain"},
         y.futures = x.futures
  PROVE  Stages(y, g)
BY DEF Stages, Building, Manifesting, Flat

LEMMA StagesPool ==
  ASSUME ExportTypeOK, StagesInv, NEW e \in Exports, Submit(e) \/ Wait(e) \/ TakeLast(e)
  PROVE  StagesInv'
<1>1. /\ InPool(e) /\ exporter[e].pc \in {"extract", "project"} /\ generation' = generation
      /\ Stages(exporter[e], generation[e]) /\ Futures(e) = exporter[e].futures
  BY WorkIs DEF Submit, Wait, TakeLast, InPool, StagesInv
<1>2. ASSUME NEW made, NEW n \in Nat, Progress(exporter[e], made, n), Work(exporter[e].pc) = 1..n,
             exporter'[e].pc # "drain"
      PROVE  Progress(exporter'[e], made, n)
  <2>1. CASE Submit(e)
    <3>1. exporter[e].next \in 1..n
      BY <2>1, <1>2 DEF Submit
    <3> QED
      BY <2>1, <3>1, <1>2, ProgressSubmit
  <2>2. CASE Wait(e) \/ TakeLast(e)
    <3>1. PICK done \in SUBSET DOMAIN Futures(e) : Take(e, done) /\ done \cap Queued(e) = {}
      BY <2>2, Taken
    <3>2. ~Failed(e, done)
      BY <3>1, <1>2, TakeMoves
    <3> QED
      BY <3>1, <3>2, <1>2, ProgressTake
  <2> QED
    BY <2>1, <2>2
<1>3. \/ exporter'[e].pc = exporter[e].pc
      \/ exporter'[e].pc = "drain" /\ exporter'[e].futures = exporter[e].futures
  <2>1. CASE Submit(e)
    BY <2>1, SubmitMoves
  <2>2. CASE Wait(e) \/ TakeLast(e)
    <3>1. PICK done \in SUBSET DOMAIN Futures(e) : Take(e, done)
      BY <2>2, Taken
    <3> QED
      BY <3>1, TakeMoves DEF Pooled
  <2> QED
    BY <2>1, <2>2
<1>4. Others(e) /\ exporter'[e].mode = exporter[e].mode
  <2>1. CASE Submit(e)
    BY <2>1, SubmitMoves DEF Pooled
  <2>2. CASE Wait(e) \/ TakeLast(e)
    <3>1. PICK done \in SUBSET DOMAIN Futures(e) : Take(e, done)
      BY <2>2, Taken
    <3> QED
      BY <3>1, TakeMoves DEF Pooled
  <2> QED
    BY <2>1, <2>2
<1>5. Stages(exporter'[e], generation[e])
  <2>1. CASE exporter'[e].pc = "drain"
    BY <2>1, <1>1, <1>3, StagesStop
  <2>2. CASE exporter'[e].pc = "extract"
    <3>1. exporter[e].pc = "extract" /\ Work(exporter[e].pc) = 1..Batches /\ Batches \in Nat
      BY <2>2, <1>3, ExportAssumption DEF Work
    <3>2. Progress(exporter[e], generation[e].spools, Batches)
      BY <1>1, <3>1 DEF Stages
    <3>3. Progress(exporter'[e], generation[e].spools, Batches)
      BY <2>2, <3>1, <3>2, <1>2
    <3> QED
      BY <1>1, <1>4, <2>2, <3>1, <3>3 DEF Stages, Building, Manifesting, Flat
  <2>3. CASE exporter'[e].pc = "project"
    <3>1. exporter[e].pc = "project" /\ Work(exporter[e].pc) = 1..Parts /\ Parts \in Nat
      BY <2>3, <1>3, PartsType DEF Work
    <3>2. Progress(exporter[e], generation[e].shards, Parts)
      BY <1>1, <3>1 DEF Stages
    <3>3. Progress(exporter'[e], generation[e].shards, Parts)
      BY <2>3, <3>1, <3>2, <1>2
    <3> QED
      BY <1>1, <1>4, <2>3, <3>1, <3>3 DEF Stages, Building, Manifesting, Flat
  <2> QED
    BY <2>1, <2>2, <2>3, <1>1, <1>3
<1> QED
  BY <1>1, <1>4, <1>5, StagesOnly

LEMMA StagesWork ==
  ASSUME ExportTypeOK, StagesInv, NEW e \in Exports, WorkPool(e)
  PROVE  StagesInv'
<1>1. /\ Stages(exporter[e], generation[e]) /\ DOMAIN exporter[e].futures \subseteq Nat
      /\ exporter[e].next \in Nat
  BY WorkIs DEF StagesInv
<1>2. Standing(e) /\ DOMAIN exporter[e].futures # {}
  BY WorkerMoves
<1>3. /\ Others(e) /\ exporter'[e].pc = exporter[e].pc /\ exporter'[e].mode = exporter[e].mode
      /\ DOMAIN exporter'[e].futures = DOMAIN exporter[e].futures
  BY <1>2 DEF Standing
<1>4. ~generation[e].manifest
      /\ exporter[e].pc \notin {"idle", "registry", "stage", "merge"} \cup Manifesting
  BY <1>1, <1>2 DEF Stages
<1>5. Batches \in Nat /\ Parts \in Nat
  BY ExportAssumption, PartsType
<1>6. CASE generation' = generation /\ Settled(e, {})
  <2>1. exporter[e].pc = "extract" => Progress(exporter'[e], generation[e].spools, Batches)
    BY <1>1, <1>2, <1>5, <1>6, ProgressFailed DEF Stages
  <2>2. exporter[e].pc = "project" => Progress(exporter'[e], generation[e].shards, Parts)
    BY <1>1, <1>2, <1>5, <1>6, ProgressFailed DEF Stages
  <2>3. Stages(exporter'[e], generation[e])
    BY <1>1, <1>3, <1>4, <2>1, <2>2 DEF Stages, Building
  <2> QED
    BY <1>3, <1>6, <2>3, StagesOnly
<1>7. ASSUME NEW b \in DOMAIN exporter[e].futures, Produced(e, b), Settled(e, {b}) PROVE StagesInv'
  <2>1. b \in Nat
    BY <1>1
  <2>2. /\ \A d \in Exports : d # e => generation'[d] = generation[d]
        /\ generation'[e].registry = generation[e].registry
        /\ generation'[e].staged = generation[e].staged
        /\ generation'[e].manifest = generation[e].manifest
    BY <1>7, <2>1, ProducedMoves
  <2>3. CASE exporter[e].pc = "extract"
    <3>1. ~generation[e].staged /\ generation[e].registry = {} /\ generation[e].shards = {}
      BY <2>3, <1>1 DEF Stages
    <3>2. generation'[e].spools = generation[e].spools \cup {b} /\ generation'[e].shards = {}
      BY <3>1, <1>7, <2>1, ProducedMoves
    <3>3. Progress(exporter[e], generation[e].spools, Batches)
      BY <2>3, <1>1 DEF Stages
    <3>4. Progress(exporter'[e], generation'[e].spools, Batches)
      <4>1. Progress(exporter'[e], generation[e].spools \cup {b}, Batches)
        BY <3>3, <1>1, <1>2, <1>5, <1>7, ProgressDone
      <4> QED
        BY <3>2, <4>1
    <3>5. Stages(exporter'[e], generation'[e])
      BY <1>1, <1>3, <1>4, <2>2, <2>3, <3>1, <3>2, <3>4 DEF Stages, Building, Manifesting, Flat
    <3> QED
      BY <1>3, <2>2, <3>5, StagesOnly
  <2>4. CASE exporter[e].pc = "project"
    <3>1. /\ generation[e].registry = All /\ generation[e].spools = All /\ generation[e].staged
          /\ Progress(exporter[e], generation[e].shards, Parts)
      BY <2>4, <1>1 DEF Stages
    <3>2. generation'[e].spools = All /\ generation'[e].shards = generation[e].shards \cup {b}
      BY <3>1, <1>7, <2>1, ProducedMoves
    <3>3. Progress(exporter'[e], generation'[e].shards, Parts)
      BY <3>1, <3>2, <1>1, <1>2, <1>5, <1>7, ProgressDone
    <3>4. Stages(exporter'[e], generation'[e])
      BY <1>1, <1>3, <1>4, <2>2, <2>4, <3>1, <3>2, <3>3 DEF Stages, Building, Manifesting, Flat
    <3> QED
      BY <1>3, <2>2, <3>4, StagesOnly
  <2>5. CASE exporter[e].pc \notin {"extract", "project"}
    <3>1. Stages(exporter'[e], generation'[e])
      BY <1>1, <1>3, <1>4, <2>2, <2>5 DEF Stages, Building
    <3> QED
      BY <1>3, <2>2, <3>1, StagesOnly
  <2> QED
    BY <2>3, <2>4, <2>5
<1> QED
  BY <1>6, <1>7, WorkerMoves

LEMMA StagesBegin ==
  ASSUME ExportTypeOK, StagesInv, NEW e \in Exports, BeginExport(e)
  PROVE  StagesInv'
<1>1. /\ exporter[e].pc = "idle" /\ generation' = generation
      /\ Stages(exporter[e], generation[e])
  BY DEF BeginExport, StagesInv
<1>2. /\ Others(e) /\ exporter'[e].futures = exporter[e].futures
      /\ exporter'[e].next = exporter[e].next
      /\ \/ exporter'[e].mode = "single" /\ exporter'[e].pc = "extract"
         \/ exporter'[e].mode = "several" /\ exporter'[e].pc = "files"
  BY BeginMoves
<1>3. generation[e] = Empty /\ DOMAIN exporter[e].futures = {}
  BY <1>1 DEF Stages
<1>4. /\ generation[e].spools = {} /\ generation[e].registry = {} /\ generation[e].shards = {}
      /\ ~generation[e].manifest /\ ~generation[e].staged
  BY <1>3 DEF Empty
<1>5. exporter[e].next = 1
  BY <1>1 DEF Stages
<1>6. Progress(exporter'[e], generation[e].spools, Batches)
  BY <1>2, <1>3, <1>4, <1>5, ExportAssumption, ProgressBegin
<1>7. Stages(exporter'[e], generation[e])
  BY <1>2, <1>3, <1>4, <1>6 DEF Stages, Building, Manifesting, Flat
<1> QED
  BY <1>1, <1>2, <1>7, StagesOnly

LEMMA StagesSearch ==
  ASSUME ExportTypeOK, StagesInv, NEW e \in Exports, StageSearch(e)
  PROVE  StagesInv'
<1>1. /\ exporter[e].pc = "stage" /\ generation' = [generation EXCEPT ![e].staged = TRUE]
      /\ Stages(exporter[e], generation[e])
  BY DEF StageSearch, StagesInv
<1>2. /\ Others(e) /\ exporter'[e].pc = "project" /\ exporter'[e].next = 1
      /\ exporter'[e].futures = <<>> /\ exporter'[e].mode = exporter[e].mode
  BY StageMoves
<1>3. /\ \A d \in Exports : d # e => generation'[d] = generation[d]
      /\ generation'[e].staged /\ generation'[e].spools = generation[e].spools
      /\ generation'[e].registry = generation[e].registry
      /\ generation'[e].shards = generation[e].shards
      /\ generation'[e].manifest = generation[e].manifest
  BY <1>1 DEF ExportTypeOK, Generation
<1>4. /\ exporter[e].mode = "single" /\ generation[e].shards = {} /\ ~generation[e].manifest
      /\ generation[e].spools = All /\ generation[e].registry = All
  BY <1>1 DEF Stages, Building
<1>5. DOMAIN exporter'[e].futures = {}
  BY <1>2, NothingInPool
<1>6. Progress(exporter'[e], {}, Parts)
  BY <1>2, <1>5, PartsType, ProgressBegin
<1>7. Stages(exporter'[e], generation'[e])
  BY <1>2, <1>3, <1>4, <1>5, <1>6 DEF Stages, Building, Manifesting, Flat
<1> QED
  BY <1>2, <1>3, <1>7, StagesOnly

LEMMA StagesOpen ==
  ASSUME ExportTypeOK, StagesInv, NEW e \in Exports, OpenTemporary(e)
  PROVE  StagesInv'
<1>1. exporter[e].pc = "open" /\ generation' = generation /\ Stages(exporter[e], generation[e])
  BY DEF OpenTemporary, StagesInv
<1>2. /\ Others(e) /\ exporter'[e].pc = "write" /\ exporter'[e].mode = exporter[e].mode
      /\ exporter'[e].futures = exporter[e].futures
  BY OpenMoves
<1>3. Stages(exporter'[e], generation[e])
  BY <1>1, <1>2 DEF Stages, Building, Manifesting, Flat
<1> QED
  BY <1>1, <1>2, <1>3, StagesOnly

LEMMA StagesPlain ==
  ASSUME ExportTypeOK, StagesInv, NEW e \in Exports, Plain(e)
  PROVE  StagesInv'
<1>1. Stages(exporter[e], generation[e]) /\ exporter[e].next \in Nat /\ Futures(e) = exporter[e].futures
  BY WorkIs DEF StagesInv
<1>2. ASSUME NEW pc \in {"done", "failed", "killed", "drain"}, Goto(e, pc), generation' = generation PROVE StagesInv'
  <2>1. pc \in ExportSteps /\ Moved(e, pc)
    BY <1>2, GotoMoves DEF ExportSteps, Over
  <2>2. Stages(exporter'[e], generation[e])
    BY <2>1, <1>1, <1>2, StagesStop DEF Moved
  <2> QED
    BY <2>1, <2>2, <1>2, StagesOnly DEF Moved
<1>3. CASE SubmitRefused(e) \/ Drain(e) \/ ExportFails(e) \/ KillExport(e) \/ PublishFiles(e)
  BY <1>3, <1>2 DEF SubmitRefused, Drain, ExportFails, KillExport, PublishFiles, Fail
<1>4. CASE EndPool(e)
  <2>1. /\ generation' = generation /\ DOMAIN exporter[e].futures = {}
        /\ exporter[e].next \notin Work(exporter[e].pc) /\ exporter[e].pc \in {"extract", "project"}
        /\ Goto(e, IF exporter[e].pc = "extract" THEN "registry" ELSE "merge")
    BY <1>4, <1>1 DEF EndPool, InPool
  <2>2. CASE exporter[e].pc = "extract"
    <3>1. "registry" \in ExportSteps /\ Goto(e, "registry")
      BY <2>1, <2>2 DEF ExportSteps, Building
    <3>2. Moved(e, "registry")
      BY <3>1, GotoMoves
    <3>3. generation[e].spools = All
      <4>1. Progress(exporter[e], generation[e].spools, Batches)
        BY <1>1, <2>2 DEF Stages
      <4>2. exporter[e].next \notin 1..Batches
        BY <2>1, <2>2 DEF Work
      <4> QED
        BY <4>1, <4>2, <1>1, <2>1, ProgressEnd, ExportAssumption DEF All
    <3>4. Stages(exporter'[e], generation[e])
      BY <1>1, <2>1, <2>2, <3>2, <3>3 DEF Moved, Stages, Building, Manifesting, Flat
    <3> QED
      BY <2>1, <3>2, <3>4, StagesOnly DEF Moved
  <2>3. CASE exporter[e].pc = "project"
    <3>1. "merge" \in ExportSteps /\ Goto(e, "merge")
      BY <2>1, <2>3 DEF ExportSteps, Building
    <3>2. Moved(e, "merge")
      BY <3>1, GotoMoves
    <3>3. generation[e].shards = 1..Parts
      <4>1. Progress(exporter[e], generation[e].shards, Parts)
        BY <1>1, <2>3 DEF Stages
      <4>2. exporter[e].next \notin 1..Parts
        BY <2>1, <2>3 DEF Work
      <4> QED
        BY <4>1, <4>2, <1>1, <2>1, ProgressEnd, PartsType
    <3>4. Stages(exporter'[e], generation[e])
      BY <1>1, <2>1, <2>3, <3>2, <3>3 DEF Moved, Stages, Building, Manifesting, Flat
    <3> QED
      BY <2>1, <3>2, <3>4, StagesOnly DEF Moved
  <2> QED
    BY <2>1, <2>2, <2>3
<1>5. CASE BuildRegistry(e)
  <2>1. /\ exporter[e].pc = "registry" /\ Goto(e, "stage") /\ "stage" \in ExportSteps
        /\ generation' = [generation EXCEPT ![e].registry = generation[e].spools]
    BY <1>5 DEF BuildRegistry, ExportSteps, Building
  <2>2. Moved(e, "stage")
    BY <2>1, GotoMoves
  <2>3. /\ \A d \in Exports : d # e => generation'[d] = generation[d]
        /\ generation'[e].registry = generation[e].spools
        /\ generation'[e].spools = generation[e].spools
        /\ generation'[e].staged = generation[e].staged
        /\ generation'[e].shards = generation[e].shards
        /\ generation'[e].manifest = generation[e].manifest
    BY <2>1 DEF ExportTypeOK, Generation
  <2>4. Stages(exporter'[e], generation'[e])
    BY <1>1, <2>1, <2>2, <2>3 DEF Moved, Stages, Building, Manifesting, Flat
  <2> QED
    BY <2>2, <2>3, <2>4, StagesOnly DEF Moved
<1>6. CASE MergeProjection(e)
  <2>1. /\ exporter[e].pc = "merge" /\ Goto(e, "open") /\ "open" \in ExportSteps
        /\ generation' = [generation EXCEPT ![e].manifest = TRUE]
    BY <1>6 DEF MergeProjection, ExportSteps, Manifesting
  <2>2. Moved(e, "open")
    BY <2>1, GotoMoves
  <2>3. /\ \A d \in Exports : d # e => generation'[d] = generation[d]
        /\ generation'[e].registry = generation[e].registry
        /\ generation'[e].spools = generation[e].spools
        /\ generation'[e].staged = generation[e].staged
        /\ generation'[e].shards = generation[e].shards
        /\ generation'[e].manifest
    BY <2>1 DEF ExportTypeOK, Generation
  <2>4. Stages(exporter'[e], generation'[e])
    BY <1>1, <2>1, <2>2, <2>3 DEF Moved, Stages, Building, Manifesting, Flat
  <2> QED
    BY <2>2, <2>3, <2>4, StagesOnly DEF Moved
<1>7. CASE WriteTemporary(e)
  <2>1. exporter[e].pc = "write" /\ Goto(e, "rename") /\ "rename" \in ExportSteps /\ generation' = generation
    BY <1>7 DEF WriteTemporary, ExportSteps, Manifesting
  <2>2. Moved(e, "rename")
    BY <2>1, GotoMoves
  <2>3. Stages(exporter'[e], generation[e])
    BY <1>1, <2>1, <2>2 DEF Moved, Stages, Building, Manifesting, Flat
  <2> QED
    BY <2>1, <2>2, <2>3, StagesOnly DEF Moved
<1>8. CASE RenameTemporary(e) /\ temporary = Absent
  BY <1>8, <1>2 DEF RenameTemporary, Fail
<1>9. CASE RenameTemporary(e) /\ temporary # Absent
  <2>1. exporter[e].pc = "rename" /\ Goto(e, "load") /\ "load" \in ExportSteps /\ generation' = generation
    BY <1>9 DEF RenameTemporary, ExportSteps, Manifesting
  <2>2. Moved(e, "load")
    BY <2>1, GotoMoves
  <2>3. Stages(exporter'[e], generation[e])
    BY <1>1, <2>1, <2>2 DEF Moved, Stages, Building, Manifesting, Flat
  <2> QED
    BY <2>1, <2>2, <2>3, StagesOnly DEF Moved
<1>10. CASE LoadManifest(e)
  BY <1>10, <1>2 DEF LoadManifest
<1>11. CASE WriteFiles(e)
  <2>1. exporter[e].pc = "files" /\ Goto(e, "written") /\ "written" \in ExportSteps /\ generation' = generation
    BY <1>11 DEF WriteFiles, ExportSteps, Flat
  <2>2. Moved(e, "written")
    BY <2>1, GotoMoves
  <2>3. Stages(exporter'[e], generation[e])
    BY <1>1, <2>1, <2>2 DEF Moved, Stages, Building, Manifesting, Flat
  <2> QED
    BY <2>1, <2>2, <2>3, StagesOnly DEF Moved
<1>12. CASE FilesWritten(e)
  <2>1. exporter[e].pc = "written" /\ Goto(e, "publish") /\ "publish" \in ExportSteps /\ generation' = generation
    BY <1>12 DEF FilesWritten, ExportSteps, Flat
  <2>2. Moved(e, "publish")
    BY <2>1, GotoMoves
  <2>3. Stages(exporter'[e], generation[e])
    BY <1>1, <2>1, <2>2 DEF Moved, Stages, Building, Manifesting, Flat
  <2> QED
    BY <2>1, <2>2, <2>3, StagesOnly DEF Moved
<1> QED
  BY <1>3, <1>4, <1>5, <1>6, <1>7, <1>8, <1>9, <1>10, <1>11, <1>12 DEF Plain

LEMMA StagesStep == ExportTypeOK /\ StagesInv /\ [ExportNext]_exportVars => StagesInv'
<1> SUFFICES ASSUME ExportTypeOK, StagesInv, [ExportNext]_exportVars PROVE StagesInv'
  OBVIOUS
<1>1. CASE UNCHANGED exportVars
  BY <1>1 DEF exportVars, StagesInv, Stages, Progress
<1> QED
  BY <1>1, StagesPool, StagesWork, StagesBegin, StagesSearch, StagesOpen, StagesPlain
  DEF ExportNext, Coordinate, Plain

-----------------------------------------------------------------------------
(* Where a step of an export leads.                                          *)
Acts(e) == BeginExport(e) \/ Coordinate(e) \/ WorkPool(e) \/ ExportFails(e) \/ KillExport(e)
Quiet(e) ==
  ~OpenTemporary(e) /\ ~WriteTemporary(e) /\ ~RenameTemporary(e) /\ ~WriteFiles(e) /\ ~FilesWritten(e)
  /\ ~PublishFiles(e)

LEMMA PlainSteps ==
  ASSUME ExportTypeOK, NEW e \in Exports, Plain(e)
  PROVE  \E pc \in ExportSteps :
           /\ Moved(e, pc) /\ exporter[e].pc \notin Over
           /\ \/ pc \in {"failed", "killed", "done", "drain"}
              \/ exporter[e].pc \in Building /\ pc \in {"registry", "stage", "merge", "open"}
              \/ exporter[e].pc = "write" /\ pc = "rename" /\ ~Quiet(e)
              \/ exporter[e].pc = "rename" /\ pc = "load" /\ ~Quiet(e)
              \/ exporter[e].pc = "files" /\ pc = "written" /\ ~Quiet(e)
              \/ exporter[e].pc = "written" /\ pc = "publish" /\ ~Quiet(e)
<1> DEFINE Led(pc) ==
      /\ Moved(e, pc) /\ exporter[e].pc \notin Over
      /\ \/ pc \in {"failed", "killed", "done", "drain"}
         \/ exporter[e].pc \in Building /\ pc \in {"registry", "stage", "merge", "open"}
         \/ exporter[e].pc = "write" /\ pc = "rename" /\ ~Quiet(e)
         \/ exporter[e].pc = "rename" /\ pc = "load" /\ ~Quiet(e)
         \/ exporter[e].pc = "files" /\ pc = "written" /\ ~Quiet(e)
         \/ exporter[e].pc = "written" /\ pc = "publish" /\ ~Quiet(e)
<1> SUFFICES \E pc \in ExportSteps : Led(pc)
  OBVIOUS
<1>1. \A pc \in ExportSteps : Goto(e, pc) => Moved(e, pc)
  BY GotoMoves
<1>2. ASSUME NEW pc \in {"failed", "killed", "done", "drain"}, Goto(e, pc), exporter[e].pc \notin Over
      PROVE  \E q \in ExportSteps : Led(q)
  <2>1. pc \in ExportSteps
    BY <1>2 DEF ExportSteps, Over
  <2>2. Led(pc)
    BY <2>1, <1>1, <1>2
  <2> QED
    BY <2>1, <2>2
<1>3. ASSUME NEW pc \in {"registry", "stage", "merge", "open"}, Goto(e, pc), exporter[e].pc \in Building
      PROVE  \E q \in ExportSteps : Led(q)
  <2>1. pc \in ExportSteps
    BY <1>3 DEF ExportSteps, Building, Manifesting
  <2>2. Led(pc)
    BY <2>1, <1>1, <1>3 DEF Building, Over
  <2> QED
    BY <2>1, <2>2
<1>4. CASE SubmitRefused(e) \/ Drain(e) \/ ExportFails(e) \/ KillExport(e) \/ PublishFiles(e) \/ LoadManifest(e)
  BY <1>2, <1>4 DEF SubmitRefused, InPool, Drain, ExportFails, KillExport, PublishFiles, LoadManifest, Fail,
                    Running, Over
<1>5. CASE EndPool(e) \/ BuildRegistry(e) \/ MergeProjection(e)
  BY <1>3, <1>5 DEF EndPool, InPool, BuildRegistry, MergeProjection, Building
<1>6. CASE WriteTemporary(e)
  <2>1. Goto(e, "rename") /\ "rename" \in ExportSteps /\ exporter[e].pc = "write" /\ ~Quiet(e)
    BY <1>6 DEF WriteTemporary, ExportSteps, Manifesting, Quiet
  <2> QED
    BY <2>1, <1>1 DEF Over
<1>7. CASE RenameTemporary(e) /\ temporary = Absent
  BY <1>2, <1>7 DEF RenameTemporary, Fail, Over
<1>8. CASE RenameTemporary(e) /\ temporary # Absent
  <2>1. Goto(e, "load") /\ "load" \in ExportSteps /\ exporter[e].pc = "rename" /\ ~Quiet(e)
    BY <1>8 DEF RenameTemporary, ExportSteps, Manifesting, Quiet
  <2> QED
    BY <2>1, <1>1 DEF Over
<1>9. CASE WriteFiles(e)
  <2>1. Goto(e, "written") /\ "written" \in ExportSteps /\ exporter[e].pc = "files" /\ ~Quiet(e)
    BY <1>9 DEF WriteFiles, ExportSteps, Flat, Quiet
  <2> QED
    BY <2>1, <1>1 DEF Over
<1>10. CASE FilesWritten(e)
  <2>1. Goto(e, "publish") /\ "publish" \in ExportSteps /\ exporter[e].pc = "written" /\ ~Quiet(e)
    BY <1>10 DEF FilesWritten, ExportSteps, Flat, Quiet
  <2> QED
    BY <2>1, <1>1 DEF Over
<1> QED
  BY <1>4, <1>5, <1>6, <1>7, <1>8, <1>9, <1>10 DEF Plain

LEMMA Advances ==
  ASSUME ExportTypeOK, NEW e \in Exports, Acts(e)
  PROVE  /\ Others(e)
         /\ exporter[e].pc # "idle" => exporter'[e].mode = exporter[e].mode
         /\ exporter[e].pc = "done" => exporter'[e].pc = "done"
         /\ exporter'[e].pc \in Fresh => exporter[e].pc \in Fresh
         /\ exporter'[e].pc \notin Over => exporter[e].pc \notin Over \/ BeginExport(e)
         /\ Quiet(e) /\ exporter'[e].pc \in {"write", "rename", "load", "publish"} =>
              exporter'[e].pc = exporter[e].pc /\ exporter'[e].file = exporter[e].file
<1>1. CASE Submit(e) \/ Wait(e) \/ TakeLast(e)
  <2>1. exporter[e].pc \in {"extract", "project"}
    BY <1>1 DEF Submit, Wait, TakeLast, InPool
  <2>2. /\ Others(e) /\ exporter'[e].mode = exporter[e].mode
        /\ exporter'[e].pc \in {exporter[e].pc, "drain"}
    <3>1. CASE Submit(e)
      BY <3>1, SubmitMoves DEF Pooled
    <3>2. CASE Wait(e) \/ TakeLast(e)
      <4>1. PICK done \in SUBSET DOMAIN Futures(e) : Take(e, done)
        BY <3>2, Taken
      <4> QED
        BY <4>1, TakeMoves DEF Pooled
    <3> QED
      BY <1>1, <3>1, <3>2
  <2> QED
    BY <2>1, <2>2 DEF Fresh, Building, Over
<1>2. CASE WorkPool(e)
  BY <1>2, WorkerMoves DEF Standing
<1>3. CASE BeginExport(e)
  <2>1. exporter[e].pc = "idle" /\ Others(e) /\ exporter'[e].pc \in {"extract", "files"}
    BY <1>3, BeginMoves DEF BeginExport
  <2> QED
    BY <1>3, <2>1 DEF Fresh
<1>4. CASE StageSearch(e)
  <2>1. /\ exporter[e].pc = "stage" /\ Others(e) /\ exporter'[e].pc = "project"
        /\ exporter'[e].mode = exporter[e].mode
    BY <1>4, StageMoves DEF StageSearch
  <2> QED
    BY <2>1 DEF Fresh, Building, Over
<1>5. CASE OpenTemporary(e)
  <2>1. /\ exporter[e].pc = "open" /\ Others(e) /\ exporter'[e].pc = "write"
        /\ exporter'[e].mode = exporter[e].mode /\ ~Quiet(e)
    BY <1>5, OpenMoves DEF OpenTemporary, Quiet
  <2> QED
    BY <2>1 DEF Fresh, Building, Over, Flat
<1>6. CASE Plain(e)
  <2>1. PICK pc \in ExportSteps :
           /\ Moved(e, pc) /\ exporter[e].pc \notin Over
           /\ \/ pc \in {"failed", "killed", "done", "drain"}
              \/ exporter[e].pc \in Building /\ pc \in {"registry", "stage", "merge", "open"}
              \/ exporter[e].pc = "write" /\ pc = "rename" /\ ~Quiet(e)
              \/ exporter[e].pc = "rename" /\ pc = "load" /\ ~Quiet(e)
              \/ exporter[e].pc = "files" /\ pc = "written" /\ ~Quiet(e)
              \/ exporter[e].pc = "written" /\ pc = "publish" /\ ~Quiet(e)
    BY <1>6, PlainSteps
  <2>2. /\ Others(e) /\ exporter'[e].pc = pc /\ exporter'[e].mode = exporter[e].mode
        /\ exporter'[e].file = exporter[e].file
    BY <2>1 DEF Moved
  <2> QED
    BY <2>1, <2>2 DEF Fresh, Building, Over, Flat
<1> QED
  BY <1>1, <1>2, <1>3, <1>4, <1>5, <1>6 DEF Acts, Coordinate, Plain

LEMMA QuietFiles ==
  ASSUME NEW e \in Exports, Acts(e), Quiet(e)
  PROVE  SameFiles
BY DEF Acts, Quiet, Coordinate, WorkPool, BeginExport, Submit, SubmitRefused, Wait, TakeLast, EndPool, Drain, BuildRegistry,
       StageSearch, MergeProjection, LoadManifest, WorkerDone, WorkerFails, WorkerDies, ExportFails, KillExport

LEMMA ManifestStays ==
  ASSUME ExportTypeOK, NEW e \in Exports, Acts(e), NEW d \in Exports, generation[d].manifest
  PROVE  generation'[d].manifest
<1>1. CASE WorkPool(e)
  <2>1. CASE generation' = generation
    BY <2>1
  <2>2. CASE \E b \in DOMAIN exporter[e].futures : Produced(e, b)
    BY <2>2, WorkIs, ProducedMoves
  <2> QED
    BY <1>1, <2>1, <2>2, WorkerMoves
<1>2. CASE BuildRegistry(e) \/ StageSearch(e) \/ MergeProjection(e)
  BY <1>2 DEF BuildRegistry, StageSearch, MergeProjection, ExportTypeOK, Generation
<1>3. CASE generation' = generation
  BY <1>3
<1> QED
  BY <1>1, <1>2, <1>3 DEF Acts, Coordinate, BeginExport, Submit, SubmitRefused, Wait, TakeLast, EndPool, Drain,
       OpenTemporary, WriteTemporary, RenameTemporary, LoadManifest, WriteFiles, FilesWritten, PublishFiles,
       ExportFails, KillExport

(* What a manifest may describe stays so.                                    *)
LEMMA DescribesStays ==
  ASSUME ExportTypeOK, StagesInv, NEW e \in Exports, Acts(e), NEW d \in Exports, Describes(d)
  PROVE  Describes(d)'
<1>1. exporter[d].pc # "idle"
  BY DEF Describes, StagesInv, Stages, Empty
<1>2. exporter'[d].mode = exporter[d].mode /\ (exporter[d].pc = "done" => exporter'[d].pc = "done")
  BY <1>1, Advances DEF Others
<1>3. generation[d].manifest => generation'[d].manifest
  BY ManifestStays
<1> QED
  BY <1>2, <1>3 DEF Describes

-----------------------------------------------------------------------------
(* The files: what a manifest describes, whoever renames it.                 *)
LEMMA FilesStep ==
  ExportTypeOK /\ StagesInv /\ FilesInv /\ [ExportNext]_exportVars => FilesInv'
<1> SUFFICES ASSUME ExportTypeOK, StagesInv, FilesInv, [ExportNext]_exportVars PROVE FilesInv'
  OBVIOUS
<1>1. CASE UNCHANGED exportVars
  BY <1>1 DEF exportVars, FilesInv, Describes
<1>2. ASSUME NEW e \in Exports, Acts(e) PROVE FilesInv'
  <2>1. \A d \in Exports : Describes(d) => Describes(d)'
    BY <1>2, DescribesStays
  <2>2. \A d \in Exports : exporter'[d].pc \in Fresh => exporter[d].pc \in Fresh
    BY <1>2, Advances DEF Others
  <2>3. /\ content \in [Exports -> Contents] /\ temporary \in Exports \cup {Absent}
        /\ top \in Exports \cup {Absent} /\ Absent \notin Exports /\ Torn # Absent /\ Torn \notin Exports
    BY ExportAssumption DEF ExportTypeOK
  <2>4. \A d \in Exports : d # e => exporter'[d] = exporter[d]
    BY <1>2, Advances DEF Others
  <2>5. CASE Quiet(e)
    <3>1. content' = content /\ temporary' = temporary /\ top' = top
      BY <1>2, <2>5, QuietFiles DEF SameFiles
    <3>2. \A d \in Exports : exporter'[d].pc \in {"write", "rename"} =>
            exporter'[d].pc = exporter[d].pc /\ exporter'[d].file = exporter[d].file
      BY <1>2, <2>4, <2>5, Advances
    <3>3. \A f, c \in Exports : content'[f] = c => Describes(c)'
      BY <3>1, <2>1 DEF FilesInv
    <3> QED
      BY <3>1, <3>2, <3>3, <2>2 DEF FilesInv
  <2>6. CASE OpenTemporary(e)
    <3>1. PICK file \in Exports :
            /\ file = (IF temporary = Absent THEN e ELSE temporary)
            /\ temporary' = file /\ content' = [content EXCEPT ![file] = Torn]
            /\ exporter'[e].pc = "write" /\ exporter'[e].file = file
      BY <2>6, OpenMoves
    <3>2. /\ content'[file] = Torn /\ top' = top
          /\ \A f \in Exports : f # file => content'[f] = content[f]
      BY <3>1, <2>3, <2>6 DEF OpenTemporary
    <3>3. exporter[e].pc = "open" /\ content[e] = Absent
      BY <2>6 DEF OpenTemporary, FilesInv, Fresh
    <3>4. file # top
      BY <3>1, <3>3, <2>3 DEF FilesInv
    <3>5. ASSUME NEW f \in Exports, NEW d \in Exports, content'[f] = d PROVE Describes(d)'
      <4>1. content[f] = d
        BY <3>2, <3>5, <2>3
      <4> QED
        BY <4>1, <2>1 DEF FilesInv
    <3>6. ASSUME NEW d \in Exports, exporter'[d].pc \in Fresh PROVE content'[d] = Absent
      <4>1. d # e
        BY <3>1, <3>6 DEF Fresh, Building, Flat
      <4>2. content[d] = Absent
        BY <2>2, <3>6 DEF FilesInv
      <4>3. d # file
        BY <4>1, <4>2, <3>1, <2>3 DEF FilesInv
      <4> QED
        BY <4>2, <4>3, <3>2
    <3>7. ASSUME NEW d \in Exports, exporter'[d].pc \in {"write", "rename"}
          PROVE  exporter'[d].file \in Exports /\ content'[exporter'[d].file] # Absent
      <4>1. CASE d = e
        BY <4>1, <3>1, <3>2, <2>3
      <4>2. CASE d # e
        <5>1. exporter'[d].file \in Exports /\ content[exporter'[d].file] # Absent
          BY <4>2, <2>4, <3>7 DEF FilesInv
        <5> QED
          BY <5>1, <3>2, <2>3
      <4> QED
        BY <4>1, <4>2
    <3>8. top' # Absent => content'[top'] # Absent
      BY <3>2, <3>4, <2>3 DEF FilesInv
    <3>9. temporary' # Absent => content'[temporary'] # Absent /\ temporary' # top'
      BY <3>1, <3>2, <3>4, <2>3
    <3> QED
      BY <3>5, <3>6, <3>7, <3>8, <3>9 DEF FilesInv
  <2>7. ASSUME NEW file \in Exports, NEW d \in Exports, content' = [content EXCEPT ![file] = d],
               Describes(d)', \A x \in Exports : exporter'[x].pc \in Fresh => x # file
        PROVE  /\ \A f \in Exports : content[f] # Absent => content'[f] # Absent
               /\ \A f, c \in Exports : content'[f] = c => Describes(c)'
               /\ \A x \in Exports : exporter'[x].pc \in Fresh => content'[x] = Absent
               /\ content'[file] = d
    <3>1. content'[file] = d /\ \A f \in Exports : f # file => content'[f] = content[f]
      BY <2>7, <2>3
    <3>2. ASSUME NEW f \in Exports, NEW c \in Exports, content'[f] = c PROVE Describes(c)'
      <4>1. CASE f = file
        BY <4>1, <3>1, <3>2, <2>7
      <4>2. CASE f # file
        BY <4>2, <3>1, <3>2, <2>1 DEF FilesInv
      <4> QED
        BY <4>1, <4>2
    <3> QED
      BY <3>1, <3>2, <2>2, <2>3, <2>7 DEF FilesInv
  <2>8. CASE WriteTemporary(e)
    <3>1. /\ exporter[e].pc = "write" /\ Goto(e, "rename") /\ "rename" \in ExportSteps
          /\ content' = [content EXCEPT ![exporter[e].file] = e]
          /\ temporary' = temporary /\ top' = top /\ generation' = generation
      BY <2>8 DEF WriteTemporary, ExportSteps, Manifesting
    <3>2. PICK file \in Exports : file = exporter[e].file /\ content[file] # Absent
      BY <3>1 DEF FilesInv
    <3>3. /\ exporter'[e].pc = "rename" /\ exporter'[e].mode = exporter[e].mode
          /\ exporter'[e].file = file
      BY <3>1, <3>2, GotoMoves DEF Moved
    <3>4. Describes(e)'
      BY <3>1, <3>3 DEF Describes, StagesInv, Stages, Manifesting
    <3>5. \A x \in Exports : exporter'[x].pc \in Fresh => x # file
      BY <3>2, <2>2 DEF FilesInv
    <3>6. /\ \A f \in Exports : content[f] # Absent => content'[f] # Absent
          /\ \A f, c \in Exports : content'[f] = c => Describes(c)'
          /\ \A x \in Exports : exporter'[x].pc \in Fresh => content'[x] = Absent
      BY <2>7, <3>1, <3>2, <3>4, <3>5
    <3>7. \A x \in Exports : exporter'[x].pc \in {"write", "rename"} =>
            exporter'[x].file \in Exports /\ content'[exporter'[x].file] # Absent
      BY <3>2, <3>3, <3>6, <2>4 DEF FilesInv
    <3> QED
      BY <3>1, <3>6, <3>7, <2>3 DEF FilesInv
  <2>9. CASE PublishFiles(e)
    <3>1. /\ exporter[e].pc = "publish" /\ Goto(e, "done") /\ "done" \in ExportSteps
          /\ content' = [content EXCEPT ![e] = e] /\ top' = e /\ temporary' = temporary
      BY <2>9 DEF PublishFiles, ExportSteps, Over
    <3>2. exporter'[e].pc = "done" /\ exporter'[e].mode = exporter[e].mode
      BY <3>1, GotoMoves DEF Moved
    <3>3. exporter[e].mode = "several" /\ content[e] = Absent
      BY <3>1 DEF StagesInv, Stages, Flat, FilesInv, Fresh
    <3>4. Describes(e)'
      BY <3>2, <3>3 DEF Describes
    <3>5. \A x \in Exports : exporter'[x].pc \in Fresh => x # e
      BY <3>2 DEF Fresh, Building, Flat
    <3>6. /\ \A f \in Exports : content[f] # Absent => content'[f] # Absent
          /\ \A f, c \in Exports : content'[f] = c => Describes(c)'
          /\ \A x \in Exports : exporter'[x].pc \in Fresh => content'[x] = Absent
          /\ content'[e] = e
      BY <2>7, <3>1, <3>4, <3>5
    <3>7. \A x \in Exports : exporter'[x].pc \in {"write", "rename"} =>
            exporter'[x].file \in Exports /\ content'[exporter'[x].file] # Absent
      BY <3>2, <3>6, <2>4 DEF FilesInv
    <3>8. temporary' # Absent => content'[temporary'] # Absent /\ temporary' # top'
      BY <3>1, <3>3, <3>6, <2>3 DEF FilesInv
    <3> QED
      BY <3>1, <3>6, <3>7, <3>8, <2>3 DEF FilesInv
  <2>10. CASE RenameTemporary(e)
    <3>1. content' = content /\ exporter'[e].pc \in {"failed", "load"}
          /\ \/ temporary' = temporary /\ top' = top
             \/ temporary # Absent /\ top' = temporary /\ temporary' = Absent
      BY <2>10, GotoMoves DEF RenameTemporary, Fail, Goto, ExportTypeOK, Exporter
    <3>2. \A f, c \in Exports : content'[f] = c => Describes(c)'
      BY <3>1, <2>1 DEF FilesInv
    <3>3. \A x \in Exports : exporter'[x].pc \in {"write", "rename"} =>
            exporter'[x].file \in Exports /\ content'[exporter'[x].file] # Absent
      BY <3>1, <2>4 DEF FilesInv
    <3> QED
      BY <3>1, <3>2, <3>3, <2>2 DEF FilesInv
  <2>11. CASE WriteFiles(e) \/ FilesWritten(e)
    <3>1. content' = content /\ temporary' = temporary /\ top' = top
          /\ exporter'[e].pc \in {"written", "publish"}
      BY <2>11 DEF WriteFiles, FilesWritten, Goto, ExportTypeOK, Exporter
    <3>2. \A f, c \in Exports : content'[f] = c => Describes(c)'
      BY <3>1, <2>1 DEF FilesInv
    <3>3. \A x \in Exports : exporter'[x].pc \in {"write", "rename"} =>
            exporter'[x].file \in Exports /\ content'[exporter'[x].file] # Absent
      BY <3>1, <2>4 DEF FilesInv
    <3> QED
      BY <3>1, <3>2, <3>3, <2>2 DEF FilesInv
  <2> QED
    BY <2>5, <2>6, <2>8, <2>9, <2>10, <2>11 DEF Quiet
<1> QED
  BY <1>1, <1>2 DEF ExportNext, Acts

-----------------------------------------------------------------------------
(* One export at a time: the one that runs is the one that acts on the files. *)
LEMMA AloneStep ==
  ExportInv /\ [ExportNext]_exportVars => AloneInv'
<1> SUFFICES ASSUME ExportTypeOK, StagesInv, FilesInv, AloneInv, [ExportNext]_exportVars, alone'
             PROVE  AloneInv'
  BY DEF ExportInv, AloneInv
<1>1. CASE UNCHANGED exportVars
  BY <1>1 DEF exportVars, AloneInv, Running
<1>2. ASSUME NEW e \in Exports, Acts(e) PROVE AloneInv'
  <2>1. alone
    BY <1>2 DEF Acts, Coordinate, WorkPool, BeginExport, Submit, SubmitRefused, Wait, TakeLast, EndPool, Drain,
        BuildRegistry, StageSearch, MergeProjection, LoadManifest, WorkerDone, WorkerFails, WorkerDies,
        ExportFails, KillExport, OpenTemporary, WriteTemporary, RenameTemporary, WriteFiles, FilesWritten,
        PublishFiles, SameFiles
  <2>2. /\ content \in [Exports -> Contents] /\ temporary \in Exports \cup {Absent}
        /\ top \in Exports \cup {Absent} /\ Absent \notin Exports /\ Torn # Absent /\ Torn \notin Exports
        /\ Absent # "several"
    BY ExportAssumption DEF ExportTypeOK
  <2>3. \A d \in Exports : d # e => exporter'[d] = exporter[d]
    BY <1>2, Advances DEF Others
  <2>4. \A d \in Exports : d \in Running <=> exporter[d].pc \notin Over
    BY DEF Running, Over
  <2>5. \A d \in Exports : d \in Running' <=> exporter'[d].pc \notin Over
    BY DEF Running, Over
  <2>6. /\ \A c, d \in Running : c = d
        /\ \A d \in Exports :
             /\ exporter[d].pc \in {"write", "rename"} => temporary # Absent /\ exporter[d].file = temporary
             /\ exporter[d].pc = "rename" => content[temporary] = d
             /\ exporter[d].pc = "load" => top # Absent /\ content[top] = d
             /\ exporter[d].pc = "publish" => flat = d
        /\ top # Absent => content[top] # Torn
    BY <2>1 DEF AloneInv
  <2>7. \A d \in Exports : top # Absent /\ content[top] = d =>
          exporter[d].pc # "idle" /\ exporter'[d].mode = exporter[d].mode
    <3> TAKE d \in Exports
    <3> HAVE top # Absent /\ content[top] = d
    <3>1. Describes(d)
      BY <2>2 DEF FilesInv
    <3>2. exporter[d].pc # "idle"
      BY <3>1 DEF Describes, StagesInv, Stages, Empty
    <3> QED
      BY <3>2, <1>2, <2>3, Advances
  <2>8. \A d \in Exports : exporter[d].mode = "several" => exporter'[d].mode = "several"
    <3> TAKE d \in Exports
    <3> HAVE exporter[d].mode = "several"
    <3>1. exporter[d].pc # "idle"
      BY <2>2 DEF StagesInv, Stages
    <3> QED
      BY <3>1, <1>2, <2>3, Advances
  <2>9. \A c, d \in Running' : c = d
    <3>1. ASSUME BeginExport(e), NEW d \in Running' PROVE d = e
      <4>1. Running = {}
        BY <3>1, <2>1 DEF BeginExport
      <4>2. d \in Exports
        BY DEF Running
      <4> QED
        BY <4>1, <4>2, <2>3, <2>4, <2>5, <3>1
    <3>2. ASSUME ~BeginExport(e), NEW d \in Running' PROVE d \in Running
      <4>1. d \in Exports
        BY DEF Running
      <4> QED
        BY <4>1, <1>2, <2>3, <2>4, <2>5, <3>2, Advances
    <3> QED
      BY <3>1, <3>2, <2>6
  <2>10. ASSUME ~Quiet(e), NEW d \in Exports, d # e PROVE exporter'[d].pc \in Over
    <3>1. e \in Running
      BY <2>4, <2>10 DEF Quiet, OpenTemporary, WriteTemporary, RenameTemporary, WriteFiles, FilesWritten,
                     PublishFiles, Over
    <3> QED
      BY <3>1, <2>3, <2>4, <2>6, <2>10
  <2>11. ASSUME top' = top, content' = content \/ top = Absent \/ content'[top] = content[top], flat' = flat
         PROVE  \A d \in Exports : top' # Absent /\ content'[top'] = d /\ exporter'[d].mode = "several" =>
                  flat' = d \/ \E c \in Exports \ {d} : exporter'[c].mode = "several"
    <3> TAKE d \in Exports
    <3> HAVE top' # Absent /\ content'[top'] = d /\ exporter'[d].mode = "several"
    <3>1. top # Absent /\ content[top] = d
      BY <2>11
    <3>2. exporter[d].mode = "several"
      BY <3>1, <2>7
    <3>3. flat = d \/ \E c \in Exports \ {d} : exporter[c].mode = "several"
      BY <3>1, <3>2, <2>1 DEF AloneInv
    <3> QED
      BY <3>3, <2>8, <2>11
  <2>12. CASE Quiet(e)
    <3>1. content' = content /\ temporary' = temporary /\ top' = top /\ flat' = flat
      BY <1>2, <2>12, QuietFiles DEF SameFiles
    <3>2. \A d \in Exports : exporter'[d].pc \in {"write", "rename", "load", "publish"} =>
            exporter'[d].pc = exporter[d].pc /\ exporter'[d].file = exporter[d].file
      BY <1>2, <2>3, <2>12, Advances
    <3>3. \A d \in Exports :
             /\ exporter'[d].pc \in {"write", "rename"} => temporary' # Absent /\ exporter'[d].file = temporary'
             /\ exporter'[d].pc = "rename" => content'[temporary'] = d
             /\ exporter'[d].pc = "load" => top' # Absent /\ content'[top'] = d
             /\ exporter'[d].pc = "publish" => flat' = d
      BY <3>1, <3>2, <2>6
    <3> QED
      BY <3>1, <3>3, <2>6, <2>9, <2>11 DEF AloneInv
  <2>13. ASSUME ~Quiet(e),
                /\ exporter'[e].pc \in {"write", "rename"} => temporary' # Absent /\ exporter'[e].file = temporary'
                /\ exporter'[e].pc = "rename" => content'[temporary'] = e
                /\ exporter'[e].pc = "load" => top' # Absent /\ content'[top'] = e
                /\ exporter'[e].pc = "publish" => flat' = e,
                top' # Absent => content'[top'] # Torn,
                \A d \in Exports : top' # Absent /\ content'[top'] = d /\ exporter'[d].mode = "several" =>
                  flat' = d \/ \E c \in Exports \ {d} : exporter'[c].mode = "several"
         PROVE  AloneInv'
    <3>1. \A d \in Exports :
             /\ exporter'[d].pc \in {"write", "rename"} => temporary' # Absent /\ exporter'[d].file = temporary'
             /\ exporter'[d].pc = "rename" => content'[temporary'] = d
             /\ exporter'[d].pc = "load" => top' # Absent /\ content'[top'] = d
             /\ exporter'[d].pc = "publish" => flat' = d
      BY <2>10, <2>13 DEF Over
    <3> QED
      BY <3>1, <2>9, <2>13 DEF AloneInv
  <2>14. CASE OpenTemporary(e)
    <3>1. PICK file \in Exports :
            /\ file = (IF temporary = Absent THEN e ELSE temporary)
            /\ temporary' = file /\ content' = [content EXCEPT ![file] = Torn]
            /\ exporter'[e].pc = "write" /\ exporter'[e].file = file
      BY <2>14, OpenMoves
    <3>2. ~Quiet(e) /\ top' = top /\ flat' = flat
      BY <2>14 DEF Quiet, OpenTemporary
    <3>3. content[e] = Absent
      BY <2>14 DEF OpenTemporary, FilesInv, Fresh
    <3>4. top = Absent \/ content'[top] = content[top]
      BY <3>1, <3>3, <2>2 DEF FilesInv
    <3>5. top' # Absent => content'[top'] # Torn
      BY <3>2, <3>4, <2>6
    <3> QED
      BY <3>1, <3>2, <3>4, <3>5, <2>2, <2>11, <2>13
  <2>15. CASE WriteTemporary(e)
    <3>1. /\ exporter[e].pc = "write" /\ Goto(e, "rename") /\ "rename" \in ExportSteps
          /\ content' = [content EXCEPT ![exporter[e].file] = e]
          /\ temporary' = temporary /\ top' = top /\ flat' = flat /\ ~Quiet(e)
      BY <2>15 DEF WriteTemporary, ExportSteps, Manifesting, Quiet
    <3>2. temporary # Absent /\ exporter[e].file = temporary /\ temporary # top
      BY <3>1, <2>6 DEF FilesInv
    <3>3. exporter'[e].pc = "rename" /\ exporter'[e].file = exporter[e].file
      BY <3>1, GotoMoves DEF Moved
    <3>4. content'[temporary] = e /\ (top = Absent \/ content'[top] = content[top])
      BY <3>1, <3>2, <2>2
    <3> QED
      BY <3>1, <3>2, <3>3, <3>4, <2>6, <2>11, <2>13
  <2>16. CASE RenameTemporary(e)
    <3>1. exporter[e].pc = "rename" /\ content' = content /\ flat' = flat /\ ~Quiet(e) /\ temporary # Absent
          /\ content[temporary] = e
      BY <2>6, <2>16 DEF RenameTemporary, Quiet
    <3>2. Goto(e, "load") /\ "load" \in ExportSteps /\ top' = temporary
      BY <3>1, <2>16 DEF RenameTemporary, ExportSteps, Manifesting
    <3>3. exporter'[e].pc = "load" /\ exporter'[e].mode = exporter[e].mode
      BY <3>2, GotoMoves DEF Moved
    <3>4. exporter'[e].mode = "single"
      BY <3>1, <3>3 DEF StagesInv, Stages, Manifesting
    <3>5. content'[top'] = e /\ e # Torn
      BY <3>1, <3>2, <2>2
    <3> QED
      BY <3>1, <3>2, <3>3, <3>4, <3>5, <2>13
  <2>17. CASE WriteFiles(e) \/ FilesWritten(e)
    <3>1. /\ content' = content /\ top' = top /\ ~Quiet(e) /\ exporter[e].pc \in {"files", "written"}
      BY <2>17 DEF WriteFiles, FilesWritten, Quiet
    <3>2. exporter'[e].pc = "written" \/ (exporter'[e].pc = "publish" /\ flat' = e)
      <4>1. CASE WriteFiles(e)
        BY <4>1 DEF WriteFiles, Goto, ExportTypeOK, Exporter
      <4>2. CASE FilesWritten(e)
        <5>1. Goto(e, "publish") /\ "publish" \in ExportSteps /\ flat' = e
          BY <4>2 DEF FilesWritten, ExportSteps, Flat
        <5> QED
          BY <5>1, GotoMoves DEF Moved
      <4> QED
        BY <2>17, <4>1, <4>2
    <3>3. exporter[e].mode = "several"
      BY <3>1 DEF StagesInv, Stages, Flat
    <3>4. exporter'[e].mode = "several"
      BY <3>3, <2>8
    <3>5. ASSUME NEW d \in Exports, top' # Absent, content'[top'] = d, exporter'[d].mode = "several"
          PROVE  d # e
      <4>1. Describes(d)
        BY <3>1, <3>5, <2>2 DEF FilesInv
      <4> QED
        BY <4>1, <3>1, <3>3 DEF Describes
    <3>6. \A d \in Exports : top' # Absent /\ content'[top'] = d /\ exporter'[d].mode = "several" =>
            flat' = d \/ \E c \in Exports \ {d} : exporter'[c].mode = "several"
      BY <3>4, <3>5
    <3> QED
      BY <3>1, <3>2, <3>6, <2>6, <2>13
  <2>18. CASE PublishFiles(e)
    <3>1. /\ exporter[e].pc = "publish" /\ Goto(e, "done") /\ "done" \in ExportSteps
          /\ content' = [content EXCEPT ![e] = e] /\ top' = e /\ flat' = flat /\ ~Quiet(e)
      BY <2>18 DEF PublishFiles, ExportSteps, Over, Quiet
    <3>2. exporter'[e].pc = "done"
      BY <3>1, GotoMoves DEF Moved
    <3>3. content'[top'] = e /\ flat' = e /\ e # Torn
      BY <3>1, <2>2, <2>6
    <3> QED
      BY <3>1, <3>2, <3>3, <2>13
  <2> QED
    BY <2>12, <2>14, <2>15, <2>16, <2>17, <2>18 DEF Quiet
<1> QED
  BY <1>1, <1>2 DEF ExportNext, Acts

-----------------------------------------------------------------------------
LEMMA ExportInvariant == ExportSpec => []ExportInv
<1>1. ExportInv /\ [ExportNext]_exportVars => ExportInv'
  BY ExportTypeStep, StagesStep, FilesStep, AloneStep DEF ExportInv
<1> QED
  BY <1>1, ExportInitial, PTL DEF ExportSpec

LEMMA ManifestDescribed == ExportInv => ManifestRight
<1> SUFFICES ASSUME ExportInv PROVE ManifestRight
  OBVIOUS
<1>1. /\ content \in [Exports -> Contents] /\ top \in Exports \cup {Absent} /\ Absent \notin Exports
      /\ alone \in BOOLEAN
  BY ExportAssumption DEF ExportInv, ExportTypeOK
<1>2. ASSUME top # Absent, content[top] # Torn
      PROVE  content[top] \in Exports /\ Describes(content[top])
  <2>1. content[top] \in Contents /\ content[top] # Absent
    BY <1>1, <1>2 DEF ExportInv, FilesInv
  <2>2. content[top] \in Exports
    BY <2>1, <1>2 DEF Contents
  <2> QED
    BY <2>2, <1>1, <1>2 DEF ExportInv, FilesInv
<1>3. ASSUME top # Absent, content[top] # Torn, exporter[content[top]].mode = "single"
      PROVE  Whole(content[top])
  <2>1. content[top] \in Exports /\ generation[content[top]].manifest
    BY <1>2, <1>3 DEF Describes
  <2>2. Stages(exporter[content[top]], generation[content[top]])
    BY <2>1 DEF ExportInv, StagesInv
  <2> QED
    BY <2>1, <2>2 DEF Stages, Whole, All
<1>4. ASSUME alone
      PROVE  /\ top # Absent => content[top] # Torn
             /\ \A e \in Exports : exporter[e].pc = "load" => content[top] = e
             /\ top # Absent /\ exporter[content[top]].mode = "several" =>
                  flat = content[top] \/ \E e \in Exports \ {content[top]} : exporter[e].mode = "several"
  <2>1. AloneInv
    BY DEF ExportInv
  <2>2. (top # Absent => content[top] # Torn)
        /\ \A e \in Exports : exporter[e].pc = "load" => content[top] = e
    BY <2>1, <1>4 DEF AloneInv
  <2>3. ASSUME top # Absent, exporter[content[top]].mode = "several"
        PROVE  flat = content[top] \/ \E e \in Exports \ {content[top]} : exporter[e].mode = "several"
    <3>1. PICK d \in Exports : content[top] = d
      BY <2>2, <2>3, <1>2
    <3> QED
      BY <3>1, <2>1, <2>3, <1>4 DEF AloneInv
  <2> QED
    BY <2>2, <2>3
<1> QED
  BY <1>3, <1>4 DEF ManifestRight

(* Of any number of exports into one directory, with any number of batches
   and of processes, whatever fails, dies, is killed or overlaps: the manifest
   that is published names an export whose every batch was extracted and whose
   every partition was projected; and exports that do not overlap leave no
   torn manifest, nor files of another export than it names
   (bulk_export.py:78-213, 560-657).                                         *)
THEOREM ManifestNamesWhole == ExportSpec => []ManifestRight
BY ExportInvariant, ManifestDescribed, PTL

(* The types of the exports of one output directory.                         *)
THEOREM ExportTypeCorrect == ExportSpec => []ExportTypeOK
<1>1. ExportInv => ExportTypeOK
  BY DEF ExportInv
<1> QED
  BY <1>1, ExportInvariant, PTL

-----------------------------------------------------------------------------
(***************************************************************************)
(* The links of a corpus.  Both the code and the property take the least   *)
(* set that has a snapshot and what it depends on; of the facts in it, the *)
(* ones that are found are, without copies, what the name means; so what   *)
(* is asserted of each fact is right.  The steps link the facts in order:  *)
(* at a commit, exactly all of them.                                       *)
(***************************************************************************)
(* Following is the least of the sets that contain from and are closed.      *)
Closed(S, from, after) == from \subseteq S /\ \A x \in S : after[x] \subseteq S

LEMMA FollowingIsLeast ==
  ASSUME NEW all, NEW from, NEW after
  PROVE  /\ Following(all, from, after) \subseteq all
         /\ from \subseteq all => from \subseteq Following(all, from, after)
         /\ \A x \in Following(all, from, after) :
              after[x] \subseteq all => after[x] \subseteq Following(all, from, after)
         /\ \A S \in SUBSET all : Closed(S, from, after) => Following(all, from, after) \subseteq S
<1>1. \A b : b \in Following(all, from, after) <=>
               b \in all /\ \A S \in SUBSET all : Closed(S, from, after) => b \in S
  BY DEF Following, Closed
<1>2. \A S \in SUBSET all : Closed(S, from, after) => \A x \in S : after[x] \subseteq S
  BY DEF Closed
<1>3. \A S \in SUBSET all : Closed(S, from, after) => from \subseteq S
  BY DEF Closed
<1>4. ASSUME NEW x \in Following(all, from, after), after[x] \subseteq all, NEW y \in after[x]
      PROVE  y \in Following(all, from, after)
  <2>1. \A S \in SUBSET all : Closed(S, from, after) => y \in S
    BY <1>1, <1>2, <1>4
  <2> QED
    BY <1>1, <1>4, <2>1
<1>5. ASSUME from \subseteq all, NEW y \in from PROVE y \in Following(all, from, after)
  BY <1>1, <1>3, <1>5
<1> QED
  BY <1>1, <1>4, <1>5

(* A snapshot sees itself and what it depends on.                            *)
LEMMA SightIsVisible ==
  ASSUME NEW c, NEW a \in SnapshotAliases(c), \A b \in SnapshotAliases(c) : Dependencies(c)[b] \subseteq SnapshotAliases(c)
  PROVE  InSight(c, a) = {a} \cup DependencyClosure(c, a)
<1> DEFINE all == SnapshotAliases(c)
           after == Dependencies(c)
           D == DependencyClosure(c, a)
           I == InSight(c, a)
<1> HIDE DEF all, after, D, I
<1>1. D = Following(all, after[a], after) /\ I = Following(all, {a}, after) /\ a \in all
      /\ \A b \in all : after[b] \subseteq all
  BY DEF all, after, D, I, DependencyClosure, InSight
<1>2. D \subseteq all /\ after[a] \subseteq D /\ (\A x \in D : after[x] \subseteq D)
      /\ \A S \in SUBSET all : Closed(S, after[a], after) => D \subseteq S
  <2>1. D \subseteq all
    BY <1>1, FollowingIsLeast
  <2> QED
    BY <1>1, <2>1, FollowingIsLeast
<1>3. I \subseteq all /\ {a} \subseteq I /\ (\A x \in I : after[x] \subseteq I)
      /\ \A S \in SUBSET all : Closed(S, {a}, after) => I \subseteq S
  <2>1. I \subseteq all
    BY <1>1, FollowingIsLeast
  <2>2. {a} \subseteq all
    BY <1>1
  <2> QED
    BY <1>1, <2>1, <2>2, FollowingIsLeast
<1>4. I \subseteq {a} \cup D
  <2>1. Closed({a} \cup D, {a}, after)
    BY <1>2 DEF Closed
  <2>2. {a} \cup D \in SUBSET all
    BY <1>1, <1>2
  <2> QED
    BY <1>3, <2>1, <2>2
<1>5. {a} \cup D \subseteq I
  <2>1. Closed(I, after[a], after)
    BY <1>3 DEF Closed
  <2> QED
    BY <1>2, <1>3, <2>1
<1> QED
  BY <1>4, <1>5 DEF D, I

(* A snapshot is known by its alias.                                         *)
IsCorpus(c) == c \in Corpora /\ Accepted(c)

LEMMA KnownByAlias ==
  ASSUME NEW c, IsCorpus(c)
  PROVE  /\ IsFiniteSet(SnapshotAliases(c)) /\ DOMAIN c = 1 .. Len(c) /\ Len(c) \in Nat
         /\ \A m, n \in DOMAIN c : c[m].alias = c[n].alias => m = n
         /\ \A s \in ToSet(c) : s.alias \in SnapshotAliases(c) /\ ByAlias(c, s.alias) = s
         /\ \A a \in SnapshotAliases(c) : ByAlias(c, a) \in ToSet(c) /\ ByAlias(c, a).alias = a
<1>1. c \in Seq(ToSet(c)) /\ Cardinality(SnapshotAliases(c)) = Len(c)
  BY CorporaAssumption, Zenon DEF IsCorpus, Accepted
<1>2. DOMAIN c = 1 .. Len(c) /\ Len(c) \in Nat
  BY <1>1
<1> DEFINE f == [n \in 1 .. Len(c) |-> c[n].alias]
<1>3. f \in Surjection(1 .. Len(c), SnapshotAliases(c))
  BY <1>2 DEF Surjection, SnapshotAliases
<1>4. IsFiniteSet(1 .. Len(c)) /\ Cardinality(1 .. Len(c)) = Len(c)
  <2>1. ASSUME NEW k \in Nat PROVE IsFiniteSet(1 .. k) /\ Cardinality(1 .. k) = k
    BY FS_Interval
  <2> QED
    BY <1>2, <2>1, Zenon
<1>5. f \in Injection(1 .. Len(c), SnapshotAliases(c)) /\ IsFiniteSet(SnapshotAliases(c))
  BY <1>1, <1>3, <1>4, FS_Surjection
<1>6. \A m, n \in DOMAIN c : c[m].alias = c[n].alias => m = n
  BY <1>2, <1>5 DEF Injection, IsInjective
<1>7. \A a \in SnapshotAliases(c) : \E s \in ToSet(c) : s.alias = a
  BY <1>2 DEF SnapshotAliases, ToSet
<1>8. \A a \in SnapshotAliases(c) : ByAlias(c, a) \in ToSet(c) /\ ByAlias(c, a).alias = a
  BY <1>7 DEF ByAlias
<1>9. \A s, t \in ToSet(c) : s.alias = t.alias => s = t
  BY <1>6 DEF ToSet
<1>10. \A s \in ToSet(c) : s.alias \in SnapshotAliases(c)
  BY DEF SnapshotAliases, ToSet
<1> QED
  BY <1>2, <1>5, <1>6, <1>8, <1>9, <1>10

-----------------------------------------------------------------------------
(* Of accepted corpora: what a snapshot sees.                                *)
LEMMA AcceptedDependencies ==
  ASSUME NEW c, IsCorpus(c)
  PROVE  \A a \in SnapshotAliases(c) : Dependencies(c)[a] \subseteq SnapshotAliases(c)
<1>1. \A s \in ToSet(c) : ToSet(s.deps) \subseteq SnapshotAliases(c)
  BY DEF IsCorpus, Accepted
<1> QED
  BY <1>1, KnownByAlias DEF Dependencies

LEMMA VisibleInSight ==
  ASSUME NEW c, IsCorpus(c), NEW s \in ToSet(c)
  PROVE  /\ VisibleAliases(c, s) = InSight(c, s.alias)
         /\ VisibleAliases(c, s) \subseteq SnapshotAliases(c)
         /\ s.alias \in VisibleAliases(c, s)
<1>1. s.alias \in SnapshotAliases(c)
  BY KnownByAlias
<1>2. InSight(c, s.alias) = {s.alias} \cup DependencyClosure(c, s.alias)
  BY <1>1, AcceptedDependencies, SightIsVisible
<1>3. InSight(c, s.alias) \subseteq SnapshotAliases(c)
  BY FollowingIsLeast DEF InSight
<1> QED
  BY <1>2, <1>3 DEF VisibleAliases

(* What a snapshot sees, the snapshots that it sees see no more of.          *)
LEMMA SightIsClosed ==
  ASSUME NEW c, IsCorpus(c), NEW a \in SnapshotAliases(c), NEW b \in InSight(c, a)
  PROVE  b \in SnapshotAliases(c) /\ InSight(c, b) \subseteq InSight(c, a)
<1> DEFINE all == SnapshotAliases(c)
           after == Dependencies(c)
<1>0. \A x \in all : after[x] \subseteq all
  BY AcceptedDependencies
<1> HIDE DEF all, after
<1>1. InSight(c, a) = Following(all, {a}, after) /\ InSight(c, b) = Following(all, {b}, after)
  BY DEF InSight, all, after
<1>2. InSight(c, a) \subseteq all
  BY <1>1, FollowingIsLeast
<1>3. \A x \in InSight(c, a) : after[x] \subseteq InSight(c, a)
  BY <1>0, <1>1, <1>2, FollowingIsLeast
<1>4. Closed(InSight(c, a), {b}, after)
  BY <1>3 DEF Closed
<1>5. InSight(c, b) \subseteq InSight(c, a)
  BY <1>1, <1>2, <1>4, FollowingIsLeast
<1> QED
  BY <1>2, <1>5 DEF all

(* Of one server a snapshot sees one version.                                *)
LEMMA OneServerInSight ==
  ASSUME NEW c, IsCorpus(c), NEW a \in SnapshotAliases(c), NEW x \in InSight(c, a), NEW y \in InSight(c, a),
         ByAlias(c, x).role = "postgres", ByAlias(c, y).role = "postgres", ByAlias(c, x).repo = ByAlias(c, y).repo
  PROVE  x = y
<1> DEFINE s == ByAlias(c, a)
<1>1. s \in ToSet(c) /\ s.alias = a
  BY KnownByAlias
<1>2. InSight(c, a) = {a} \cup DependencyClosure(c, a)
  BY <1>1, VisibleInSight DEF VisibleAliases
<1>3. CASE s.role = "postgres"
  <2>1. ToSet(s.deps) = {}
    <3>1. s.deps = <<>>
      BY <1>1, <1>3 DEF IsCorpus, Accepted
    <3> QED
      BY <3>1 DEF ToSet
  <2>2. Dependencies(c)[a] = {}
    BY <2>1 DEF Dependencies
  <2>3. Closed({}, Dependencies(c)[a], Dependencies(c))
    BY <2>2 DEF Closed
  <2>4. DependencyClosure(c, a) \subseteq {}
    BY <2>3, FollowingIsLeast DEF DependencyClosure
  <2> QED
    BY <1>2, <2>4
<1>4. CASE s.role # "postgres"
  <2>1. OneAliasPerServer(c, s)
    BY <1>1, <1>4 DEF IsCorpus, Accepted
  <2>2. x # a /\ y # a
    BY <1>4
  <2>3. x \in ValidatedClosure(c, s) /\ y \in ValidatedClosure(c, s)
    BY <1>1, <1>2, <2>2 DEF ValidatedClosure
  <2> QED
    BY <2>1, <2>3 DEF OneAliasPerServer
<1> QED
  BY <1>3, <1>4

(* Chains of links that stay in sight come to one version of a server.       *)
StaysInSight(c, edges) ==
  \A e \in edges : \A a \in SnapshotAliases(c) : e.source[1] = a => e.target[1] \in InSight(c, a)

LEMMA ChainsStay ==
  ASSUME NEW c, IsCorpus(c), NEW edges, StaysInSight(c, edges)
  PROVE  OneServerPerChain(c, edges)
<1> SUFFICES ASSUME NEW a \in SnapshotAliases(c) PROVE Following(SnapshotAliases(c), {a}, Leading(c, edges)) \subseteq InSight(c, a)
  <2>1. ASSUME NEW a \in SnapshotAliases(c), NEW x \in InSight(c, a), NEW y \in InSight(c, a)
        PROVE  /\ ByAlias(c, x).role = "postgres" /\ ByAlias(c, y).role = "postgres"
               /\ ByAlias(c, x).repo = ByAlias(c, y).repo
               => x = y
    BY <2>1, OneServerInSight
  <2> QED
    BY <2>1 DEF OneServerPerChain
<1> DEFINE all == SnapshotAliases(c)
           after == Leading(c, edges)
           I == InSight(c, a)
<1>1. I \subseteq all /\ a \in I
  <2>1. {a} \subseteq Following(all, {a}, Dependencies(c))
    BY FollowingIsLeast
  <2> QED
    BY <2>1, FollowingIsLeast DEF InSight
<1>2. \A x \in I : after[x] \subseteq I
  <2> SUFFICES ASSUME NEW x \in I, NEW e \in edges, e.source[1] = x PROVE e.target[1] \in I
    BY <1>1 DEF Leading
  <2>1. e.target[1] \in InSight(c, x)
    BY <1>1 DEF StaysInSight
  <2> QED
    BY <2>1, SightIsClosed
<1>3. Closed(I, {a}, after)
  BY <1>1, <1>2 DEF Closed
<1> QED
  BY <1>1, <1>3, FollowingIsLeast
-----------------------------------------------------------------------------
(* The facts of a table, by their names.                                     *)
NamedFacts(table, ids) == \A i \in ids : \E a : \E n \in Nat : i = <<a, table, n>>

LEMMA FactsOfTable ==
  ASSUME NEW c, IsCorpus(c), NEW aliases \in SUBSET SnapshotAliases(c), NEW table \in Tables
  PROVE  /\ IsFiniteSet(TableFacts(c, aliases, table)) /\ NamedFacts(table, TableFacts(c, aliases, table))
         /\ \A i \in TableFacts(c, aliases, table) :
              i[1] \in aliases /\ Fact(c, i) \in ToSet(ByAlias(c, i[1]).facts[table])
<1> DEFINE rows(a) == ByAlias(c, a).facts[table]
           g == [a \in aliases |-> {<<a, table, n>> : n \in DOMAIN rows(a)}]
<1>1. ASSUME NEW a \in aliases PROVE DOMAIN rows(a) = 1 .. Len(rows(a)) /\ Len(rows(a)) \in Nat
  <2>1. ByAlias(c, a) \in ToSet(c)
    BY KnownByAlias
  <2>2. rows(a) \in Seq(ToSet(rows(a)))
    BY <2>1, CorporaAssumption DEF IsCorpus, IsSnapshot
  <2> QED
    BY <2>2
<1>2. ASSUME NEW a \in aliases PROVE IsFiniteSet(g[a])
  <2> DEFINE h == [n \in DOMAIN rows(a) |-> <<a, table, n>>]
  <2>1. IsFiniteSet(DOMAIN rows(a))
    <3>1. \A k \in Nat : IsFiniteSet(1 .. k)
      BY FS_Interval
    <3> QED
      BY <1>1, <3>1
  <2>2. IsFiniteSet({h[n] : n \in DOMAIN rows(a)})
    BY <2>1, FiniteImage
  <2>3. g[a] = {h[n] : n \in DOMAIN rows(a)}
    BY Zenon
  <2> QED
    BY <2>2, <2>3
<1>3. IsFiniteSet(aliases)
  BY KnownByAlias, FS_Subset
<1>4. TableFacts(c, aliases, table) = UNION {g[a] : a \in aliases}
  BY DEF TableFacts
<1>5. \A i \in TableFacts(c, aliases, table) : \E a \in aliases : \E n \in DOMAIN rows(a) : i = <<a, table, n>>
  BY DEF TableFacts
<1>6. NamedFacts(table, TableFacts(c, aliases, table))
  BY <1>1, <1>5 DEF NamedFacts
<1>7. ASSUME NEW i \in TableFacts(c, aliases, table)
      PROVE  i[1] \in aliases /\ Fact(c, i) \in ToSet(ByAlias(c, i[1]).facts[table])
  <2>1. PICK a \in aliases : \E n \in DOMAIN rows(a) : i = <<a, table, n>>
    BY <1>5
  <2>2. PICK n \in DOMAIN rows(a) : i = <<a, table, n>>
    BY <2>1
  <2>3. i[1] = a /\ i[2] = table /\ i[3] = n
    BY <2>2
  <2> QED
    BY <2>3 DEF Fact, ToSet
<1> HIDE DEF g
<1>8. IsFiniteSet({g[a] : a \in aliases})
  BY <1>3, FiniteImage
<1>9. IsFiniteSet(UNION {g[a] : a \in aliases})
  BY <1>2, <1>8, FS_UNION
<1> QED
  BY <1>4, <1>6, <1>7, <1>9

(* Of facts one is distinct just when they are one and the same.             *)
Equal(c, i, j) == i[1] = j[1] /\ Unplaced(Fact(c, i)) = Unplaced(Fact(c, j))

LEMMA OneOfEquals ==
  ASSUME NEW c, NEW table, NEW ids, NamedFacts(table, ids), NEW i \in ids
  PROVE  \E d \in Distinct(c, ids) : Equal(c, d, i)
<1> DEFINE S == {j[3] : j \in {k \in ids : Equal(c, k, i)}}
<1>1. \A j \in ids : j[3] \in Nat
  BY DEF NamedFacts
<1>2. S \in SUBSET Nat /\ S # {}
  BY <1>1 DEF Equal
<1>3. Min(S) \in S /\ \A n \in S : Min(S) <= n
  BY <1>2, LeastMember
<1>4. PICK d \in ids : Equal(c, d, i) /\ d[3] = Min(S)
  BY <1>3
<1>5. \A j \in ids : Equal(c, j, d) => d[3] <= j[3]
  BY <1>3, <1>4 DEF Equal
<1> QED
  BY <1>4, <1>5 DEF Distinct, Equal

LEMMA DistinctIsOne ==
  ASSUME NEW c, NEW table, NEW ids, NamedFacts(table, ids), IsFiniteSet(ids)
  PROVE  /\ Distinct(c, ids) \subseteq ids /\ IsFiniteSet(Distinct(c, ids))
         /\ Distinct(c, ids) = {} <=> ids = {}
         /\ Cardinality(Distinct(c, ids)) = 1 <=> Same(c, ids)
<1>1. Distinct(c, ids) \subseteq ids
  BY DEF Distinct
<1>2. IsFiniteSet(Distinct(c, ids))
  BY <1>1, FS_Subset
<1>3. Distinct(c, ids) = {} <=> ids = {}
  BY <1>1, OneOfEquals
<1>4. ASSUME NEW d, Distinct(c, ids) = {d} PROVE Same(c, ids)
  <2>1. \A i \in ids : Equal(c, d, i)
    BY <1>4, OneOfEquals
  <2> QED
    BY <1>3, <1>4, <2>1 DEF Same, Equal
<1>5. ASSUME Same(c, ids) PROVE \E d : Distinct(c, ids) = {d}
  <2>1. PICK d : d \in Distinct(c, ids)
    BY <1>3, <1>5 DEF Same
  <2>2. ASSUME NEW e \in Distinct(c, ids) PROVE e = d
    <3>1. e \in ids /\ d \in ids
      BY <1>1, <2>1
    <3>2. Equal(c, d, e) /\ Equal(c, e, d)
      BY <1>5, <3>1 DEF Same, Equal
    <3>3. d[3] <= e[3] /\ e[3] <= d[3]
      BY <2>1, <3>1, <3>2 DEF Distinct, Equal
    <3>4. \A i \in {d, e} : i = <<i[1], table, i[3]>> /\ i[3] \in Nat
      BY <3>1 DEF NamedFacts
    <3> QED
      BY <3>2, <3>3, <3>4 DEF Equal
  <2> QED
    BY <2>1, <2>2
<1>6. Cardinality(Distinct(c, ids)) = 1 <=> \E d : Distinct(c, ids) = {d}
  BY <1>2, FS_Singleton
<1> QED
  BY <1>1, <1>2, <1>3, <1>4, <1>5, <1>6
-----------------------------------------------------------------------------
(* The routines that evidence may mean are, without copies, what its name
   means.                                                                    *)
SchemasOf(s, e) == IF e.schema # None THEN <<e.schema>> ELSE s.path
Applies(c, e, i) ==
  /\ Fact(c, i).name = e.name /\ Fact(c, i).kind \in RoutineTargetKinds(e.kind)
  /\ e.arity # None => TakesArguments(Fact(c, i), e.arity)
Preferred(s, ids) == IF {i \in ids : i[1] = s.alias} # {} THEN {i \in ids : i[1] = s.alias} ELSE ids

LEMMA EvidenceFound ==
  ASSUME NEW c, IsCorpus(c), NEW s \in ToSet(c), NEW e
  PROVE  /\ CandidateRoutines(c, s, e) = Distinct(c, EvidenceMeans(c, s, e))
         /\ EvidenceMeans(c, s, e) \subseteq TableFacts(c, VisibleAliases(c, s), "routines")
         /\ \A i \in EvidenceMeans(c, s, e) : Fact(c, i).name = e.name
<1> DEFINE schemas == SchemasOf(s, e)
           V == TableFacts(c, VisibleAliases(c, s), "routines")
           A(n) == {i \in V : Applies(c, e, i) /\ Fact(c, i).schema = schemas[n]}
           all == {i \in V : Applies(c, e, i) /\ Fact(c, i).schema \in ToSet(schemas)}
           places(i) == {n \in DOMAIN schemas : schemas[n] = Fact(c, i).schema}
           depth(i) == Min(places(i))
           own(i) == i[1] = s.alias
           meant == EvidenceMeans(c, s, e)
           having == {n \in DOMAIN schemas : Distinct(c, Preferred(s, A(n))) # {}}
<1>1. DOMAIN schemas \subseteq Nat
  <2>1. s.path \in Seq(ToSet(s.path))
    BY CorporaAssumption DEF IsCorpus, IsSnapshot
  <2> QED
    BY <2>1 DEF SchemasOf
<1>2. V = TableFacts(c, InSight(c, s.alias), "routines") /\ NamedFacts("routines", V) /\ IsFiniteSet(V)
  BY VisibleInSight, FactsOfTable DEF Tables
<1>3. meant = {i \in all : \A j \in all : ~(depth(j) < depth(i) \/ (depth(j) = depth(i) /\ own(j) /\ ~own(i)))}
  BY <1>2 DEF EvidenceMeans, Unhidden, Applies, SchemasOf
<1>4. \A n \in DOMAIN schemas : ScopedRoutines(c, s, e, schemas[n]) = Distinct(c, Preferred(s, A(n)))
  BY DEF ScopedRoutines, Preferred, Applies
<1>5. CandidateRoutines(c, s, e) = IF having = {} THEN {} ELSE Distinct(c, Preferred(s, A(Min(having))))
  <2> DEFINE scoped == [n \in DOMAIN schemas |-> ScopedRoutines(c, s, e, schemas[n])]
  <2>1. {n \in DOMAIN schemas : scoped[n] # {}} = having
    BY <1>4
  <2>2. having # {} => Min(having) \in DOMAIN schemas
    BY <1>1, LeastMember
  <2>3. CandidateRoutines(c, s, e) = IF having = {} THEN {} ELSE scoped[Min(having)]
    <3> DEFINE some == {n \in DOMAIN schemas : scoped[n] # {}}
    <3>1. CandidateRoutines(c, s, e) = IF some = {} THEN {} ELSE scoped[Min(some)]
      BY Zenon DEF CandidateRoutines, SchemasOf
    <3>2. some = having
      BY <2>1
    <3> HIDE DEF some, having, scoped
    <3> QED
      BY <3>1, <3>2, Zenon
  <2> QED
    BY <1>4, <2>2, <2>3
<1>6. \A n \in DOMAIN schemas : n \in having <=> A(n) # {}
  <2> SUFFICES ASSUME NEW n \in DOMAIN schemas PROVE Distinct(c, Preferred(s, A(n))) # {} <=> A(n) # {}
    OBVIOUS
  <2>1. Preferred(s, A(n)) \subseteq V /\ (Preferred(s, A(n)) # {} <=> A(n) # {})
    BY DEF Preferred
  <2>2. NamedFacts("routines", Preferred(s, A(n))) /\ IsFiniteSet(Preferred(s, A(n)))
    BY <1>2, <2>1, FS_Subset DEF NamedFacts
  <2> QED
    BY <2>1, <2>2, DistinctIsOne
<1>7. \A i \in all : places(i) # {} /\ places(i) \subseteq DOMAIN schemas
  BY DEF ToSet
<1>8. \A i \in all : depth(i) \in places(i) /\ \A n \in places(i) : depth(i) <= n
  BY <1>1, <1>7, LeastMember
<1>9. \A i \in all : depth(i) \in having /\ i \in A(depth(i)) /\ depth(i) \in Nat
  BY <1>1, <1>6, <1>7, <1>8
<1>10. \A n \in DOMAIN schemas : \A i \in A(n) : i \in all /\ n \in places(i)
  BY DEF ToSet
<1>11. ASSUME having = {} PROVE CandidateRoutines(c, s, e) = Distinct(c, meant)
  <2>1. all = {}
    BY <1>9, <1>11
  <2>2. meant = {} /\ CandidateRoutines(c, s, e) = {}
    BY <1>3, <1>5, <1>11, <2>1
  <2>3. Distinct(c, {}) = {}
    BY DEF Distinct
  <2> QED
    BY <2>2, <2>3
<1>12. ASSUME having # {} PROVE CandidateRoutines(c, s, e) = Distinct(c, meant)
  <2> DEFINE m == Min(having)
  <2>1. m \in having /\ (\A n \in having : m <= n) /\ m \in DOMAIN schemas /\ m \in Nat
    BY <1>1, <1>12, LeastMember
  <2> HIDE DEF m, having, depth, places, all
  <2>2. \A i \in A(m) : i \in all /\ depth(i) = m
    <3> SUFFICES ASSUME NEW i \in A(m) PROVE i \in all /\ depth(i) = m
      OBVIOUS
    <3>1. i \in all /\ m \in places(i)
      BY <1>10, <2>1
    <3>2. depth(i) <= m /\ depth(i) \in having /\ depth(i) \in Nat
      BY <1>8, <1>9, <3>1
    <3>3. m <= depth(i)
      BY <2>1, <3>2
    <3> QED
      BY <2>1, <3>1, <3>2, <3>3
  <2>3. \A i \in all : m <= depth(i) /\ depth(i) \in Nat /\ (depth(i) = m => i \in A(m))
    BY <1>9, <2>1
  <2>4. A(m) # {}
    BY <1>6, <2>1
  <2> HIDE DEF A
  <2>5. meant \subseteq Preferred(s, A(m))
    <3> SUFFICES ASSUME NEW i \in meant PROVE i \in Preferred(s, A(m))
      OBVIOUS
    <3>1. i \in all /\ \A j \in all : ~(depth(j) < depth(i) \/ (depth(j) = depth(i) /\ own(j) /\ ~own(i)))
      BY <1>3
    <3>2. PICK j \in A(m) : TRUE
      BY <2>4
    <3>3. depth(i) = m
      BY <2>1, <2>2, <2>3, <3>1, <3>2
    <3>4. i \in A(m)
      BY <2>3, <3>1, <3>3
    <3>5. (\E k \in A(m) : own(k)) => own(i)
      BY <2>2, <3>1, <3>3
    <3> QED
      BY <3>4, <3>5 DEF Preferred
  <2>6. Preferred(s, A(m)) \subseteq meant
    <3> SUFFICES ASSUME NEW i \in Preferred(s, A(m)) PROVE i \in meant
      OBVIOUS
    <3>1. i \in A(m) /\ ((\E k \in A(m) : own(k)) => own(i))
      BY DEF Preferred
    <3>2. i \in all /\ depth(i) = m
      BY <2>2, <3>1
    <3>3. ASSUME NEW j \in all PROVE ~(depth(j) < depth(i) \/ (depth(j) = depth(i) /\ own(j) /\ ~own(i)))
      <4>1. ~(depth(j) < depth(i))
        BY <2>1, <2>3, <3>2
      <4>2. depth(j) = depth(i) => j \in A(m)
        BY <2>3, <3>2
      <4> QED
        BY <3>1, <4>1, <4>2
    <3> QED
      BY <1>3, <3>2, <3>3
  <2>7. meant = Preferred(s, A(m))
    BY <2>5, <2>6
  <2> QED
    BY <1>5, <1>12, <2>7 DEF m
<1>13. CandidateRoutines(c, s, e) = Distinct(c, meant)
  BY <1>11, <1>12
<1>14. meant \subseteq V /\ \A i \in meant : Fact(c, i).name = e.name
  BY <1>3 DEF Applies
<1> HIDE DEF A, all, places, depth, having, schemas
<1> QED
  BY <1>13, <1>14
-----------------------------------------------------------------------------
(* The definitions that a call may mean are, without copies, what its name
   means.                                                                    *)
LEMMA CallFound ==
  ASSUME NEW c, IsCorpus(c), NEW s \in ToSet(c), NEW call
  PROVE  /\ CallTargets(c, s, call) = Distinct(c, CallMeans(c, s, call))
         /\ CallMeans(c, s, call) \subseteq TableFacts(c, VisibleAliases(c, s), "symbols")
         /\ \A i \in CallMeans(c, s, call) : Fact(c, i).name = call.callee
<1> DEFINE V == TableFacts(c, VisibleAliases(c, s), "symbols")
           own(i) == i[1] = s.alias
           static(i) == Fact(c, i).static
           meant == CallMeans(c, s, call)
           matches == {i \in V : /\ Fact(c, i).name = call.callee /\ Fact(c, i).kind = "function" /\ ~Fact(c, i).declaration
                                 /\ ~static(i) \/ (own(i) /\ Fact(c, i).path = call.path)}
           priority(i) == Priority(s, i, Fact(c, i))
           all == {priority(i) : i \in matches}
           nearest == {i \in matches : priority(i) = Min(all)}
<1>1. V = TableFacts(c, InSight(c, s.alias), "symbols")
      /\ \A i \in V : static(i) \in BOOLEAN
  <2>1. V = TableFacts(c, InSight(c, s.alias), "symbols")
    BY VisibleInSight
  <2>2. ASSUME NEW i \in V PROVE static(i) \in BOOLEAN
    <3>1. i[1] \in SnapshotAliases(c) /\ Fact(c, i) \in ToSet(ByAlias(c, i[1]).facts["symbols"])
      BY VisibleInSight, FactsOfTable DEF Tables
    <3>2. ByAlias(c, i[1]) \in ToSet(c)
      BY <3>1, KnownByAlias
    <3> QED
      BY <3>1, <3>2, CorporaAssumption DEF IsCorpus, IsSnapshot
  <2> QED
    BY <2>1, <2>2
<1>2. CallTargets(c, s, call) = Distinct(c, nearest)
  BY DEF CallTargets
<1>3. meant = {i \in matches : \A j \in matches : ~((own(j) /\ ~own(i)) \/ (static(j) /\ ~static(i)))}
  <2>1. {i \in NamedSymbols(c, s, call) :
           LET f == Fact(c, i)
           IN  /\ f.kind = "function" /\ ~f.declaration
               /\ f.static => i[1] = s.alias /\ f.path = call.path} = matches
    BY <1>1 DEF NamedSymbols
  <2> HIDE DEF matches
  <2> QED
    BY <2>1 DEF CallMeans, Unhidden
<1>4. \A i \in matches : /\ priority(i) \in {0, 1, 2} /\ static(i) \in BOOLEAN /\ (static(i) => own(i))
                         /\ (priority(i) = 2 <=> ~own(i)) /\ (priority(i) = 0 <=> own(i) /\ static(i))
  BY <1>1 DEF Priority
<1>5. all \in SUBSET Nat
  BY <1>4
<1>6. matches # {} => Min(all) \in all /\ \A n \in all : Min(all) <= n
  <2>1. matches # {} => all # {}
    OBVIOUS
  <2> HIDE DEF all
  <2> QED
    BY <1>5, <2>1, LeastMember
<1> HIDE DEF matches, priority
<1>7. \A i \in matches : i \in nearest <=> \A j \in matches : priority(i) <= priority(j)
  <2> SUFFICES ASSUME NEW i \in matches
               PROVE  i \in nearest <=> \A j \in matches : priority(i) <= priority(j)
    OBVIOUS
  <2>1. Min(all) \in all /\ \A n \in all : Min(all) <= n
    BY <1>6
  <2>2. PICK k \in matches : priority(k) = Min(all)
    BY <2>1
  <2>3. \A j \in matches : priority(k) <= priority(j)
    BY <2>1, <2>2
  <2>4. i \in nearest <=> priority(i) = priority(k)
    BY <2>2
  <2> QED
    BY <1>4, <2>3, <2>4
<1>8. nearest = meant
  <2>1. ASSUME NEW i \in matches, NEW j \in matches
        PROVE  ~(priority(i) <= priority(j)) <=> (own(j) /\ ~own(i)) \/ (static(j) /\ ~static(i))
    BY <1>4
  <2>2. nearest \subseteq matches /\ meant \subseteq matches
    BY <1>3
  <2>3. \A i \in matches : i \in meant <=> \A j \in matches : priority(i) <= priority(j)
    BY <1>3, <2>1
  <2> HIDE DEF nearest, meant
  <2> QED
    BY <1>7, <2>2, <2>3
<1>9. meant \subseteq V /\ \A i \in meant : Fact(c, i).name = call.callee
  <2>1. meant \subseteq matches
    BY <1>3
  <2> QED
    BY <2>1 DEF matches
<1> HIDE DEF nearest, all
<1> QED
  BY <1>2, <1>8, <1>9
-----------------------------------------------------------------------------
(* One candidate is kept.                                                    *)
LEMMA OneKept ==
  ASSUME NEW c, NEW i
  PROVE  Kept(c, {i}) = {i}
<1> DEFINE before(x, y) == \/ Fact(c, x).path < Fact(c, y).path
                           \/ Fact(c, x).path = Fact(c, y).path /\ x[3] < y[3]
<1>1. Cardinality({i}) = 1 /\ Cardinality({}) = 0
  BY FS_Singleton, FS_EmptySet
<1>2. (IF 1 < LinkCap THEN 1 ELSE LinkCap) = 1
  BY LinkCapAssumption
<1>3. \A kept \in SUBSET {i} : kept = {} \/ kept = {i}
  OBVIOUS
<1>4. \A x \in {i}, y \in {i} \ {i} : ~before(y, x)
  OBVIOUS
<1> HIDE DEF before
<1>5. Kept(c, {i}) = CHOOSE kept \in SUBSET {i} :
                        /\ Cardinality(kept) = IF Cardinality({i}) < LinkCap THEN Cardinality({i}) ELSE LinkCap
                        /\ \A x \in kept, y \in {i} \ kept : ~before(y, x)
  BY DEF Kept, before
<1> QED
  BY <1>1, <1>2, <1>3, <1>4, <1>5
-----------------------------------------------------------------------------
(* What is asserted of one fact.                                             *)
Exactly(c, s, e, found) ==
  /\ e.origin \in Origins /\ e.name # None /\ ~e.dynamic
  /\ Cardinality(found) = 1 /\ ~(e.origin = "python_execute" /\ e.receiver # "verified")
  /\ \A i \in found : KnowsArguments(e, Fact(c, i))

LEMMA EvidenceAsserts ==
  ASSUME NEW c, NEW s, NEW e, NEW id, NEW found, found = CandidateRoutines(c, s, e)
  PROVE  /\ \A l \in EvidenceLinks(c, s, id, e) : l.source = id
         /\ Asserted(EvidenceLinks(c, s, id, e)) = IF Exactly(c, s, e, found) THEN {LinkOne(c, id, e, i) : i \in found} ELSE {}
<1>1. \A i : LinkOne(c, id, e, i).source = id /\ LinkOne(c, id, e, i).kind \in {"documents", "invokes"}
  BY DEF LinkOne, Link
<1> DEFINE unverified == e.origin = "python_execute" /\ e.receiver # "verified"
           other == {Link(id, i, "candidate", IF unverified THEN "receiver_unverified" ELSE "ambiguous", None) :
                       i \in Kept(c, found)}
<1>2. \A l \in other : l.source = id /\ l.kind = "candidate"
  BY DEF Link
<1>3. EvidenceLinks(c, s, id, e) =
        IF Exactly(c, s, e, found) THEN {LinkOne(c, id, e, i) : i \in found}
        ELSE IF e.origin \notin Origins \/ e.name = None \/ e.dynamic THEN {} ELSE other
  BY DEF EvidenceLinks, RoutineLinks, Exactly
<1> HIDE DEF other
<1>4. CASE Exactly(c, s, e, found)
  BY <1>1, <1>3, <1>4 DEF Asserted
<1>5. CASE ~Exactly(c, s, e, found)
  <2>1. EvidenceLinks(c, s, id, e) \in {{}, other}
    BY <1>3, <1>5
  <2>2. Asserted(other) = {} /\ Asserted({}) = {}
    BY <1>2 DEF Asserted
  <2> QED
    BY <1>2, <1>5, <2>1, <2>2
<1> QED
  BY <1>4, <1>5

RoutineEdges(c, s, id, r) ==
  DescribedObject(c, id, r)
  \cup IF Binds(r) THEN BindingLinks(c, id, r, BindingAllowed(c, s, r), EntryPoints(c, s, r)) ELSE {}
BindingOne(c, id, r, i) == Link(id, i, "binds", IF Guards(r, Fact(c, i)) = {} THEN "exact" ELSE "conditional", r.line)
BindsOne(c, s, r, found) == Binds(r) /\ Cardinality(found) = 1 /\ BindingAllowed(c, s, r)

LEMMA RoutineAsserts ==
  ASSUME NEW c, NEW s, NEW r, NEW id, NEW found, found = EntryPoints(c, s, r)
  PROVE  /\ \A l \in RoutineEdges(c, s, id, r) : l.source = id
         /\ Asserted(RoutineEdges(c, s, id, r)) = IF BindsOne(c, s, r, found) THEN {BindingOne(c, id, r, i) : i \in found} ELSE {}
<1> DEFINE allowed == BindingAllowed(c, s, r)
           bindings == BindingLinks(c, id, r, allowed, found)
           described == DescribedObject(c, id, r)
<1>1. \A l \in described : l.source = id /\ l.kind = "describes"
  BY DEF DescribedObject, Link
<1>2. \A i : BindingOne(c, id, r, i).source = id /\ BindingOne(c, id, r, i).kind = "binds"
  BY DEF BindingOne, Link
<1>3. Cardinality(found) = 1 /\ allowed => bindings = {BindingOne(c, id, r, i) : i \in found}
  BY DEF BindingLinks, BindingOne
<1>4. ~(Cardinality(found) = 1 /\ allowed) => \A l \in bindings : l.source = id /\ l.kind = "candidate"
  BY DEF BindingLinks, Link
<1>5. RoutineEdges(c, s, id, r) = described \cup IF Binds(r) THEN bindings ELSE {}
  BY DEF RoutineEdges
<1> HIDE DEF described, bindings, allowed
<1>6. Asserted(described) = {}
  BY <1>1 DEF Asserted
<1>7. CASE BindsOne(c, s, r, found)
  <2>1. RoutineEdges(c, s, id, r) = described \cup {BindingOne(c, id, r, i) : i \in found}
    BY <1>3, <1>5, <1>7 DEF BindsOne, allowed
  <2> QED
    BY <1>1, <1>2, <1>6, <1>7, <2>1 DEF Asserted
<1>8. CASE ~BindsOne(c, s, r, found)
  <2>1. Binds(r) => \A l \in bindings : l.source = id /\ l.kind = "candidate"
    BY <1>4, <1>8 DEF BindsOne, allowed
  <2> QED
    BY <1>1, <1>5, <1>6, <1>8, <2>1 DEF Asserted
<1> QED
  BY <1>7, <1>8

CallSources(c, s, call) == CallOwners(c, s, call) \cup {<<s.alias, "evidence", call.evidence>>}
Skipped(c, s, call) ==
  \/ call.callee = "PG_FUNCTION_INFO_V1" \/ Cardinality(CallOwners(c, s, call)) # 1
  \/ call.callee = None \/ call.dynamic
CallEdges(c, s, call) ==
  IF Skipped(c, s, call) THEN {}
  ELSE CallLinks(c, s, call, CallSources(c, s, call), CallTargets(c, s, call), Macros(c, s, call))
CallsOne(c, s, call, found) ==
  /\ ~Skipped(c, s, call) /\ Macros(c, s, call) = {} /\ Cardinality(found) = 1
  /\ \A i \in found : Guards(call, Fact(c, i)) = {}
Called(call, source, i) == Link(source, i, "calls", "exact", call.line)

LEMMA CallAsserts ==
  ASSUME NEW c, NEW s, NEW call, IsFiniteSet(CallTargets(c, s, call))
  PROVE  /\ \A l \in CallEdges(c, s, call) : l.source \in CallSources(c, s, call) /\ ~Skipped(c, s, call)
         /\ \A l : l \in Asserted(CallEdges(c, s, call)) <=>
              /\ CallsOne(c, s, call, CallTargets(c, s, call))
              /\ \E source \in CallSources(c, s, call), i \in CallTargets(c, s, call) : l = Called(call, source, i)
<1> DEFINE found == CallTargets(c, s, call)
           sources == CallSources(c, s, call)
           single == Cardinality(found) = 1
           exact(i) == Macros(c, s, call) = {} /\ single /\ Guards(call, Fact(c, i)) = {}
           edge(source, i) == CallLink(source, call, i, Fact(c, i), exact(i), single)
           links == {edge(source, i) : source \in sources, i \in Kept(c, found)}
<1>1. CallEdges(c, s, call) = IF Skipped(c, s, call) THEN {} ELSE links
  BY DEF CallEdges, CallLinks
<1>2. \A source, i : /\ edge(source, i).source = source
                     /\ exact(i) => edge(source, i) = Called(call, source, i)
                     /\ ~exact(i) => edge(source, i).kind = "candidate"
  BY DEF CallLink, Called, Link
<1>3. \A source, i : Called(call, source, i).kind = "calls" /\ Called(call, source, i).source = source
  BY DEF Called, Link
<1>4. single => Kept(c, found) = found /\ \E i : found = {i}
  <2>1. single => \E i : found = {i}
    BY FS_Singleton
  <2> QED
    BY <2>1, OneKept
<1> HIDE DEF edge
<1>5. CASE CallsOne(c, s, call, found)
  <2>1. Kept(c, found) = found /\ \A i \in found : exact(i)
    BY <1>4, <1>5 DEF CallsOne
  <2>2. links = {Called(call, source, i) : source \in sources, i \in found}
    BY <1>2, <2>1
  <2>3. CallEdges(c, s, call) = links
    BY <1>1, <1>5 DEF CallsOne
  <2>4. Asserted(links) = links
    BY <1>3, <2>2 DEF Asserted
  <2>5. \A l \in links : l.source \in sources
    BY <1>3, <2>2
  <2>6. ~Skipped(c, s, call)
    BY <1>5 DEF CallsOne
  <2>7. \A l : l \in links <=> \E source \in sources, i \in found : l = Called(call, source, i)
    BY <2>2
  <2> HIDE DEF links, found, sources
  <2> QED
    BY <1>5, <2>3, <2>4, <2>5, <2>6, <2>7 DEF found, sources
<1>6. CASE ~CallsOne(c, s, call, found)
  <2>1. ~Skipped(c, s, call) => \A i \in Kept(c, found) : ~exact(i)
    <3> SUFFICES ASSUME ~Skipped(c, s, call), NEW i \in Kept(c, found), exact(i) PROVE FALSE
      OBVIOUS
    <3>1. found = {i}
      BY <1>4
    <3> QED
      BY <1>6, <3>1 DEF CallsOne
  <2>2. ~Skipped(c, s, call) => Asserted(links) = {}
    BY <1>2, <2>1 DEF Asserted
  <2>3. Asserted({}) = {}
    BY DEF Asserted
  <2>4. \A l \in links : l.source \in sources
    BY <1>2
  <2> HIDE DEF links
  <2> QED
    BY <1>1, <1>6, <2>2, <2>3, <2>4
<1> QED
  BY <1>5, <1>6
-----------------------------------------------------------------------------
(* All that is linked, snapshot by snapshot, table by table.                 *)
Linking == {"evidence", "routines", "calls"}
LinksOf(c, s, table, n) ==
  CASE table = "evidence" -> EvidenceLinks(c, s, <<s.alias, "evidence", n>>, s.facts.evidence[n])
    [] table = "routines" -> RoutineEdges(c, s, <<s.alias, "routines", n>>, s.facts.routines[n])
    [] OTHER -> CallEdges(c, s, s.facts.calls[n])
AllLinks(c) ==
  UNION {UNION {UNION {LinksOf(c, s, table, n) : n \in DOMAIN s.facts[table]} : table \in Linking} : s \in ToSet(c)}

LEMMA LinksAre ==
  ASSUME NEW c, NEW s, NEW n
  PROVE  /\ LinksOf(c, s, "evidence", n) = EvidenceLinks(c, s, <<s.alias, "evidence", n>>, s.facts.evidence[n])
         /\ LinksOf(c, s, "routines", n) = RoutineEdges(c, s, <<s.alias, "routines", n>>, s.facts.routines[n])
         /\ LinksOf(c, s, "calls", n) = CallEdges(c, s, s.facts.calls[n])
  BY DEF LinksOf

LEMMA FoundInSight ==
  ASSUME NEW c, IsCorpus(c), NEW s \in ToSet(c)
  PROVE  /\ \A e : /\ CandidateRoutines(c, s, e) \subseteq TableFacts(c, VisibleAliases(c, s), "routines")
                   /\ IsFiniteSet(CandidateRoutines(c, s, e))
         /\ \A call : /\ CallTargets(c, s, call) \subseteq TableFacts(c, VisibleAliases(c, s), "symbols")
                      /\ IsFiniteSet(CallTargets(c, s, call))
         /\ \A r : /\ EntryPoints(c, s, r) \subseteq TableFacts(c, VisibleAliases(c, s), "symbols")
                   /\ IsFiniteSet(EntryPoints(c, s, r))
<1> DEFINE R == TableFacts(c, VisibleAliases(c, s), "routines")
           F == TableFacts(c, VisibleAliases(c, s), "symbols")
<1>1. NamedFacts("routines", R) /\ IsFiniteSet(R) /\ NamedFacts("symbols", F) /\ IsFiniteSet(F)
  BY VisibleInSight, FactsOfTable DEF Tables
<1>2. \A ids : Distinct(c, ids) \subseteq ids
  BY DEF Distinct
<1>3. ASSUME NEW e PROVE CandidateRoutines(c, s, e) \subseteq R
  BY <1>2, EvidenceFound
<1>4. ASSUME NEW call PROVE CallTargets(c, s, call) \subseteq F
  BY <1>2, CallFound
<1>5. ASSUME NEW r PROVE EntryPoints(c, s, r) \subseteq F
  <2>1. {s.alias} \subseteq VisibleAliases(c, s) /\ Servers(c, s) \subseteq VisibleAliases(c, s)
    BY VisibleInSight DEF Servers
  <2>2. \A A \in SUBSET VisibleAliases(c, s) : TableFacts(c, A, "symbols") \subseteq F
    BY DEF TableFacts
  <2>3. EntryPoints(c, s, r) \subseteq TableFacts(c, IF r.language = "internal" THEN Servers(c, s) ELSE {s.alias}, "symbols")
    BY DEF EntryPoints
  <2> HIDE DEF F
  <2> QED
    BY <2>1, <2>2, <2>3
<1> HIDE DEF R, F
<1>6. \A X \in SUBSET R : IsFiniteSet(X)
  BY <1>1, FS_Subset
<1>7. \A X \in SUBSET F : IsFiniteSet(X)
  BY <1>1, FS_Subset
<1>8. (\A e : CandidateRoutines(c, s, e) \subseteq R) /\ (\A call : CallTargets(c, s, call) \subseteq F)
      /\ (\A r : EntryPoints(c, s, r) \subseteq F)
  BY <1>3, <1>4, <1>5
<1> QED
  BY <1>6, <1>7, <1>8 DEF R, F

(* A link of a fact; where those start, and where the asserted ones lead.    *)
Linked(c, s, table, n, l) == s \in ToSet(c) /\ table \in Linking /\ n \in DOMAIN s.facts[table] /\ l \in LinksOf(c, s, table, n)
StartsAt(c, s, table, n, l) ==
  /\ l.source[1] = s.alias
  /\ table # "calls" => l.source = <<s.alias, table, n>>
  /\ table = "calls" => l.source \in CallSources(c, s, s.facts.calls[n]) /\ ~Skipped(c, s, s.facts.calls[n])
  /\ l \in Asserted({l}) => l.target[1] \in VisibleAliases(c, s)

LEMMA LinksStartAt ==
  ASSUME NEW c, IsCorpus(c), NEW s, NEW table, NEW n, NEW l, Linked(c, s, table, n, l)
  PROVE  StartsAt(c, s, table, n, l)
<1>0. s \in ToSet(c) /\ table \in Linking /\ n \in DOMAIN s.facts[table] /\ l \in LinksOf(c, s, table, n)
  BY DEF Linked
<1>1. \A X : l \in X /\ l \in Asserted({l}) => l \in Asserted(X)
  BY DEF Asserted
<1>2. CASE table = "evidence"
  <2> DEFINE id == <<s.alias, "evidence", n>>
             e == s.facts.evidence[n]
             found == CandidateRoutines(c, s, e)
  <2>1. l \in EvidenceLinks(c, s, id, e)
    BY <1>0, <1>2, LinksAre
  <2>2. l.source = id
    BY <2>1, EvidenceAsserts
  <2>3. ASSUME l \in Asserted({l}) PROVE l.target[1] \in VisibleAliases(c, s)
    <3>1. l \in Asserted(EvidenceLinks(c, s, id, e))
      BY <1>1, <2>1, <2>3
    <3>2. PICK i \in found : l = LinkOne(c, id, e, i)
      BY <3>1, EvidenceAsserts
    <3>3. i[1] \in VisibleAliases(c, s)
      BY <1>0, FoundInSight, VisibleInSight, FactsOfTable DEF Tables
    <3> QED
      BY <3>2, <3>3 DEF LinkOne, Link
  <2> QED
    BY <1>2, <2>2, <2>3 DEF StartsAt
<1>3. CASE table = "routines"
  <2> DEFINE id == <<s.alias, "routines", n>>
             r == s.facts.routines[n]
             found == EntryPoints(c, s, r)
  <2>1. l \in RoutineEdges(c, s, id, r)
    BY <1>0, <1>3, LinksAre
  <2>2. l.source = id
    BY <2>1, RoutineAsserts
  <2>3. ASSUME l \in Asserted({l}) PROVE l.target[1] \in VisibleAliases(c, s)
    <3>1. l \in Asserted(RoutineEdges(c, s, id, r))
      BY <1>1, <2>1, <2>3
    <3>2. PICK i \in found : l = BindingOne(c, id, r, i)
      BY <3>1, RoutineAsserts
    <3>3. i[1] \in VisibleAliases(c, s)
      BY <1>0, FoundInSight, VisibleInSight, FactsOfTable DEF Tables
    <3> QED
      BY <3>2, <3>3 DEF BindingOne, Link
  <2> QED
    BY <1>3, <2>2, <2>3 DEF StartsAt
<1>4. CASE table = "calls"
  <2> DEFINE call == s.facts.calls[n]
             found == CallTargets(c, s, call)
  <2>0. IsFiniteSet(found)
    BY <1>0, FoundInSight
  <2>1. l \in CallEdges(c, s, call)
    BY <1>0, <1>4, LinksAre
  <2>2. l.source \in CallSources(c, s, call) /\ ~Skipped(c, s, call)
    BY <2>0, <2>1, CallAsserts
  <2>3. ASSUME l \in Asserted({l}) PROVE l.target[1] \in VisibleAliases(c, s)
    <3>1. l \in Asserted(CallEdges(c, s, call))
      BY <1>1, <2>1, <2>3
    <3>2. PICK source \in CallSources(c, s, call), i \in found : l = Called(call, source, i)
      BY <2>0, <3>1, CallAsserts
    <3>3. i[1] \in VisibleAliases(c, s)
      BY <1>0, FoundInSight, VisibleInSight, FactsOfTable DEF Tables
    <3> QED
      BY <3>2, <3>3 DEF Called, Link
  <2>4. l.source[1] = s.alias
    <3>1. \A i \in CallOwners(c, s, call) : i[1] = s.alias
      BY DEF CallOwners, TableFacts
    <3> QED
      BY <2>2, <3>1 DEF CallSources
  <2> QED
    BY <1>4, <2>2, <2>3, <2>4 DEF StartsAt
<1> QED
  BY <1>0, <1>2, <1>3, <1>4 DEF Linking
-----------------------------------------------------------------------------
(* The links of one source are those of one fact.                            *)
LEMMA LinkedBy ==
  ASSUME NEW c, NEW l
  PROVE  l \in AllLinks(c) <=> \E s, table, n : Linked(c, s, table, n, l)
  BY DEF AllLinks, Linked

LEMMA FromSnapshot ==
  ASSUME NEW c, IsCorpus(c), NEW s \in ToSet(c), NEW l \in AllLinks(c), l.source[1] = s.alias
  PROVE  \E table, n : Linked(c, s, table, n, l) /\ StartsAt(c, s, table, n, l)
<1>1. PICK t, table, n : Linked(c, t, table, n, l)
  BY LinkedBy
<1>2. StartsAt(c, t, table, n, l)
  BY <1>1, LinksStartAt
<1>3. t \in ToSet(c) /\ t.alias = s.alias
  BY <1>1, <1>2 DEF StartsAt, Linked
<1>4. t = s
  BY <1>3, KnownByAlias
<1> QED
  BY <1>1, <1>2, <1>4

(* Every link of a fact is made.                                             *)
LEMMA LinksMade ==
  ASSUME NEW c, NEW s \in ToSet(c), NEW n, NEW l
  PROVE  /\ n \in DOMAIN s.facts.evidence /\ l \in EvidenceLinks(c, s, <<s.alias, "evidence", n>>, s.facts.evidence[n])
            => l \in AllLinks(c)
         /\ n \in DOMAIN s.facts.routines /\ l \in RoutineEdges(c, s, <<s.alias, "routines", n>>, s.facts.routines[n])
            => l \in AllLinks(c)
         /\ n \in DOMAIN s.facts.calls /\ l \in CallEdges(c, s, s.facts.calls[n]) => l \in AllLinks(c)
<1>1. \A table \in Linking : n \in DOMAIN s.facts[table] /\ l \in LinksOf(c, s, table, n) => l \in AllLinks(c)
  <2>1. \A table \in Linking : n \in DOMAIN s.facts[table] /\ l \in LinksOf(c, s, table, n) => Linked(c, s, table, n, l)
    BY DEF Linked
  <2> QED
    BY <2>1, LinkedBy
<1>2. {"evidence", "routines", "calls"} = Linking
  BY DEF Linking
<1> QED
  BY <1>1, <1>2, LinksAre

FromSource(edges, id) == {l \in edges : l.source = id}

LEMMA CallSourcesAre ==
  ASSUME NEW c, NEW s, NEW call
  PROVE  /\ \A i \in CallOwners(c, s, call) : i[2] = "symbols"
         /\ \A i \in CallSources(c, s, call) : i[2] # "routines"
         /\ \A i \in CallSources(c, s, call) : i[2] = "evidence" => i = <<s.alias, "evidence", call.evidence>>
<1>1. \A i \in CallOwners(c, s, call) : i[2] = "symbols"
  BY DEF CallOwners, TableFacts
<1> QED
  BY <1>1 DEF CallSources

LEMMA AtEvidence ==
  ASSUME NEW c, IsCorpus(c), NEW s \in ToSet(c), NEW n \in DOMAIN s.facts.evidence,
         s.facts.evidence[n].origin \in Origins, NEW id, id = <<s.alias, "evidence", n>>
  PROVE  FromSource(Asserted(AllLinks(c)), id) = Asserted(EvidenceLinks(c, s, id, s.facts.evidence[n]))
<1> DEFINE here == EvidenceLinks(c, s, id, s.facts.evidence[n])
<1>1. id[1] = s.alias /\ id[2] = "evidence" /\ id[3] = n
  OBVIOUS
<1>2. ASSUME NEW l \in here PROVE l \in AllLinks(c) /\ l.source = id
  BY LinksMade, EvidenceAsserts
<1>3. ASSUME NEW l \in AllLinks(c), l.source = id PROVE l \in here
  <2>1. PICK table, m : Linked(c, s, table, m, l) /\ StartsAt(c, s, table, m, l)
    BY <1>1, <1>3, FromSnapshot
  <2>2. table \in Linking /\ m \in DOMAIN s.facts[table] /\ l \in LinksOf(c, s, table, m)
    BY <2>1 DEF Linked
  <2>3. table = "evidence"
    <3>1. table = "routines" => FALSE
      BY <1>1, <1>3, <2>1 DEF StartsAt
    <3>2. ASSUME table = "calls" PROVE FALSE
      <4>1. l.source \in CallSources(c, s, s.facts.calls[m])
        BY <2>1, <3>2 DEF StartsAt
      <4>2. s.facts.calls[m].evidence = n
        BY <1>1, <1>3, <4>1, CallSourcesAre
      <4>3. s.facts.evidence[n].origin = "native_call"
        BY <2>2, <3>2, <4>2, CorporaAssumption DEF IsCorpus, IsSnapshot, CallsAreEvidence
      <4> QED
        BY <4>3 DEF Origins, Documentation
    <3> QED
      BY <2>2, <3>1, <3>2 DEF Linking
  <2>4. m = n
    BY <1>1, <1>3, <2>1, <2>3 DEF StartsAt
  <2> QED
    BY <2>2, <2>3, <2>4, LinksAre
<1> HIDE DEF here
<1>4. FromSource(Asserted(AllLinks(c)), id) = Asserted(here)
  BY <1>2, <1>3 DEF FromSource, Asserted
<1> QED
  BY <1>4 DEF here

LEMMA AtRoutine ==
  ASSUME NEW c, IsCorpus(c), NEW s \in ToSet(c), NEW n \in DOMAIN s.facts.routines, NEW id, id = <<s.alias, "routines", n>>
  PROVE  FromSource(Asserted(AllLinks(c)), id) = Asserted(RoutineEdges(c, s, id, s.facts.routines[n]))
<1> DEFINE here == RoutineEdges(c, s, id, s.facts.routines[n])
<1>1. id[1] = s.alias /\ id[2] = "routines" /\ id[3] = n
  OBVIOUS
<1>2. ASSUME NEW l \in here PROVE l \in AllLinks(c) /\ l.source = id
  BY LinksMade, RoutineAsserts
<1>3. ASSUME NEW l \in AllLinks(c), l.source = id PROVE l \in here
  <2>1. PICK table, m : Linked(c, s, table, m, l) /\ StartsAt(c, s, table, m, l)
    BY <1>1, <1>3, FromSnapshot
  <2>2. table \in Linking /\ m \in DOMAIN s.facts[table] /\ l \in LinksOf(c, s, table, m)
    BY <2>1 DEF Linked
  <2>3. table = "routines"
    <3>1. table = "evidence" => FALSE
      BY <1>1, <1>3, <2>1 DEF StartsAt
    <3>2. ASSUME table = "calls" PROVE FALSE
      <4>1. l.source \in CallSources(c, s, s.facts.calls[m])
        BY <2>1, <3>2 DEF StartsAt
      <4> QED
        BY <1>1, <1>3, <4>1, CallSourcesAre
    <3> QED
      BY <2>2, <3>1, <3>2 DEF Linking
  <2>4. m = n
    BY <1>1, <1>3, <2>1, <2>3 DEF StartsAt
  <2> QED
    BY <2>2, <2>3, <2>4, LinksAre
<1> HIDE DEF here
<1>4. FromSource(Asserted(AllLinks(c)), id) = Asserted(here)
  BY <1>2, <1>3 DEF FromSource, Asserted
<1> QED
  BY <1>4 DEF here

LEMMA AtCall ==
  ASSUME NEW c, IsCorpus(c), NEW s \in ToSet(c), NEW n \in DOMAIN s.facts.calls,
         NEW id, id = <<s.alias, "evidence", s.facts.calls[n].evidence>>
  PROVE  FromSource(Asserted(AllLinks(c)), id) = FromSource(Asserted(CallEdges(c, s, s.facts.calls[n])), id)
<1> DEFINE here == CallEdges(c, s, s.facts.calls[n])
           place == s.facts.calls[n].evidence
<1>0. CallsAreEvidence(s.facts)
  BY CorporaAssumption DEF IsCorpus, IsSnapshot
<1>1. id[1] = s.alias /\ id[2] = "evidence" /\ id[3] = place
  OBVIOUS
<1>2. ASSUME NEW l \in here PROVE l \in AllLinks(c)
  BY LinksMade
<1>3. ASSUME NEW l \in AllLinks(c), l.source = id PROVE l \in here
  <2>1. PICK table, m : Linked(c, s, table, m, l) /\ StartsAt(c, s, table, m, l)
    BY <1>1, <1>3, FromSnapshot
  <2>2. table \in Linking /\ m \in DOMAIN s.facts[table] /\ l \in LinksOf(c, s, table, m)
    BY <2>1 DEF Linked
  <2>3. table = "calls"
    <3>1. table = "routines" => FALSE
      BY <1>1, <1>3, <2>1 DEF StartsAt
    <3>2. ASSUME table = "evidence" PROVE FALSE
      <4>1. m = place
        BY <1>1, <1>3, <2>1, <3>2 DEF StartsAt
      <4>2. s.facts.evidence[m].origin = "native_call"
        BY <1>0, <4>1 DEF CallsAreEvidence
      <4>3. EvidenceLinks(c, s, <<s.alias, "evidence", m>>, s.facts.evidence[m]) = {}
        BY <4>2 DEF EvidenceLinks, Origins, Documentation
      <4> QED
        BY <2>2, <3>2, <4>3, LinksAre
    <3> QED
      BY <2>2, <3>1, <3>2 DEF Linking
  <2>4. m = n
    <3>1. l.source \in CallSources(c, s, s.facts.calls[m])
      BY <2>1, <2>3 DEF StartsAt
    <3>2. s.facts.calls[m].evidence = place
      BY <1>1, <1>3, <3>1, CallSourcesAre
    <3> QED
      BY <1>0, <2>2, <2>3, <3>2 DEF CallsAreEvidence
  <2> QED
    BY <2>2, <2>3, <2>4, LinksAre
<1> HIDE DEF here
<1>4. FromSource(Asserted(AllLinks(c)), id) = FromSource(Asserted(here), id)
  BY <1>2, <1>3 DEF FromSource, Asserted
<1> QED
  BY <1>4 DEF here

LEMMA AtOwner ==
  ASSUME NEW c, IsCorpus(c), NEW s \in ToSet(c), NEW n, NEW id, id = <<s.alias, "symbols", n>>, NEW l
  PROVE  l \in FromSource(Asserted(AllLinks(c)), id) <=>
           \E m \in DOMAIN s.facts.calls : l \in FromSource(Asserted(CallEdges(c, s, s.facts.calls[m])), id)
<1>1. id[1] = s.alias /\ id[2] = "symbols"
  OBVIOUS
<1>2. ASSUME NEW m \in DOMAIN s.facts.calls, l \in CallEdges(c, s, s.facts.calls[m]) PROVE l \in AllLinks(c)
  BY <1>2, LinksMade
<1>3. ASSUME l \in AllLinks(c), l.source = id PROVE \E m \in DOMAIN s.facts.calls : l \in CallEdges(c, s, s.facts.calls[m])
  <2>1. PICK table, m : Linked(c, s, table, m, l) /\ StartsAt(c, s, table, m, l)
    BY <1>1, <1>3, FromSnapshot
  <2>2. table \in Linking /\ m \in DOMAIN s.facts[table] /\ l \in LinksOf(c, s, table, m)
    BY <2>1 DEF Linked
  <2>3. table = "calls"
    <3>1. table \notin {"evidence", "routines"}
      BY <1>1, <1>3, <2>1 DEF StartsAt
    <3> QED
      BY <2>2, <3>1 DEF Linking
  <2> QED
    BY <2>2, <2>3, LinksAre
<1> QED
  BY <1>2, <1>3 DEF FromSource, Asserted
-----------------------------------------------------------------------------
(* A link is asserted when the name means one thing that is known.           *)
LEMMA OneOrNone ==
  ASSUME NEW c, NEW edges, NEW source, NEW meant, NEW known, NEW found, NEW L, NEW exact \in BOOLEAN,
         found \subseteq meant, IsFiniteSet(found), Cardinality(found) = 1 <=> Same(c, meant),
         exact <=> known /\ Same(c, meant),
         FromSource(edges, source) = IF exact THEN {L[i] : i \in found} ELSE {},
         \A i \in found : L[i].target = i
  PROVE  AssertedIff(c, edges, source, meant, known)
<1> DEFINE links == FromSource(edges, source)
<1>1. links = {e \in edges : e.source = source}
  BY DEF FromSource
<1>2. CASE exact
  <2>1. PICK i : found = {i}
    BY <1>2, FS_Singleton
  <2>2. links = {L[i]} /\ L[i].target = i
    BY <1>2, <2>1
  <2>3. Cardinality(links) = 1
    BY <2>2, FS_Singleton
  <2>4. {e.target : e \in links} = {i}
    BY <2>2
  <2> HIDE DEF links
  <2> QED
    BY <1>1, <1>2, <2>1, <2>3, <2>4 DEF AssertedIff
<1>3. CASE ~exact
  <2>1. links = {} /\ Cardinality({}) = 0
    BY <1>3, FS_EmptySet
  <2> HIDE DEF links
  <2> QED
    BY <1>1, <1>3, <2>1 DEF AssertedIff
<1> QED
  BY <1>2, <1>3

(* Equal facts are alike in all that is asked of them.                       *)
LEMMA EqualsAlike ==
  ASSUME NEW c, NEW i, NEW j, Unplaced(Fact(c, i)) = Unplaced(Fact(c, j))
  PROVE  /\ DOMAIN Fact(c, i) = RoutineFields /\ DOMAIN Fact(c, j) = RoutineFields =>
              \A e : KnowsArguments(e, Fact(c, i)) <=> KnowsArguments(e, Fact(c, j))
         /\ DOMAIN Fact(c, i) = SymbolFields /\ DOMAIN Fact(c, j) = SymbolFields =>
              \A call : Guards(call, Fact(c, i)) = Guards(call, Fact(c, j))
<1>1. \A fields : DOMAIN Fact(c, i) = fields /\ DOMAIN Fact(c, j) = fields =>
                     \A f \in fields \ {"path", "line", "control"} : Fact(c, i)[f] = Fact(c, j)[f]
  <2> SUFFICES ASSUME NEW f, f \in DOMAIN Fact(c, i) \ {"path", "line", "control"},
                      f \in DOMAIN Fact(c, j) \ {"path", "line", "control"}
               PROVE  Fact(c, i)[f] = Fact(c, j)[f]
    OBVIOUS
  <2>1. Unplaced(Fact(c, i))[f] = Fact(c, i)[f] /\ Unplaced(Fact(c, j))[f] = Fact(c, j)[f]
    BY DEF Unplaced
  <2> QED
    BY <2>1
<1>2. DOMAIN Fact(c, i) = RoutineFields /\ DOMAIN Fact(c, j) = RoutineFields =>
        Fact(c, i).outs = Fact(c, j).outs /\ Fact(c, i).defaults = Fact(c, j).defaults
  BY <1>1 DEF RoutineFields
<1>3. DOMAIN Fact(c, i) = SymbolFields /\ DOMAIN Fact(c, j) = SymbolFields => Fact(c, i).condition = Fact(c, j).condition
  BY <1>1 DEF SymbolFields
<1> QED
  BY <1>2, <1>3 DEF KnowsArguments, Guards

LEMMA FactsTyped ==
  ASSUME NEW c, IsCorpus(c), NEW s \in ToSet(c)
  PROVE  /\ \A i \in TableFacts(c, VisibleAliases(c, s), "routines") : DOMAIN Fact(c, i) = RoutineFields /\ Fact(c, i).name # None
         /\ \A i \in TableFacts(c, VisibleAliases(c, s), "symbols") : DOMAIN Fact(c, i) = SymbolFields /\ Fact(c, i).name # None
<1>1. VisibleAliases(c, s) \in SUBSET SnapshotAliases(c)
  BY VisibleInSight
<1>2. ASSUME NEW table \in Tables, NEW i \in TableFacts(c, VisibleAliases(c, s), table)
      PROVE  \E t \in ToSet(c) : Fact(c, i) \in ToSet(t.facts[table])
  <2>1. i[1] \in SnapshotAliases(c) /\ Fact(c, i) \in ToSet(ByAlias(c, i[1]).facts[table])
    BY <1>1, FactsOfTable
  <2> QED
    BY <2>1, KnownByAlias
<1>3. \A t \in ToSet(c) : IsSnapshot(t)
  BY CorporaAssumption DEF IsCorpus
<1> QED
  BY <1>2, <1>3 DEF IsSnapshot, Tables

LEMMA EvidenceIsRight ==
  ASSUME NEW c, IsCorpus(c), NEW s \in ToSet(c), NEW n \in DOMAIN s.facts.evidence
  PROVE  EvidenceRight(c, s, Asserted(AllLinks(c)), n)
<1> DEFINE e == s.facts.evidence[n]
           id == <<s.alias, "evidence", n>>
           edges == Asserted(AllLinks(c))
           meant == EvidenceMeans(c, s, e)
           found == CandidateRoutines(c, s, e)
           known == /\ ~e.dynamic /\ (e.origin = "python_execute" => e.receiver = "verified")
                    /\ \A i \in meant : KnowsArguments(e, Fact(c, i))
           L == [i \in found |-> LinkOne(c, id, e, i)]
           exact == Exactly(c, s, e, found)
<1> SUFFICES ASSUME e.origin \in Origins PROVE AssertedIff(c, edges, id, meant, known)
  BY DEF EvidenceRight
<1>1. FromSource(edges, id) = IF exact THEN {L[i] : i \in found} ELSE {}
  <2>1. FromSource(edges, id) = Asserted(EvidenceLinks(c, s, id, e))
    BY AtEvidence
  <2>2. Asserted(EvidenceLinks(c, s, id, e)) = IF exact THEN {LinkOne(c, id, e, i) : i \in found} ELSE {}
    BY EvidenceAsserts
  <2>3. {L[i] : i \in found} = {LinkOne(c, id, e, i) : i \in found}
    OBVIOUS
  <2> HIDE DEF L, exact, found, edges
  <2> QED
    BY <2>1, <2>2, <2>3
<1>2. \A i \in found : L[i].target = i
  BY DEF LinkOne, Link
<1>3. found = Distinct(c, meant) /\ meant \subseteq TableFacts(c, VisibleAliases(c, s), "routines")
      /\ (\A i \in meant : Fact(c, i).name = e.name) /\ IsFiniteSet(found)
  BY EvidenceFound, FoundInSight
<1>4. found \subseteq meant /\ (Cardinality(found) = 1 <=> Same(c, meant))
  <2>1. NamedFacts("routines", meant) /\ IsFiniteSet(meant)
    BY <1>3, VisibleInSight, FactsOfTable, FS_Subset DEF NamedFacts, Tables
  <2> HIDE DEF found, meant
  <2> QED
    BY <1>3, <2>1, DistinctIsOne
<1>5. exact <=> known /\ Same(c, meant)
  <2>1. Same(c, meant) => e.name # None
    BY <1>3, FactsTyped DEF Same
  <2>2. ASSUME Same(c, meant), NEW i \in meant, NEW j \in meant
        PROVE  KnowsArguments(e, Fact(c, i)) <=> KnowsArguments(e, Fact(c, j))
    <3>1. Unplaced(Fact(c, i)) = Unplaced(Fact(c, j))
      BY <2>2 DEF Same
    <3>2. DOMAIN Fact(c, i) = RoutineFields /\ DOMAIN Fact(c, j) = RoutineFields
      BY <1>3, FactsTyped
    <3> HIDE DEF meant, e
    <3> QED
      BY <3>1, <3>2, EqualsAlike
  <2>3. Same(c, meant) => \E i \in found : i \in meant
    <3>1. Same(c, meant) => \E i : found = {i}
      BY <1>3, <1>4, FS_Singleton
    <3> QED
      BY <1>4, <3>1
  <2>4. Same(c, meant) => ((\A i \in found : KnowsArguments(e, Fact(c, i))) <=> (\A i \in meant : KnowsArguments(e, Fact(c, i))))
    BY <1>4, <2>2, <2>3
  <2> HIDE DEF meant, found
  <2> QED
    BY <1>4, <2>1, <2>4 DEF Exactly
<1>6. exact \in BOOLEAN
  BY DEF Exactly
<1> HIDE DEF e, id, edges, meant, found, known, L, exact
<1> QED
  BY <1>1, <1>2, <1>3, <1>4, <1>5, <1>6, OneOrNone
LEMMA CallAssertsAt ==
  ASSUME NEW c, IsCorpus(c), NEW s \in ToSet(c), NEW n \in DOMAIN s.facts.calls, NEW l
  PROVE  l \in FromSource(Asserted(AllLinks(c)), <<s.alias, "evidence", s.facts.calls[n].evidence>>) <=>
           /\ CallsOne(c, s, s.facts.calls[n], CallTargets(c, s, s.facts.calls[n]))
           /\ \E i \in CallTargets(c, s, s.facts.calls[n]) :
                 l = Called(s.facts.calls[n], <<s.alias, "evidence", s.facts.calls[n].evidence>>, i)
<1> DEFINE call == s.facts.calls[n]
           id == <<s.alias, "evidence", call.evidence>>
           found == CallTargets(c, s, call)
           exact == CallsOne(c, s, call, found)
           made == Asserted(CallEdges(c, s, call))
           sources == CallSources(c, s, call)
<1>1. IsFiniteSet(found)
  BY FoundInSight
<1>2. l \in made <=> exact /\ \E source \in sources, i \in found : l = Called(call, source, i)
  BY <1>1, CallAsserts
<1>3. FromSource(Asserted(AllLinks(c)), id) = FromSource(made, id)
  BY AtCall
<1>4. \A source, i : Called(call, source, i).source = source
  BY DEF Called, Link
<1>5. id \in sources
  BY DEF CallSources
<1>6. l \in FromSource(made, id) <=> l \in made /\ l.source = id
  BY DEF FromSource
<1> HIDE DEF call, id, found, exact, made, sources
<1>7. l \in FromSource(made, id) <=> exact /\ \E i \in found : l = Called(call, id, i)
  BY <1>2, <1>4, <1>5, <1>6
<1> QED
  BY <1>3, <1>7 DEF call, id, found, exact

LEMMA CallIsRight ==
  ASSUME NEW c, IsCorpus(c), NEW s \in ToSet(c), NEW n \in DOMAIN s.facts.calls
  PROVE  CallRight(c, s, Asserted(AllLinks(c)), n)
<1> DEFINE call == s.facts.calls[n]
           id == <<s.alias, "evidence", call.evidence>>
           edges == Asserted(AllLinks(c))
           meant == CallMeans(c, s, call)
           found == CallTargets(c, s, call)
           known == /\ ~call.dynamic /\ call.callee # "PG_FUNCTION_INFO_V1" /\ Cardinality(CallOwners(c, s, call)) = 1
                    /\ \A i \in NamedSymbols(c, s, call) : Fact(c, i).kind # "macro"
                    /\ \A i \in meant : Guards(call, Fact(c, i)) = {}
           L == [i \in found |-> Called(call, id, i)]
           exact == CallsOne(c, s, call, found)
<1> SUFFICES AssertedIff(c, edges, id, meant, known)
  BY DEF CallRight
<1>1. FromSource(edges, id) = IF exact THEN {L[i] : i \in found} ELSE {}
  <2>1. \A l : l \in FromSource(edges, id) <=> exact /\ \E i \in found : l = Called(call, id, i)
    BY CallAssertsAt
  <2>2. \A l : l \in {L[i] : i \in found} <=> \E i \in found : l = Called(call, id, i)
    OBVIOUS
  <2> HIDE DEF L, exact, found, edges
  <2> QED
    BY <2>1, <2>2
<1>2. \A i \in found : L[i].target = i
  BY DEF Called, Link
<1>3. found = Distinct(c, meant) /\ meant \subseteq TableFacts(c, VisibleAliases(c, s), "symbols")
      /\ (\A i \in meant : Fact(c, i).name = call.callee) /\ IsFiniteSet(found)
  BY CallFound, FoundInSight
<1>4. found \subseteq meant /\ (Cardinality(found) = 1 <=> Same(c, meant))
  <2>1. NamedFacts("symbols", meant) /\ IsFiniteSet(meant)
    BY <1>3, VisibleInSight, FactsOfTable, FS_Subset DEF NamedFacts, Tables
  <2> HIDE DEF found, meant
  <2> QED
    BY <1>3, <2>1, DistinctIsOne
<1>5. exact <=> known /\ Same(c, meant)
  <2>1. Same(c, meant) => call.callee # None
    BY <1>3, FactsTyped DEF Same
  <2>2. ASSUME Same(c, meant), NEW i \in meant, NEW j \in meant
        PROVE  Guards(call, Fact(c, i)) = Guards(call, Fact(c, j))
    <3>1. Unplaced(Fact(c, i)) = Unplaced(Fact(c, j))
      BY <2>2 DEF Same
    <3>2. DOMAIN Fact(c, i) = SymbolFields /\ DOMAIN Fact(c, j) = SymbolFields
      BY <1>3, FactsTyped
    <3> HIDE DEF meant, call
    <3> QED
      BY <3>1, <3>2, EqualsAlike
  <2>3. Same(c, meant) => \E i \in found : i \in meant
    <3>1. Same(c, meant) => \E i : found = {i}
      BY <1>3, <1>4, FS_Singleton
    <3> QED
      BY <1>4, <3>1
  <2>4. Same(c, meant) => ((\A i \in found : Guards(call, Fact(c, i)) = {}) <=> (\A i \in meant : Guards(call, Fact(c, i)) = {}))
    BY <1>4, <2>2, <2>3
  <2>5. Macros(c, s, call) = {} <=> \A i \in NamedSymbols(c, s, call) : Fact(c, i).kind # "macro"
    BY VisibleInSight DEF Macros, NamedSymbols
  <2> HIDE DEF meant, found
  <2> QED
    BY <1>4, <2>1, <2>4, <2>5 DEF CallsOne, Skipped
<1>6. exact \in BOOLEAN
  BY DEF CallsOne
<1> HIDE DEF call, id, edges, meant, found, known, L, exact
<1> QED
  BY <1>1, <1>2, <1>3, <1>4, <1>5, <1>6, OneOrNone

LEMMA OwnerIsRight ==
  ASSUME NEW c, IsCorpus(c), NEW s \in ToSet(c), NEW n
  PROVE  OwnerRight(c, s, Asserted(AllLinks(c)), n)
<1> DEFINE owner == <<s.alias, "symbols", n>>
           edges == Asserted(AllLinks(c))
           calls == s.facts.calls
           evidence(call) == <<s.alias, "evidence", call.evidence>>
           owned == {call \in ToSet(calls) : CallOwners(c, s, call) = {owner}}
           sources == {evidence(call) : call \in owned}
<1>1. \A x : x \in LinesTo(edges, {owner}) <=> \E l \in FromSource(edges, owner) : x = <<l.target, l.line>>
  BY DEF LinesTo, FromSource
<1>2. \A x : x \in LinesTo(edges, sources) <=>
               \E call \in owned : \E l \in FromSource(edges, evidence(call)) : x = <<l.target, l.line>>
  BY DEF LinesTo, FromSource
<1>3. \A call, source, i : /\ Called(call, source, i).source = source
                           /\ Called(call, source, i).target = i /\ Called(call, source, i).line = call.line
  BY DEF Called, Link
<1>4. \A call \in ToSet(calls) : \E m \in DOMAIN calls : call = calls[m]
  BY DEF ToSet
<1>5. \A m \in DOMAIN calls : calls[m] \in ToSet(calls)
  BY DEF ToSet
<1>6. ASSUME NEW l \in FromSource(edges, owner)
      PROVE  \E call \in owned : \E k \in FromSource(edges, evidence(call)) : k.target = l.target /\ k.line = l.line
  <2>1. PICK m \in DOMAIN calls : l \in FromSource(Asserted(CallEdges(c, s, calls[m])), owner)
    BY <1>6, AtOwner
  <2> DEFINE call == calls[m]
  <2>2. l \in Asserted(CallEdges(c, s, call)) /\ l.source = owner
    BY <2>1 DEF FromSource
  <2>3. CallsOne(c, s, call, CallTargets(c, s, call))
        /\ \E source \in CallSources(c, s, call), i \in CallTargets(c, s, call) : l = Called(call, source, i)
    <3>1. IsFiniteSet(CallTargets(c, s, call))
      BY FoundInSight
    <3> HIDE DEF call, edges, owner
    <3> QED
      BY <2>2, <3>1, CallAsserts
  <2>4. PICK source \in CallSources(c, s, call), i \in CallTargets(c, s, call) : l = Called(call, source, i)
    BY <2>3
  <2>5. owner \in CallOwners(c, s, call)
    BY <1>3, <2>2, <2>4 DEF CallSources
  <2>6. CallOwners(c, s, call) = {owner}
    <3>1. IsFiniteSet(CallOwners(c, s, call))
      <4>1. {s.alias} \in SUBSET SnapshotAliases(c)
        BY KnownByAlias
      <4>2. IsFiniteSet(TableFacts(c, {s.alias}, "symbols"))
        BY <4>1, FactsOfTable DEF Tables
      <4>3. CallOwners(c, s, call) \subseteq TableFacts(c, {s.alias}, "symbols")
        BY DEF CallOwners
      <4> QED
        BY <4>2, <4>3, FS_Subset
    <3>2. Cardinality(CallOwners(c, s, call)) = 1
      BY <2>3 DEF CallsOne, Skipped
    <3> QED
      BY <2>5, <3>1, <3>2, FS_Singleton
  <2>7. call \in owned
    BY <1>5, <2>6
  <2>8. Called(call, evidence(call), i) \in FromSource(edges, evidence(call))
    BY <2>3, <2>4, CallAssertsAt
  <2>9. LET k == Called(call, evidence(call), i) IN k.target = l.target /\ k.line = l.line
    BY <1>3, <2>4
  <2> HIDE DEF owned, edges, call, calls, evidence
  <2> QED
    BY <2>7, <2>8, <2>9
<1>7. ASSUME NEW call \in owned, NEW l \in FromSource(edges, evidence(call))
      PROVE  \E k \in FromSource(edges, owner) : k.target = l.target /\ k.line = l.line
  <2>1. PICK m \in DOMAIN calls : call = calls[m]
    BY <1>4
  <2>2. CallsOne(c, s, call, CallTargets(c, s, call)) /\ \E i \in CallTargets(c, s, call) : l = Called(call, evidence(call), i)
    BY <1>7, <2>1, CallAssertsAt
  <2>3. PICK i \in CallTargets(c, s, call) : l = Called(call, evidence(call), i)
    BY <2>2
  <2>4. owner \in CallSources(c, s, call)
    BY DEF CallSources
  <2>5. Called(call, owner, i) \in Asserted(CallEdges(c, s, call))
    <3>1. IsFiniteSet(CallTargets(c, s, call))
      BY FoundInSight
    <3> HIDE DEF owned, edges, owner, calls, evidence
    <3> QED
      BY <2>2, <2>4, <3>1, CallAsserts
  <2>6. Called(call, owner, i) \in FromSource(Asserted(CallEdges(c, s, calls[m])), owner)
    BY <1>3, <2>1, <2>5 DEF FromSource
  <2>7. Called(call, owner, i) \in FromSource(edges, owner)
    BY <2>6, AtOwner
  <2> HIDE DEF owned, edges, calls
  <2> QED
    BY <1>3, <2>3, <2>7
<1>8. LinesTo(edges, {owner}) = LinesTo(edges, sources)
  <2> HIDE DEF owned, edges, owner, sources, evidence
  <2>1. ASSUME NEW x \in LinesTo(edges, {owner}) PROVE x \in LinesTo(edges, sources)
    BY <1>1, <1>2, <1>6
  <2>2. ASSUME NEW x \in LinesTo(edges, sources) PROVE x \in LinesTo(edges, {owner})
    BY <1>1, <1>2, <1>7
  <2> QED
    BY <2>1, <2>2
<1> QED
  BY <1>8 DEF OwnerRight

LEMMA BindingIsRight ==
  ASSUME NEW c, IsCorpus(c), NEW s \in ToSet(c), NEW n \in DOMAIN s.facts.routines
  PROVE  BindingRight(c, s, Asserted(AllLinks(c)), n)
<1> DEFINE r == s.facts.routines[n]
           id == <<s.alias, "routines", n>>
           edges == Asserted(AllLinks(c))
           bound == {e.target : e \in {l \in edges : l.source = id}}
           places == IF r.language = "c" THEN {s.alias} ELSE {a \in InSight(c, s.alias) : ByAlias(c, a).role = "postgres"}
           named == {i \in TableFacts(c, places, "symbols") :
                       LET f == Fact(c, i) IN f.name = r.entry /\ f.kind = "function" /\ ~f.declaration /\ ~f.static}
           found == EntryPoints(c, s, r)
           exact == BindsOne(c, s, r, found)
<1>1. FromSource(edges, id) = IF exact THEN {BindingOne(c, id, r, i) : i \in found} ELSE {}
  <2>1. FromSource(edges, id) = Asserted(RoutineEdges(c, s, id, r))
    BY AtRoutine
  <2> HIDE DEF edges
  <2> QED
    BY <2>1, RoutineAsserts
<1>2. bound = IF exact THEN found ELSE {}
  <2>1. bound = {e.target : e \in FromSource(edges, id)}
    BY DEF FromSource
  <2>2. \A i : BindingOne(c, id, r, i).target = i
    BY DEF BindingOne, Link
  <2> HIDE DEF found, exact, bound, edges
  <2> QED
    BY <1>1, <2>1, <2>2
<1>3. Binds(r) => found = named
  <2>1. Binds(r) => places = IF r.language = "internal" THEN Servers(c, s) ELSE {s.alias}
    BY VisibleInSight DEF Binds, Servers
  <2> HIDE DEF places
  <2> QED
    BY <2>1 DEF EntryPoints
<1>4. BindingRight(c, s, edges, n) <=>
        IF Binds(r) /\ Cardinality(named) = 1 THEN bound = IF BindingAllowed(c, s, r) THEN named ELSE {} ELSE bound = {}
  BY DEF BindingRight
<1> HIDE DEF found, named, bound, edges, r
<1> QED
  BY <1>2, <1>3, <1>4 DEF BindsOne, edges

(* Of an accepted corpus all that is linked is right.                        *)
LinksRight(c, edges) ==
  /\ OneServerPerChain(c, edges)
  /\ \A s \in ToSet(c) :
       /\ \A n \in DOMAIN s.facts.evidence : EvidenceRight(c, s, edges, n)
       /\ \A n \in DOMAIN s.facts.calls : CallRight(c, s, edges, n)
       /\ \A n \in DOMAIN s.facts.symbols : OwnerRight(c, s, edges, n)
       /\ \A n \in DOMAIN s.facts.routines : BindingRight(c, s, edges, n)

LEMMA AllIsRight ==
  ASSUME NEW c, IsCorpus(c)
  PROVE  LinksRight(c, Asserted(AllLinks(c)))
<1> DEFINE edges == Asserted(AllLinks(c))
<1>1. StaysInSight(c, edges)
  <2> SUFFICES ASSUME NEW l \in edges, NEW a \in SnapshotAliases(c), l.source[1] = a PROVE l.target[1] \in InSight(c, a)
    BY DEF StaysInSight
  <2>1. l \in AllLinks(c) /\ l \in Asserted({l})
    BY DEF Asserted
  <2>2. PICK s, table, n : Linked(c, s, table, n, l)
    BY <2>1, LinkedBy
  <2>3. StartsAt(c, s, table, n, l) /\ s \in ToSet(c)
    BY <2>2, LinksStartAt DEF Linked
  <2>4. s.alias = a /\ l.target[1] \in VisibleAliases(c, s)
    BY <2>1, <2>3 DEF StartsAt
  <2> QED
    BY <2>3, <2>4, VisibleInSight
<1>2. OneServerPerChain(c, edges)
  BY <1>1, ChainsStay
<1> QED
  BY <1>2, EvidenceIsRight, CallIsRight, OwnerIsRight, BindingIsRight DEF LinksRight
-----------------------------------------------------------------------------
(* The tables are gone through in order: what is linked is what the facts    *)
(* behind the one at hand are linked to.                                     *)
TableRank(table) == CASE table = "evidence" -> 1 [] table = "routines" -> 2 [] OTHER -> 3
Behind(table, k, fact, t, m, n) ==
  \/ m < k
  \/ m = k /\ TableRank(t) < TableRank(table)
  \/ m = k /\ t = table /\ n < fact
LinkedBefore(c, table, k, fact, l) ==
  \E m \in DOMAIN c, t \in Linking : \E n \in DOMAIN c[m].facts[t] :
    Behind(table, k, fact, t, m, n) /\ l \in LinksOf(c, c[m], t, n)
LinkedSoFar(c, edges, at) ==
  \E table \in Linking, k \in DOMAIN c : \E fact \in 1 .. Len(c[k].facts[table]) + 1 :
    at = Passing(table, k, fact) /\ \A l : l \in edges <=> LinkedBefore(c, table, k, fact, l)
CorpusRequest ==
  /\ request = [tool |-> "corpus", corpus |-> request.corpus, edges |-> request.edges, status |-> request.status,
                graph |-> request.graph, diagnostics |-> request.diagnostics]
  /\ request.corpus \in Corpora
LinkInv ==
  /\ CorpusRequest
  /\ \/ progress = Idle /\ request.status = "new" /\ request.edges = {}
     \/ progress = Idle /\ request.status = "rejected"
     \/ IsCorpus(request.corpus) /\ request.status = "new" /\ LinkedSoFar(request.corpus, request.edges, progress)
     \/ /\ IsCorpus(request.corpus) /\ request.status = "committed" /\ progress = Idle
        /\ request.edges = AllLinks(request.corpus)

LEMMA TablesAre ==
  ASSUME NEW c, IsCorpus(c), NEW k \in DOMAIN c
  PROVE  /\ DOMAIN c = 1 .. Len(c) /\ Len(c) \in Nat /\ k \in Nat /\ c[k] \in ToSet(c)
         /\ \A table \in Linking : /\ DOMAIN c[k].facts[table] = 1 .. Len(c[k].facts[table])
                                   /\ Len(c[k].facts[table]) \in Nat
<1>1. DOMAIN c = 1 .. Len(c) /\ Len(c) \in Nat
  BY KnownByAlias
<1>2. c[k] \in ToSet(c)
  BY DEF ToSet
<1>3. ASSUME NEW table \in Linking PROVE c[k].facts[table] \in Seq(ToSet(c[k].facts[table]))
  BY <1>2, CorporaAssumption DEF IsCorpus, IsSnapshot, Linking, Tables
<1> QED
  BY <1>1, <1>2, <1>3

(* Of the steps through the tables: nothing is behind the first fact; one
   fact more is behind the next; the first of a table has all of the table
   before it behind it; and all is behind the end.                           *)
LEMMA FirstFact ==
  ASSUME NEW c, IsCorpus(c), NEW l, LinkedBefore(c, "evidence", 1, 1, l)
  PROVE  FALSE
<1>1. PICK m \in DOMAIN c, t \in Linking : \E n \in DOMAIN c[m].facts[t] : Behind("evidence", 1, 1, t, m, n)
  BY DEF LinkedBefore
<1>2. PICK n \in DOMAIN c[m].facts[t] : Behind("evidence", 1, 1, t, m, n)
  BY <1>1
<1>3. m \in Nat /\ m >= 1 /\ n \in Nat /\ n >= 1
  BY TablesAre
<1> QED
  BY <1>2, <1>3 DEF Behind, TableRank, Linking

After(table) == IF table = "evidence" THEN "routines" ELSE "calls"

LEMMA BehindNext ==
  ASSUME NEW c, IsCorpus(c), NEW table \in Linking, NEW k \in DOMAIN c, NEW fact \in DOMAIN c[k].facts[table],
         NEW m \in DOMAIN c, NEW t \in Linking, NEW n \in DOMAIN c[m].facts[t]
  PROVE  Behind(table, k, fact + 1, t, m, n) <=> Behind(table, k, fact, t, m, n) \/ (m = k /\ t = table /\ n = fact)
<1>1. m \in Nat /\ n \in Nat /\ k \in Nat
  BY TablesAre
<1>2. fact \in Nat
  BY TablesAre
<1>3. TableRank(t) \in Nat /\ TableRank(table) \in Nat
  BY DEF TableRank
<1> QED
  BY <1>1, <1>2, <1>3 DEF Behind

LEMMA BehindTable ==
  ASSUME NEW c, IsCorpus(c), NEW table \in {"evidence", "routines"}, NEW k \in DOMAIN c,
         NEW m \in DOMAIN c, NEW t \in Linking, NEW n \in DOMAIN c[m].facts[t]
  PROVE  Behind(After(table), k, 1, t, m, n) <=> Behind(table, k, Len(c[k].facts[table]) + 1, t, m, n)
<1>1. m \in Nat /\ n \in Nat /\ n >= 1 /\ k \in Nat
  BY TablesAre
<1>2. m = k /\ t = table => n < Len(c[k].facts[table]) + 1
  BY TablesAre
<1>3. TableRank(t) < TableRank(After(table)) <=> TableRank(t) < TableRank(table) \/ t = table
  BY DEF TableRank, After, Linking
<1> QED
  BY <1>1, <1>2, <1>3 DEF Behind

LEMMA BehindSnapshot ==
  ASSUME NEW c, IsCorpus(c), NEW k \in DOMAIN c, NEW last, last = Len(c[k].facts["calls"]) + 1,
         NEW m \in DOMAIN c, NEW t \in Linking, NEW n \in DOMAIN c[m].facts[t]
  PROVE  /\ Behind("calls", k, last, t, m, n) <=> m <= k
         /\ Behind("evidence", k + 1, 1, t, m, n) <=> m <= k
<1>1. m \in Nat /\ n \in Nat /\ n >= 1 /\ k \in Nat
  BY TablesAre
<1>2. m = k /\ t = "calls" => n < last
  BY TablesAre
<1>3. (TableRank(t) < TableRank("calls") <=> t # "calls") /\ ~(TableRank(t) < TableRank("evidence"))
  BY DEF TableRank, Linking
<1> QED
  BY <1>1, <1>2, <1>3 DEF Behind

LEMMA NextFact ==
  ASSUME NEW c, IsCorpus(c), NEW table \in Linking, NEW k \in DOMAIN c, NEW fact \in DOMAIN c[k].facts[table], NEW l
  PROVE  LinkedBefore(c, table, k, fact + 1, l) <=> LinkedBefore(c, table, k, fact, l) \/ l \in LinksOf(c, c[k], table, fact)
<1>1. ASSUME NEW m \in DOMAIN c, NEW t \in Linking, NEW n \in DOMAIN c[m].facts[t]
      PROVE  Behind(table, k, fact + 1, t, m, n) <=> Behind(table, k, fact, t, m, n) \/ (m = k /\ t = table /\ n = fact)
  BY BehindNext
<1> QED
  BY <1>1 DEF LinkedBefore

LEMMA NextTable ==
  ASSUME NEW c, IsCorpus(c), NEW table \in {"evidence", "routines"}, NEW k \in DOMAIN c, NEW l
  PROVE  LinkedBefore(c, After(table), k, 1, l) <=> LinkedBefore(c, table, k, Len(c[k].facts[table]) + 1, l)
<1>1. ASSUME NEW m \in DOMAIN c, NEW t \in Linking, NEW n \in DOMAIN c[m].facts[t]
      PROVE  Behind(After(table), k, 1, t, m, n) <=> Behind(table, k, Len(c[k].facts[table]) + 1, t, m, n)
  BY BehindTable
<1> QED
  BY <1>1 DEF LinkedBefore

LEMMA NextSnapshot ==
  ASSUME NEW c, IsCorpus(c), NEW k \in DOMAIN c, NEW l
  PROVE  /\ LinkedBefore(c, "evidence", k + 1, 1, l) <=> LinkedBefore(c, "calls", k, Len(c[k].facts["calls"]) + 1, l)
         /\ k = Len(c) => (l \in AllLinks(c) <=> LinkedBefore(c, "calls", k, Len(c[k].facts["calls"]) + 1, l))
<1> DEFINE last == Len(c[k].facts["calls"]) + 1
<1>1. ASSUME NEW m \in DOMAIN c, NEW t \in Linking, NEW n \in DOMAIN c[m].facts[t]
      PROVE  /\ Behind("calls", k, last, t, m, n) <=> m <= k
             /\ Behind("evidence", k + 1, 1, t, m, n) <=> m <= k
  BY BehindSnapshot
<1>2. ASSUME k = Len(c), NEW m \in DOMAIN c PROVE m <= k
  BY <1>2, TablesAre
<1>3. l \in AllLinks(c) <=>
        \E m \in DOMAIN c, t \in Linking : \E n \in DOMAIN c[m].facts[t] : l \in LinksOf(c, c[m], t, n)
  BY DEF AllLinks, ToSet
<1> HIDE DEF last
<1>4. LinkedBefore(c, "evidence", k + 1, 1, l) <=> LinkedBefore(c, "calls", k, last, l)
  BY <1>1 DEF LinkedBefore
<1>5. k = Len(c) => (l \in AllLinks(c) <=> LinkedBefore(c, "calls", k, last, l))
  BY <1>1, <1>2, <1>3 DEF LinkedBefore
<1> QED
  BY <1>4, <1>5 DEF last
-----------------------------------------------------------------------------
(* The steps.                                                                *)
LEMMA LinkingStarts == CorpusInit => LinkInv
<1> SUFFICES ASSUME CorpusInit PROVE LinkInv
  OBVIOUS
<1>1. PICK c \in Corpora : \E diagnostics :
        request = [tool |-> "corpus", corpus |-> c, edges |-> {}, status |-> "new", graph |-> None,
                   diagnostics |-> diagnostics]
  BY DEF CorpusInit
<1>2. PICK diagnostics :
        request = [tool |-> "corpus", corpus |-> c, edges |-> {}, status |-> "new", graph |-> None,
                   diagnostics |-> diagnostics]
  BY <1>1
<1>3. request.corpus = c /\ request.edges = {} /\ request.status = "new" /\ CorpusRequest
  BY <1>2 DEF CorpusRequest
<1> QED
  BY <1>3 DEF CorpusInit, LinkInv

LEMMA Answered ==
  ASSUME CorpusRequest, NEW status, Answer(status)
  PROVE  /\ progress' = Idle /\ request'.status = status /\ request'.edges = request.edges
         /\ request'.corpus = request.corpus /\ request'.graph = request.graph
         /\ request'.diagnostics = request.diagnostics /\ CorpusRequest'
<1>1. request' = [request EXCEPT !.status = status] /\ progress' = Idle
  BY DEF Answer
<1>2. request' = [tool |-> "corpus", corpus |-> request.corpus, edges |-> request.edges, status |-> status,
                  graph |-> request.graph, diagnostics |-> request.diagnostics]
  BY <1>1 DEF CorpusRequest
<1>3. /\ request'.status = status /\ request'.edges = request.edges /\ request'.corpus = request.corpus
      /\ request'.graph = request.graph /\ request'.diagnostics = request.diagnostics
  BY <1>2
<1> QED
  BY <1>1, <1>2, <1>3 DEF CorpusRequest

(* Whoever is at a fact of a table has linked what is behind it.             *)
AtFact(c, table, k, fact) ==
  /\ IsCorpus(c) /\ table \in Linking /\ k \in DOMAIN c /\ fact \in 1 .. Len(c[k].facts[table]) + 1
  /\ progress = Passing(table, k, fact) /\ request.status = "new"
  /\ \A l : l \in request.edges <=> LinkedBefore(c, table, k, fact, l)

LEMMA SomewhereInTables ==
  ASSUME LinkInv, progress.pc = "corpus"
  PROVE  /\ CorpusRequest
         /\ \E table, k, fact : AtFact(request.corpus, table, k, fact)
<1>1. progress # Idle
  BY DEF Idle
<1>2. IsCorpus(request.corpus) /\ request.status = "new" /\ LinkedSoFar(request.corpus, request.edges, progress)
  BY <1>1 DEF LinkInv
<1> QED
  BY <1>2 DEF LinkInv, LinkedSoFar, AtFact

LEMMA ArrivesAt ==
  ASSUME CorpusRequest', NEW c, request'.corpus = c, IsCorpus(c), request'.status = "new",
         NEW table \in Linking, NEW k \in DOMAIN c, NEW fact \in 1 .. Len(c[k].facts[table]) + 1,
         progress' = Passing(table, k, fact), \A l : l \in request'.edges <=> LinkedBefore(c, table, k, fact, l)
  PROVE  LinkInv'
<1>1. LinkedSoFar(c, request'.edges, progress')
  BY DEF LinkedSoFar
<1> QED
  BY <1>1 DEF LinkInv

LEMMA LinkingBegins == LinkInv /\ LoadCorpus => LinkInv'
<1> SUFFICES ASSUME LinkInv, LoadCorpus PROVE LinkInv'
  OBVIOUS
<1> DEFINE c == request.corpus
<1>1. CorpusRequest /\ progress.pc = "idle" /\ request.status = "new"
  BY DEF LinkInv, LoadCorpus, Asked
<1>2. request.edges = {}
  <2>1. ASSUME LinkedSoFar(c, request.edges, progress) PROVE FALSE
    BY <1>1, <2>1 DEF LinkedSoFar, Passing
  <2> QED
    BY <1>1, <2>1 DEF LinkInv
<1>3. CASE ~Accepted(c)
  <2>1. Answer("rejected")
    BY <1>3 DEF LoadCorpus
  <2> QED
    BY <1>1, <2>1, Answered DEF LinkInv
<1>4. CASE Accepted(c) /\ c = <<>>
  <2>1. Answer("committed")
    BY <1>4 DEF LoadCorpus
  <2>2. IsCorpus(c)
    BY <1>1, <1>4 DEF IsCorpus, CorpusRequest
  <2>3. AllLinks(c) = {}
    BY <1>4 DEF AllLinks, ToSet
  <2> QED
    BY <1>1, <1>2, <2>1, <2>2, <2>3, Answered DEF LinkInv
<1>5. CASE Accepted(c) /\ c # <<>>
  <2>1. progress' = Passing("evidence", 1, 1) /\ request' = request
    BY <1>5 DEF LoadCorpus
  <2>2. IsCorpus(c)
    BY <1>1, <1>5 DEF IsCorpus, CorpusRequest
  <2>3. 1 \in DOMAIN c
    <3>1. c \in Seq(ToSet(c))
      BY <1>1, CorporaAssumption DEF CorpusRequest
    <3> QED
      BY <1>5, <3>1
  <2>4. "evidence" \in Linking
    BY DEF Linking
  <2>5. 1 \in 1 .. Len(c[1].facts["evidence"]) + 1
    BY <2>2, <2>3, <2>4, TablesAre
  <2>6. \A l : l \in request.edges <=> LinkedBefore(c, "evidence", 1, 1, l)
    BY <1>2, <2>2, FirstFact
  <2>7. CorpusRequest' /\ request'.corpus = c /\ request'.status = "new" /\ request'.edges = request.edges
    BY <1>1, <2>1 DEF CorpusRequest
  <2> HIDE DEF c
  <2>8. \A l : l \in request'.edges <=> LinkedBefore(c, "evidence", 1, 1, l)
    BY <2>6, <2>7
  <2> QED
    BY <2>1, <2>2, <2>3, <2>4, <2>5, <2>7, <2>8, ArrivesAt
<1> QED
  BY <1>3, <1>4, <1>5

LEMMA FactAdded ==
  ASSUME CorpusRequest, NEW c, c = request.corpus, NEW table, NEW k, NEW fact, AtFact(c, table, k, fact),
         NEW new, NEW diagnostics, AddLinks(new, diagnostics)
  PROVE  /\ CorpusRequest' /\ request'.corpus = c /\ request'.edges = request.edges \cup new
         /\ request'.status = "new" /\ request'.diagnostics = diagnostics
         /\ progress' = Passing(table, k, fact + 1)
<1>1. request' = [request EXCEPT !.edges = @ \cup new, !.diagnostics = diagnostics]
      /\ progress' = [progress EXCEPT !.fact = @ + 1]
  BY DEF AddLinks
<1>2. request' = [tool |-> "corpus", corpus |-> request.corpus, edges |-> request.edges \cup new,
                  status |-> request.status, graph |-> request.graph, diagnostics |-> diagnostics]
  <2>1. PICK e : e = request.edges \cup new
    OBVIOUS
  <2>2. request' = [request EXCEPT !.edges = e, !.diagnostics = diagnostics]
    BY <1>1, <2>1, Zenon
  <2>3. request' = [tool |-> "corpus", corpus |-> request.corpus, edges |-> e, status |-> request.status,
                    graph |-> request.graph, diagnostics |-> diagnostics]
    <3>1. PICK edges, status, graph, old :
            request = [tool |-> "corpus", corpus |-> c, edges |-> edges, status |-> status, graph |-> graph,
                       diagnostics |-> old]
      BY DEF CorpusRequest
    <3>2. [request EXCEPT !.edges = e, !.diagnostics = diagnostics] =
            [tool |-> "corpus", corpus |-> c, edges |-> e, status |-> status, graph |-> graph,
             diagnostics |-> diagnostics]
      <4>1. PICK middle : middle = [request EXCEPT !.edges = e]
        OBVIOUS
      <4>2. middle =
              [tool |-> "corpus", corpus |-> c, edges |-> e, status |-> status, graph |-> graph, diagnostics |-> old]
        BY <3>1, <4>1
      <4>3. [middle EXCEPT !.diagnostics = diagnostics] =
              [tool |-> "corpus", corpus |-> c, edges |-> e, status |-> status, graph |-> graph,
               diagnostics |-> diagnostics]
        BY <4>2
      <4>4. [request EXCEPT !.edges = e, !.diagnostics = diagnostics] = [middle EXCEPT !.diagnostics = diagnostics]
        BY <4>1
      <4> QED
        BY <4>3, <4>4
    <3>3. request.status = status /\ request.graph = graph
      BY <3>1
    <3> QED
      BY <2>2, <3>2, <3>3
  <2> QED
    BY <2>1, <2>3
<1>3. /\ request'.corpus = c /\ request'.edges = request.edges \cup new /\ request'.status = "new"
      /\ request'.graph = request.graph /\ request'.diagnostics = diagnostics
  BY <1>2 DEF AtFact
<1>4. CorpusRequest'
  BY <1>2, <1>3 DEF CorpusRequest, AtFact
<1>5. progress' = Passing(table, k, fact + 1)
  BY <1>1 DEF AtFact, Passing
<1> QED
  BY <1>3, <1>4, <1>5
LEMMA FactLinked ==
  ASSUME CorpusRequest, NEW c, c = request.corpus, NEW table, NEW k, NEW fact, AtFact(c, table, k, fact),
         fact <= Len(c[k].facts[table]), NEW diagnostics, AddLinks(LinksOf(c, c[k], table, fact), diagnostics)
  PROVE  LinkInv'
<1> DEFINE new == LinksOf(c, c[k], table, fact)
           rows == c[k].facts[table]
<1> HIDE DEF new
<1>1. /\ CorpusRequest' /\ request'.corpus = c /\ request'.edges = request.edges \cup new /\ request'.status = "new"
      /\ progress' = Passing(table, k, fact + 1)
  <2>1. AddLinks(new, diagnostics)
    BY DEF new
  <2> QED
    BY <2>1, FactAdded
<1>2. IsCorpus(c) /\ table \in Linking /\ k \in DOMAIN c /\ fact \in 1 .. Len(rows) + 1
  BY DEF AtFact
<1>3. fact \in DOMAIN rows /\ fact + 1 \in 1 .. Len(rows) + 1
  <2>1. Len(rows) \in Nat /\ DOMAIN rows = 1 .. Len(rows)
    BY <1>2, TablesAre
  <2> QED
    BY <1>2, <2>1
<1>4. \A l : l \in request'.edges <=> LinkedBefore(c, table, k, fact + 1, l)
  <2>1. \A l : l \in request.edges <=> LinkedBefore(c, table, k, fact, l)
    BY DEF AtFact
  <2>2. \A l : LinkedBefore(c, table, k, fact + 1, l) <=> LinkedBefore(c, table, k, fact, l) \/ l \in new
    BY <1>2, <1>3, NextFact DEF new
  <2> QED
    BY <1>1, <2>1, <2>2
<1> QED
  BY <1>1, <1>2, <1>3, <1>4, ArrivesAt

(* What AtTable says of the place.                                           *)
LEMMA HandAt ==
  ASSUME LinkInv, NEW table, AtTable(table)
  PROVE  /\ CorpusRequest
         /\ \E k, fact : /\ AtFact(request.corpus, table, k, fact) /\ fact <= Len(request.corpus[k].facts[table])
                         /\ Current = request.corpus[k] /\ Id(table) = <<request.corpus[k].alias, table, fact>>
                         /\ FactNow(table) = request.corpus[k].facts[table][fact]
<1>1. PICK t, k, fact : AtFact(request.corpus, t, k, fact)
  BY SomewhereInTables DEF AtTable
<1>2. CorpusRequest
  BY SomewhereInTables DEF AtTable
<1>3. progress = Passing(t, k, fact)
  BY <1>1 DEF AtFact
<1>4. progress.snapshot = k /\ progress.fact = fact /\ progress.table = t
  BY <1>3 DEF Passing
<1>5. t = table /\ Current = request.corpus[k]
  BY <1>4 DEF AtTable, Current
<1> QED
  BY <1>1, <1>2, <1>4, <1>5 DEF AtTable, Id, FactNow

LEMMA EvidenceStep == LinkInv /\ LinkEvidence => LinkInv'
<1> SUFFICES ASSUME LinkInv, LinkEvidence PROVE LinkInv'
  OBVIOUS
<1>1. AtTable("evidence")
  BY DEF LinkEvidence
<1>2. PICK k, fact :
        /\ AtFact(request.corpus, "evidence", k, fact) /\ fact <= Len(request.corpus[k].facts["evidence"])
        /\ Current = request.corpus[k] /\ Id("evidence") = <<request.corpus[k].alias, "evidence", fact>>
        /\ FactNow("evidence") = request.corpus[k].facts["evidence"][fact]
  BY <1>1, HandAt
<1>3. EvidenceLinks(request.corpus, Current, Id("evidence"), FactNow("evidence"))
        = LinksOf(request.corpus, request.corpus[k], "evidence", fact)
  BY <1>2, LinksAre
<1>4. AddLinks(LinksOf(request.corpus, request.corpus[k], "evidence", fact), request.diagnostics)
  BY <1>3 DEF LinkEvidence
<1> QED
  BY <1>1, <1>2, <1>4, HandAt, FactLinked

LEMMA RoutineStep == LinkInv /\ BindRoutine => LinkInv'
<1> SUFFICES ASSUME LinkInv, BindRoutine PROVE LinkInv'
  OBVIOUS
<1>1. AtTable("routines")
  BY DEF BindRoutine
<1>2. PICK k, fact :
        /\ AtFact(request.corpus, "routines", k, fact) /\ fact <= Len(request.corpus[k].facts["routines"])
        /\ Current = request.corpus[k] /\ Id("routines") = <<request.corpus[k].alias, "routines", fact>>
        /\ FactNow("routines") = request.corpus[k].facts["routines"][fact]
  BY <1>1, HandAt
<1>3. RoutineEdges(request.corpus, Current, Id("routines"), FactNow("routines"))
        = LinksOf(request.corpus, request.corpus[k], "routines", fact)
  BY <1>2, LinksAre
<1>4. \E diagnostics :
        AddLinks(RoutineEdges(request.corpus, Current, Id("routines"), FactNow("routines")), diagnostics)
  BY DEF BindRoutine, RoutineFact, RoutineEdges
<1>5. PICK diagnostics : AddLinks(LinksOf(request.corpus, request.corpus[k], "routines", fact), diagnostics)
  BY <1>3, <1>4
<1> QED
  BY <1>1, <1>2, <1>5, HandAt, FactLinked

LEMMA CallStep == LinkInv /\ LinkCall => LinkInv'
<1> SUFFICES ASSUME LinkInv, LinkCall PROVE LinkInv'
  OBVIOUS
<1>1. AtTable("calls")
  BY DEF LinkCall
<1>2. PICK k, fact :
        /\ AtFact(request.corpus, "calls", k, fact) /\ fact <= Len(request.corpus[k].facts["calls"])
        /\ Current = request.corpus[k] /\ Id("calls") = <<request.corpus[k].alias, "calls", fact>>
        /\ FactNow("calls") = request.corpus[k].facts["calls"][fact]
  BY <1>1, HandAt
<1>3. CallEdges(request.corpus, Current, FactNow("calls"))
        = LinksOf(request.corpus, request.corpus[k], "calls", fact)
  BY <1>2, LinksAre
<1>4. \E diagnostics : AddLinks(CallEdges(request.corpus, Current, FactNow("calls")), diagnostics)
  BY DEF LinkCall, CallFact, CallEdges, Skipped, CallSources
<1>5. PICK diagnostics : AddLinks(LinksOf(request.corpus, request.corpus[k], "calls", fact), diagnostics)
  BY <1>3, <1>4
<1> QED
  BY <1>1, <1>2, <1>5, HandAt, FactLinked

LEMMA TableStep == LinkInv /\ EndTable => LinkInv'
<1> SUFFICES ASSUME LinkInv, EndTable PROVE LinkInv'
  OBVIOUS
<1> DEFINE c == request.corpus
<1>1. PICK table, k, fact : AtFact(c, table, k, fact)
  BY SomewhereInTables DEF EndTable
<1>2. CorpusRequest
  BY SomewhereInTables DEF EndTable
<1>3. IsCorpus(c) /\ table \in Linking /\ k \in DOMAIN c /\ fact \in 1 .. Len(c[k].facts[table]) + 1
      /\ request.status = "new" /\ \A l : l \in request.edges <=> LinkedBefore(c, table, k, fact, l)
  BY <1>1 DEF AtFact
<1>4. progress.table = table /\ progress.snapshot = k /\ progress.fact = fact
  BY <1>1 DEF AtFact, Passing
<1>5. Len(c[k].facts[table]) \in Nat /\ k \in 1 .. Len(c) /\ Len(c) \in Nat
  BY <1>3, TablesAre
<1>6. fact = Len(c[k].facts[table]) + 1
  BY <1>3, <1>4, <1>5 DEF EndTable, Current
<1>7. {"evidence", "routines", "calls"} = Linking
  BY DEF Linking
<1>8. CASE table = "calls" /\ k = Len(c)
  <2>1. Answer("committed")
    BY <1>4, <1>8 DEF EndTable
  <2>2. \A l : l \in request.edges <=> l \in AllLinks(c)
    BY <1>3, <1>6, <1>8, NextSnapshot
  <2>3. request.edges = AllLinks(c)
    BY <2>2
  <2> QED
    BY <1>2, <1>3, <2>1, <2>3, Answered DEF LinkInv
<1>9. CASE ~(table = "calls" /\ k = Len(c))
  <2>1. request' = request
        /\ progress' = CASE table = "evidence" -> Passing("routines", k, 1)
                         [] table = "routines" -> Passing("calls", k, 1)
                         [] OTHER -> Passing("evidence", k + 1, 1)
    BY <1>4, <1>9 DEF EndTable
  <2>2. CorpusRequest' /\ request'.corpus = c /\ request'.status = "new" /\ request'.edges = request.edges
    BY <1>2, <1>3, <2>1 DEF CorpusRequest
  <2>3. CASE table \in {"evidence", "routines"}
    <3>1. progress' = Passing(After(table), k, 1) /\ After(table) \in Linking
      BY <1>7, <2>1, <2>3 DEF After
    <3>2. 1 \in 1 .. Len(c[k].facts[After(table)]) + 1
      BY <1>3, <3>1, TablesAre
    <3>3. \A l : l \in request'.edges <=> LinkedBefore(c, After(table), k, 1, l)
      BY <1>3, <1>6, <2>2, <2>3, NextTable
    <3> HIDE DEF c
    <3> QED
      BY <1>3, <2>2, <3>1, <3>2, <3>3, ArrivesAt
  <2>4. CASE table = "calls"
    <3>1. progress' = Passing("evidence", k + 1, 1) /\ "evidence" \in Linking
      BY <1>7, <2>1, <2>4
    <3>2. k + 1 \in DOMAIN c
      BY <1>3, <1>5, <1>9, <2>4, TablesAre
    <3>3. 1 \in 1 .. Len(c[k + 1].facts["evidence"]) + 1
      BY <1>3, <3>1, <3>2, TablesAre
    <3>4. \A l : l \in request'.edges <=> LinkedBefore(c, "evidence", k + 1, 1, l)
      BY <1>3, <1>6, <2>2, <2>4, NextSnapshot
    <3> HIDE DEF c
    <3> QED
      BY <1>3, <2>2, <3>1, <3>2, <3>3, <3>4, ArrivesAt
  <2> QED
    BY <1>3, <1>7, <2>3, <2>4
<1> QED
  BY <1>8, <1>9

LEMMA LinkingStep == LinkInv /\ [CorpusNext]_vars => LinkInv'
<1> SUFFICES ASSUME LinkInv, [CorpusNext]_vars PROVE LinkInv'
  OBVIOUS
<1>1. CASE CorpusNext
  BY <1>1, LinkingBegins, EvidenceStep, RoutineStep, CallStep, TableStep DEF CorpusNext
<1>2. CASE UNCHANGED vars
  BY <1>2 DEF vars, LinkInv, CorpusRequest
<1> QED
  BY <1>1, <1>2

LEMMA LinkingRight == LinkInv => CorpusLinksRight
<1> SUFFICES ASSUME LinkInv, request.status = "committed" PROVE CorpusLinksRight
  BY DEF CorpusLinksRight
<1>1. IsCorpus(request.corpus) /\ request.edges = AllLinks(request.corpus)
  BY DEF LinkInv
<1>2. LinksRight(request.corpus, Asserted(request.edges))
  BY <1>1, AllIsRight
<1> QED
  BY <1>2 DEF CorpusLinksRight, LinksRight

(* For any corpora and any cap on the candidates: of every manifest that is
   accepted, when all tables have been gone through, no chain of asserted
   links leaves what its first snapshot depends on or comes to two versions
   of one server, and a link is asserted exactly when what is named is one
   definition of which nothing leaves a doubt (corpus_config.py:146-157,
   corpus_registry.py:396-845).                                              *)
THEOREM CorpusLinks == CorpusSpec => []CorpusLinksRight
<1>1. LinkInv /\ [CorpusNext]_vars => LinkInv'
  BY LinkingStep
<1>2. CorpusInit => LinkInv
  BY LinkingStarts
<1>3. LinkInv => CorpusLinksRight
  BY LinkingRight
<1> QED
  BY <1>1, <1>2, <1>3, PTL DEF CorpusSpec
-----------------------------------------------------------------------------
(* Candidates that are kept are candidates.                                  *)
LEMMA KeptAre ==
  ASSUME NEW c, NEW table, NEW ids, IsFiniteSet(ids), NamedFacts(table, ids), \A i \in ids : Fact(c, i).path \in Nat
  PROVE  Kept(c, ids) \subseteq ids /\ IsFiniteSet(Kept(c, ids))
<1> DEFINE before(i, j) == \/ Fact(c, i).path < Fact(c, j).path
                           \/ Fact(c, i).path = Fact(c, j).path /\ i[3] < j[3]
           First(kept) == \A i \in kept, j \in ids \ kept : ~before(j, i)
           S == {k \in Nat : k <= Cardinality(ids) => \E kept \in SUBSET ids : Cardinality(kept) = k /\ First(kept)}
           size == IF Cardinality(ids) < LinkCap THEN Cardinality(ids) ELSE LinkCap
<1>1. Cardinality(ids) \in Nat
  BY FS_CardinalityType
<1>2. 0 \in S
  <2>1. Cardinality({}) = 0 /\ First({})
    BY FS_EmptySet
  <2> QED
    BY <2>1
<1>3. \A k \in Nat : k \in S => k + 1 \in S
  <2> SUFFICES ASSUME NEW k \in S, k + 1 <= Cardinality(ids)
               PROVE  \E kept \in SUBSET ids : Cardinality(kept) = k + 1 /\ First(kept)
    OBVIOUS
  <2>1. PICK kept \in SUBSET ids : Cardinality(kept) = k /\ First(kept)
    BY <1>1
  <2> DEFINE rest == ids \ kept
             P == {Fact(c, i).path : i \in rest}
             p == Min(P)
             Q == {i[3] : i \in {j \in rest : Fact(c, j).path = p}}
  <2>2. P \in SUBSET Nat /\ P # {}
    BY <1>1, <2>1
  <2>3. p \in P /\ \A n \in P : p <= n
    <3> HIDE DEF P
    <3> QED
      BY <2>2, LeastMember
  <2>4. Q \in SUBSET Nat /\ Q # {}
    <3>1. \A i \in ids : i[3] \in Nat
      BY DEF NamedFacts
    <3> HIDE DEF p
    <3> QED
      BY <2>3, <3>1
  <2>5. Min(Q) \in Q /\ \A n \in Q : Min(Q) <= n
    <3> HIDE DEF Q
    <3> QED
      BY <2>4, LeastMember
  <2> HIDE DEF p
  <2>6. PICK x \in rest : Fact(c, x).path = p /\ x[3] = Min(Q)
    BY <2>5
  <2>7. \A j \in rest : ~before(j, x)
    <3> SUFFICES ASSUME NEW j \in rest, before(j, x) PROVE FALSE
      OBVIOUS
    <3>1. p <= Fact(c, j).path /\ p \in Nat /\ Fact(c, j).path \in Nat
      BY <2>2, <2>3
    <3>2. Fact(c, j).path = p /\ j[3] < x[3]
      BY <2>6, <3>1
    <3>3. j[3] \in Q
      BY <3>2
    <3>4. Min(Q) <= j[3] /\ Min(Q) \in Nat /\ j[3] \in Nat
      BY <2>4, <2>5, <3>3
    <3> HIDE DEF Q
    <3> QED
      BY <2>6, <3>2, <3>4
  <2>8. Cardinality(kept \cup {x}) = k + 1
    <3>1. IsFiniteSet(kept)
      BY FS_Subset
    <3> QED
      BY <2>1, <2>6, <3>1, FS_AddElement
  <2>9. First(kept \cup {x})
    BY <2>1, <2>7
  <2> QED
    BY <2>6, <2>8, <2>9
<1> HIDE DEF S
<1>4. Nat \subseteq S
  BY <1>2, <1>3, Induction
<1>5. size \in Nat /\ size <= Cardinality(ids)
  BY <1>1, LinkCapAssumption
<1> HIDE DEF size
<1>6. \E kept \in SUBSET ids : Cardinality(kept) = size /\ First(kept)
  BY <1>4, <1>5 DEF S
<1>7. Kept(c, ids) = CHOOSE kept \in SUBSET ids : Cardinality(kept) = size /\ First(kept)
  BY DEF Kept, size
<1> HIDE DEF First
<1>8. Kept(c, ids) \in SUBSET ids
  BY <1>6, <1>7
<1> QED
  BY <1>8, FS_Subset
-----------------------------------------------------------------------------
(* The facts of a corpus.                                                    *)
Facts(c, table) == TableFacts(c, SnapshotAliases(c), table)

LEMMA FactHere ==
  ASSUME NEW c, IsCorpus(c), NEW s \in ToSet(c), NEW table, NEW n \in DOMAIN s.facts[table]
  PROVE  /\ <<s.alias, table, n>> \in Facts(c, table) /\ <<s.alias, table, n>> \in TableFacts(c, {s.alias}, table)
         /\ Fact(c, <<s.alias, table, n>>) = s.facts[table][n] /\ ByAlias(c, s.alias) = s
<1>1. ByAlias(c, s.alias) = s /\ s.alias \in SnapshotAliases(c)
  BY KnownByAlias
<1> QED
  BY <1>1 DEF Facts, TableFacts, Fact

LEMMA FactThere ==
  ASSUME NEW c, IsCorpus(c), NEW table, NEW id \in Facts(c, table)
  PROVE  \E s \in ToSet(c) : \E n \in DOMAIN s.facts[table] :
           /\ id = <<s.alias, table, n>> /\ Fact(c, id) = s.facts[table][n] /\ Fact(c, id) \in ToSet(s.facts[table])
           /\ id[1] = s.alias /\ id[2] = table /\ id[3] = n /\ ByAlias(c, s.alias) = s
<1>1. PICK a \in SnapshotAliases(c) : \E n \in DOMAIN ByAlias(c, a).facts[table] : id = <<a, table, n>>
  BY DEF Facts, TableFacts
<1>2. ByAlias(c, a) \in ToSet(c) /\ ByAlias(c, a).alias = a
  BY <1>1, KnownByAlias
<1>3. PICK n \in DOMAIN ByAlias(c, a).facts[table] : id = <<a, table, n>>
  BY <1>1
<1>4. Fact(c, id) = ByAlias(c, a).facts[table][n]
  BY <1>3 DEF Fact
<1>5. Fact(c, id) \in ToSet(ByAlias(c, a).facts[table])
  BY <1>4 DEF ToSet
<1> QED
  BY <1>2, <1>3, <1>4, <1>5

LEMMA FactsWithin ==
  ASSUME NEW c, NEW A \in SUBSET SnapshotAliases(c), NEW table
  PROVE  TableFacts(c, A, table) \subseteq Facts(c, table)
  BY DEF TableFacts, Facts

(* What the registry has of them.                                            *)
LEMMA FilesAre ==
  ASSUME NEW c, IsCorpus(c), NEW s \in ToSet(c)
  PROVE  FactsOfFiles(s.facts) /\ EvidenceOfCalls(s.facts) /\ IsSnapshot(s) /\ CallsAreEvidence(s.facts)
  BY FilesAssumption, CorporaAssumption DEF IsCorpus, IsSnapshot

Placed == {"symbols", "routines", "evidence", "calls"}

LEMMA PlacedFacts ==
  ASSUME NEW c, IsCorpus(c), NEW table \in Placed, NEW id \in Facts(c, table)
  PROVE  /\ id[1] \in SnapshotAliases(c)
         /\ Fact(c, id).path \in DOMAIN ByAlias(c, id[1]).facts.files
         /\ Fact(c, id).path \in Nat
<1>1. PICK s \in ToSet(c) : Fact(c, id) \in ToSet(s.facts[table]) /\ id[1] = s.alias /\ ByAlias(c, s.alias) = s
  BY FactThere
<1>2. FactsOfFiles(s.facts)
  BY FilesAre
<1>3. s.alias \in SnapshotAliases(c)
  BY KnownByAlias
<1> QED
  BY <1>1, <1>2, <1>3 DEF FactsOfFiles, Placed
-----------------------------------------------------------------------------
(* Where the links of a fact lead, and what is said of them.                 *)
AssertedKinds == {"invokes", "documents", "binds", "calls"}
LinkKinds == AssertedKinds \cup {"candidate", "describes"}
ExactIsAsserted(l) == l.status = "exact" => l.kind \in AssertedKinds

LEMMA KeptFound ==
  ASSUME NEW c, IsCorpus(c), NEW table \in Placed, NEW ids \in SUBSET Facts(c, table), table \in Tables
  PROVE  IsFiniteSet(ids) /\ Kept(c, ids) \subseteq ids /\ IsFiniteSet(Kept(c, ids))
<1>1. IsFiniteSet(Facts(c, table)) /\ NamedFacts(table, Facts(c, table))
  BY FactsOfTable DEF Facts
<1>2. IsFiniteSet(ids) /\ NamedFacts(table, ids)
  BY <1>1, FS_Subset DEF NamedFacts
<1>3. \A i \in ids : Fact(c, i).path \in Nat
  BY PlacedFacts
<1> QED
  BY <1>2, <1>3, KeptAre

LEMMA FoundAre ==
  ASSUME NEW c, IsCorpus(c), NEW s \in ToSet(c)
  PROVE  /\ \A e : CandidateRoutines(c, s, e) \in SUBSET Facts(c, "routines")
         /\ \A call : CallTargets(c, s, call) \in SUBSET Facts(c, "symbols")
         /\ \A r : EntryPoints(c, s, r) \in SUBSET Facts(c, "symbols")
<1>1. VisibleAliases(c, s) \in SUBSET SnapshotAliases(c)
  BY VisibleInSight
<1>2. \A table : TableFacts(c, VisibleAliases(c, s), table) \subseteq Facts(c, table)
  BY <1>1, FactsWithin
<1>3. /\ \A e : CandidateRoutines(c, s, e) \subseteq TableFacts(c, VisibleAliases(c, s), "routines")
      /\ \A call : CallTargets(c, s, call) \subseteq TableFacts(c, VisibleAliases(c, s), "symbols")
      /\ \A r : EntryPoints(c, s, r) \subseteq TableFacts(c, VisibleAliases(c, s), "symbols")
  BY FoundInSight
<1> QED
  BY <1>2, <1>3

LEMMA EvidenceLeads ==
  ASSUME NEW c, IsCorpus(c), NEW s \in ToSet(c), NEW id, NEW e
  PROVE  /\ \A l \in EvidenceLinks(c, s, id, e) :
              l.target \in Facts(c, "routines") /\ l.kind \in LinkKinds /\ ExactIsAsserted(l)
         /\ IsFiniteSet(EvidenceLinks(c, s, id, e))
<1> DEFINE found == CandidateRoutines(c, s, e)
           unverified == e.origin = "python_execute" /\ e.receiver # "verified"
           one == [i \in found |-> LinkOne(c, id, e, i)]
           other == [i \in Kept(c, found) |->
                       Link(id, i, "candidate", IF unverified THEN "receiver_unverified" ELSE "ambiguous", None)]
<1>1. found \in SUBSET Facts(c, "routines")
  BY FoundAre
<1>2. IsFiniteSet(found) /\ Kept(c, found) \subseteq found /\ IsFiniteSet(Kept(c, found))
  BY <1>1, KeptFound DEF Placed, Tables
<1>3. \A i \in found : /\ one[i].target = i /\ one[i].kind \in {"documents", "invokes"}
  BY DEF LinkOne, Link
<1>4. \A i \in Kept(c, found) : other[i].target = i /\ other[i].kind = "candidate" /\ other[i].status # "exact"
  BY DEF Link
<1>5. EvidenceLinks(c, s, id, e) \in {{}, {one[i] : i \in found}, {other[i] : i \in Kept(c, found)}}
  <2>1. {one[i] : i \in found} = {LinkOne(c, id, e, i) : i \in found}
    OBVIOUS
  <2>2. {other[i] : i \in Kept(c, found)} =
          {Link(id, i, "candidate", IF unverified THEN "receiver_unverified" ELSE "ambiguous", None) : i \in Kept(c, found)}
    OBVIOUS
  <2> HIDE DEF one, other
  <2> QED
    BY <2>1, <2>2 DEF EvidenceLinks, RoutineLinks
<1> HIDE DEF one, other, found
<1>6. IsFiniteSet({one[i] : i \in found}) /\ IsFiniteSet({other[i] : i \in Kept(c, found)}) /\ IsFiniteSet({})
  BY <1>2, FiniteImage, FS_EmptySet
<1>7. IsFiniteSet(EvidenceLinks(c, s, id, e))
  BY <1>5, <1>6
<1> QED
  BY <1>1, <1>2, <1>3, <1>4, <1>5, <1>7 DEF LinkKinds, AssertedKinds, ExactIsAsserted

LEMMA RoutineLeads ==
  ASSUME NEW c, IsCorpus(c), NEW s \in ToSet(c), NEW id, id[1] = s.alias, NEW r, NEW l \in RoutineEdges(c, s, id, r)
  PROVE  /\ l.target \in Facts(c, "objects") \cup Facts(c, "symbols") /\ l.kind \in LinkKinds
<1> DEFINE found == EntryPoints(c, s, r)
           allowed == BindingAllowed(c, s, r)
<1>1. found \in SUBSET Facts(c, "symbols")
  BY FoundAre
<1>2. Kept(c, found) \subseteq found
  BY <1>1, KeptFound DEF Placed, Tables
<1>3. TableFacts(c, {s.alias}, "objects") \subseteq Facts(c, "objects")
  BY KnownByAlias, FactsWithin
<1>4. CASE l \in DescribedObject(c, id, r)
  BY <1>3, <1>4 DEF DescribedObject, Link, LinkKinds
<1>5. CASE l \in BindingLinks(c, id, r, allowed, found)
  <2>1. \A i, status : Link(id, i, "binds", status, r.line).target = i /\ Link(id, i, "binds", status, r.line).kind = "binds"
    BY DEF Link
  <2>2. \A i, status : Link(id, i, "candidate", status, r.line).target = i
                       /\ Link(id, i, "candidate", status, r.line).kind = "candidate"
    BY DEF Link
  <2>3. \E i \in found : \E status : l = Link(id, i, "binds", status, r.line) \/ l = Link(id, i, "candidate", status, r.line)
    <3> HIDE DEF found, allowed
    <3> QED
      BY <1>2, <1>5 DEF BindingLinks
  <2> HIDE DEF found
  <2> QED
    BY <1>1, <2>1, <2>2, <2>3 DEF LinkKinds, AssertedKinds
<1> QED
  BY <1>4, <1>5 DEF RoutineEdges

CallsExactly(c, s, call, i) ==
  Macros(c, s, call) = {} /\ Cardinality(CallTargets(c, s, call)) = 1 /\ Guards(call, Fact(c, i)) = {}
CallEdge(c, s, call, source, i) ==
  CallLink(source, call, i, Fact(c, i), CallsExactly(c, s, call, i), Cardinality(CallTargets(c, s, call)) = 1)

LEMMA CallLeads ==
  ASSUME NEW c, IsCorpus(c), NEW s \in ToSet(c), NEW call, NEW l \in CallEdges(c, s, call)
  PROVE  /\ l.target \in Facts(c, "symbols") /\ l.kind \in LinkKinds /\ ExactIsAsserted(l)
         /\ \E i \in Kept(c, CallTargets(c, s, call)) : l = CallEdge(c, s, call, l.source, i)
<1> DEFINE found == CallTargets(c, s, call)
           exact(i) == CallsExactly(c, s, call, i)
           edge(source, i) == CallEdge(c, s, call, source, i)
<1>1. found \in SUBSET Facts(c, "symbols")
  BY FoundAre
<1>2. Kept(c, found) \subseteq found
  BY <1>1, KeptFound DEF Placed, Tables
<1>3. PICK source \in CallSources(c, s, call), i \in Kept(c, found) : l = edge(source, i)
  <2>1. l \in CallLinks(c, s, call, CallSources(c, s, call), found, Macros(c, s, call))
    BY DEF CallEdges
  <2> QED
    BY <2>1 DEF CallLinks, CallEdge, CallsExactly
<1>4. /\ edge(source, i).source = source /\ edge(source, i).target = i
      /\ edge(source, i).kind = IF exact(i) THEN "calls" ELSE "candidate"
      /\ edge(source, i).status = IF exact(i) THEN "exact"
                                  ELSE IF Cardinality(found) = 1 /\ Guards(call, Fact(c, i)) # {} THEN "conditional"
                                  ELSE "ambiguous"
  BY DEF CallEdge, CallLink, Link
<1>5. l = edge(l.source, i)
  BY <1>3, <1>4
<1> HIDE DEF found
<1> QED
  BY <1>1, <1>2, <1>3, <1>4, <1>5 DEF LinkKinds, AssertedKinds, ExactIsAsserted, found

(* Both ends of every link are facts.                                        *)
LEMMA LinkEnds ==
  ASSUME NEW c, IsCorpus(c), NEW l \in AllLinks(c)
  PROVE  /\ l.source \in UNION {Facts(c, t) : t \in {"symbols", "routines", "evidence"}}
         /\ l.target \in UNION {Facts(c, t) : t \in {"symbols", "routines", "objects"}}
         /\ l.kind \in LinkKinds
<1>1. PICK s, table, n : Linked(c, s, table, n, l)
  BY LinkedBy
<1>2. StartsAt(c, s, table, n, l)
  BY <1>1, LinksStartAt
<1>3. s \in ToSet(c) /\ table \in Linking /\ n \in DOMAIN s.facts[table] /\ l \in LinksOf(c, s, table, n)
  BY <1>1 DEF Linked
<1>4. CASE table = "evidence"
  <2>1. l \in EvidenceLinks(c, s, <<s.alias, "evidence", n>>, s.facts.evidence[n])
    BY <1>3, <1>4, LinksAre
  <2>2. l.target \in Facts(c, "routines") /\ l.kind \in LinkKinds
    BY <1>3, <2>1, EvidenceLeads
  <2>3. l.source = <<s.alias, "evidence", n>>
    BY <1>2, <1>4 DEF StartsAt
  <2>4. l.source \in Facts(c, "evidence")
    BY <1>3, <1>4, <2>3, FactHere
  <2> QED
    BY <2>2, <2>4
<1>5. CASE table = "routines"
  <2> DEFINE id == <<s.alias, "routines", n>>
  <2>1. l \in RoutineEdges(c, s, id, s.facts.routines[n])
    BY <1>3, <1>5, LinksAre
  <2>2. id[1] = s.alias
    OBVIOUS
  <2> HIDE DEF id
  <2>3. l.target \in Facts(c, "objects") \cup Facts(c, "symbols") /\ l.kind \in LinkKinds
    BY <1>3, <2>1, <2>2, RoutineLeads
  <2>4. l.source = id
    BY <1>2, <1>5 DEF StartsAt, id
  <2>5. l.source \in Facts(c, "routines")
    BY <1>3, <1>5, <2>4, FactHere DEF id
  <2> QED
    BY <2>3, <2>5
<1>6. CASE table = "calls"
  <2> DEFINE call == s.facts.calls[n]
  <2>1. l \in CallEdges(c, s, call)
    BY <1>3, <1>6, LinksAre
  <2>2. l.target \in Facts(c, "symbols") /\ l.kind \in LinkKinds
    BY <1>3, <2>1, CallLeads
  <2>3. l.source \in CallSources(c, s, call)
    BY <1>2, <1>6 DEF StartsAt
  <2>4. CallOwners(c, s, call) \subseteq Facts(c, "symbols")
    <3>1. TableFacts(c, {s.alias}, "symbols") \subseteq Facts(c, "symbols")
      BY <1>3, KnownByAlias, FactsWithin
    <3> QED
      BY <3>1 DEF CallOwners
  <2>5. <<s.alias, "evidence", call.evidence>> \in Facts(c, "evidence")
    <3>1. call.evidence \in DOMAIN s.facts.evidence
      BY <1>3, <1>6, FilesAre DEF CallsAreEvidence
    <3> QED
      BY <1>3, <3>1, FactHere
  <2> QED
    BY <2>2, <2>3, <2>4, <2>5 DEF CallSources
<1> QED
  BY <1>3, <1>4, <1>5, <1>6 DEF Linking
-----------------------------------------------------------------------------
(* The links of a piece of evidence, and the one call whose evidence it is.  *)
CallOf(facts, n, call) ==
  LET e == facts.evidence[n]
  IN  /\ call \in ToSet(facts.calls) /\ call.evidence = n
      /\ e.name = IF call.callee = None THEN "<dynamic>" ELSE call.callee
      /\ e.path = call.path /\ e.owner = call.owner /\ e.ownerline = call.ownerline /\ e.dynamic = call.dynamic

LEMMA EvidenceHas ==
  ASSUME NEW c, IsCorpus(c), NEW s \in ToSet(c), NEW n \in DOMAIN s.facts.evidence, NEW id, id = <<s.alias, "evidence", n>>
  PROVE  \/ /\ s.facts.evidence[n].origin # "native_call"
            /\ FromSource(AllLinks(c), id) = EvidenceLinks(c, s, id, s.facts.evidence[n])
         \/ /\ s.facts.evidence[n].origin = "native_call"
            /\ \E m \in DOMAIN s.facts.calls :
                 /\ CallOf(s.facts, n, s.facts.calls[m])
                 /\ FromSource(AllLinks(c), id) = FromSource(CallEdges(c, s, s.facts.calls[m]), id)
<1> DEFINE e == s.facts.evidence[n]
           links == FromSource(AllLinks(c), id)
<1>0. CallsAreEvidence(s.facts) /\ EvidenceOfCalls(s.facts)
  BY FilesAre
<1>1. id[1] = s.alias /\ id[2] = "evidence" /\ id[3] = n
  OBVIOUS
<1>2. ASSUME NEW l \in links
      PROVE  \/ l \in EvidenceLinks(c, s, id, e)
             \/ \E m \in DOMAIN s.facts.calls : s.facts.calls[m].evidence = n /\ l \in CallEdges(c, s, s.facts.calls[m])
  <2>0. l \in AllLinks(c) /\ l.source = id
    BY DEF FromSource
  <2>1. PICK table, m : Linked(c, s, table, m, l) /\ StartsAt(c, s, table, m, l)
    BY <1>1, <2>0, FromSnapshot
  <2>2. table \in Linking /\ m \in DOMAIN s.facts[table] /\ l \in LinksOf(c, s, table, m)
    BY <2>1 DEF Linked
  <2>3. table # "routines"
    BY <1>1, <2>0, <2>1 DEF StartsAt
  <2>4. CASE table = "evidence"
    <3>1. m = n
      BY <1>1, <2>0, <2>1, <2>4 DEF StartsAt
    <3> QED
      BY <2>2, <2>4, <3>1, LinksAre
  <2>5. CASE table = "calls"
    <3>1. l.source \in CallSources(c, s, s.facts.calls[m])
      BY <2>1, <2>5 DEF StartsAt
    <3>2. s.facts.calls[m].evidence = n
      BY <1>1, <2>0, <3>1, CallSourcesAre
    <3>3. m \in DOMAIN s.facts.calls /\ l \in CallEdges(c, s, s.facts.calls[m])
      BY <2>2, <2>5, LinksAre
    <3> QED
      BY <3>2, <3>3
  <2> QED
    BY <2>2, <2>3, <2>4, <2>5 DEF Linking
<1>3. ASSUME NEW l \in EvidenceLinks(c, s, id, e) PROVE l \in links
  BY LinksMade, EvidenceAsserts DEF FromSource
<1>4. CASE e.origin # "native_call"
  <2>1. \A m \in DOMAIN s.facts.calls : s.facts.calls[m].evidence # n
    BY <1>0, <1>4 DEF CallsAreEvidence
  <2>2. links = EvidenceLinks(c, s, id, e)
    <3> HIDE DEF links
    <3> QED
      BY <1>2, <1>3, <2>1
  <2> QED
    BY <1>4, <2>2
<1>5. CASE e.origin = "native_call"
  <2>1. \E call \in ToSet(s.facts.calls) : CallOf(s.facts, n, call)
    BY <1>0, <1>5 DEF EvidenceOfCalls, CallOf
  <2>2. PICK m \in DOMAIN s.facts.calls : CallOf(s.facts, n, s.facts.calls[m])
    BY <2>1 DEF ToSet
  <2>3. \A k \in DOMAIN s.facts.calls : s.facts.calls[k].evidence = n => k = m
    BY <1>0, <2>2 DEF CallsAreEvidence, CallOf
  <2>4. EvidenceLinks(c, s, id, e) = {}
    BY <1>5 DEF EvidenceLinks, Origins, Documentation
  <2>5. ASSUME NEW l \in links PROVE l \in FromSource(CallEdges(c, s, s.facts.calls[m]), id)
    <3>1. l.source = id
      BY DEF FromSource
    <3> HIDE DEF links
    <3> QED
      BY <1>2, <2>3, <2>4, <3>1 DEF FromSource
  <2>6. ASSUME NEW l \in FromSource(CallEdges(c, s, s.facts.calls[m]), id) PROVE l \in links
    BY LinksMade DEF FromSource
  <2>7. links = FromSource(CallEdges(c, s, s.facts.calls[m]), id)
    <3> HIDE DEF links
    <3> QED
      BY <2>5, <2>6
  <2> QED
    BY <1>5, <2>2, <2>7
<1> QED
  BY <1>4, <1>5

(* What is exact is what one asserted link leads to.                         *)
ExactlyOne(links) == \E l \in Asserted(links) : links = {l} /\ l.status = "exact"

LEMMA StatusIs ==
  ASSUME NEW edges, NEW id, NEW e, IsFiniteSet(FromSource(edges, id)),
         \A l \in FromSource(edges, id) : ExactIsAsserted(l),
         (e.origin = "python_execute" /\ e.receiver # "verified") \/ e.dynamic => Asserted(FromSource(edges, id)) = {}
  PROVE  EvidenceStatus(edges, id, e) = "exact" <=> ExactlyOne(FromSource(edges, id))
<1> DEFINE links == FromSource(edges, id)
<1>2. EvidenceStatus(edges, id, e) =
        IF e.origin = "python_execute" /\ e.receiver # "verified" THEN "receiver_unverified"
        ELSE IF e.dynamic THEN "dynamic"
        ELSE IF Cardinality(links) > 1 THEN "ambiguous"
        ELSE IF links = {} THEN "unresolved"
        ELSE (CHOOSE l \in links : TRUE).status
  BY DEF EvidenceStatus, FromSource
<1> HIDE DEF links
<1>3. CASE (e.origin = "python_execute" /\ e.receiver # "verified") \/ e.dynamic
  <2>1. ~ExactlyOne(links)
    BY <1>3 DEF links, ExactlyOne
  <2>2. EvidenceStatus(edges, id, e) # "exact"
    BY <1>2, <1>3
  <2> QED
    BY <2>1, <2>2 DEF links
<1>4. CASE ~((e.origin = "python_execute" /\ e.receiver # "verified") \/ e.dynamic)
  <2>1. CASE \E l : links = {l}
    <3>1. PICK l : links = {l}
      BY <2>1
    <3>2. Cardinality(links) = 1 /\ (CHOOSE k \in links : TRUE) = l
      BY <3>1, FS_Singleton
    <3>3. EvidenceStatus(edges, id, e) = l.status
      BY <1>2, <1>4, <3>1, <3>2
    <3>4. l.status = "exact" => l.kind \in AssertedKinds
      BY <3>1 DEF links, ExactIsAsserted
    <3>5. ExactlyOne(links) <=> l.status = "exact" /\ l.kind \in AssertedKinds
      BY <3>1 DEF ExactlyOne, Asserted, AssertedKinds
    <3> QED
      BY <3>3, <3>4, <3>5 DEF links
  <2>2. CASE \A l : links # {l}
    <3>1. Cardinality(links) > 1 \/ links = {}
      <4>1. IsFiniteSet(links)
        BY DEF links
      <4>2. Cardinality(links) \in Nat /\ Cardinality(links) # 1 /\ (Cardinality(links) = 0 <=> links = {})
        BY <2>2, <4>1, FS_CardinalityType, FS_Singleton, FS_EmptySet
      <4> QED
        BY <4>2
    <3>2. EvidenceStatus(edges, id, e) # "exact"
      BY <1>2, <1>4, <3>1
    <3>3. ~ExactlyOne(links)
      BY <2>2 DEF ExactlyOne
    <3> QED
      BY <3>2, <3>3 DEF links
  <2> QED
    BY <2>1, <2>2
<1> QED
  BY <1>3, <1>4

LEMMA EvidenceStatusRight ==
  ASSUME NEW c, IsCorpus(c), NEW id \in Facts(c, "evidence")
  PROVE  EvidenceStatus(AllLinks(c), id, Fact(c, id)) = "exact" <=> ExactlyOne(FromSource(AllLinks(c), id))
<1> DEFINE links == FromSource(AllLinks(c), id)
           e == Fact(c, id)
<1>1. PICK s \in ToSet(c) : \E n \in DOMAIN s.facts["evidence"] :
        id = <<s.alias, "evidence", n>> /\ Fact(c, id) = s.facts["evidence"][n] /\ id[1] = s.alias
  BY FactThere
<1>2. PICK n \in DOMAIN s.facts.evidence : id = <<s.alias, "evidence", n>> /\ e = s.facts.evidence[n]
  BY <1>1
<1>3. CASE e.origin # "native_call" /\ links = EvidenceLinks(c, s, id, e)
  <2>1. IsFiniteSet(links) /\ \A l \in links : ExactIsAsserted(l)
    BY <1>3, EvidenceLeads
  <2>2. (e.origin = "python_execute" /\ e.receiver # "verified") \/ e.dynamic => ~Exactly(c, s, e, CandidateRoutines(c, s, e))
    BY DEF Exactly
  <2> HIDE DEF e, links
  <2>3. (e.origin = "python_execute" /\ e.receiver # "verified") \/ e.dynamic => Asserted(links) = {}
    BY <1>3, <2>2, EvidenceAsserts
  <2> QED
    BY <2>1, <2>3, StatusIs DEF links, e
<1>4. CASE e.origin = "native_call" /\ \E m \in DOMAIN s.facts.calls :
             /\ CallOf(s.facts, n, s.facts.calls[m]) /\ links = FromSource(CallEdges(c, s, s.facts.calls[m]), id)
  <2>1. PICK m \in DOMAIN s.facts.calls :
          CallOf(s.facts, n, s.facts.calls[m]) /\ links = FromSource(CallEdges(c, s, s.facts.calls[m]), id)
    BY <1>4
  <2> DEFINE call == s.facts.calls[m]
             found == CallTargets(c, s, call)
             edge == [i \in Kept(c, found) |-> CallEdge(c, s, call, id, i)]
  <2>2. \A l \in links : l \in CallEdges(c, s, call) /\ l.source = id
    BY <2>1 DEF FromSource
  <2>3. \A l \in links : ExactIsAsserted(l) /\ \E i \in Kept(c, found) : l = edge[i]
    <3> SUFFICES ASSUME NEW l \in links PROVE ExactIsAsserted(l) /\ \E i \in Kept(c, found) : l = edge[i]
      OBVIOUS
    <3>1. l \in CallEdges(c, s, call) /\ l.source = id
      BY <2>2
    <3>2. ExactIsAsserted(l)
      BY <3>1, CallLeads
    <3>3. PICK i \in Kept(c, found) : l = CallEdge(c, s, call, l.source, i)
      BY <3>1, CallLeads
    <3>4. l = edge[i]
      BY <3>1, <3>3
    <3> QED
      BY <3>2, <3>4
  <2>4. IsFiniteSet(links)
    <3>1. found \in SUBSET Facts(c, "symbols")
      BY FoundAre
    <3> HIDE DEF found, edge, links
    <3>2. IsFiniteSet(Kept(c, found))
      BY <3>1, KeptFound DEF Placed, Tables
    <3>3. IsFiniteSet({edge[i] : i \in Kept(c, found)})
      BY <3>2, FiniteImage
    <3>4. links \subseteq {edge[i] : i \in Kept(c, found)}
      BY <2>3
    <3> QED
      BY <3>3, <3>4, FS_Subset
  <2>5. e.dynamic => links = {}
    <3>1. e.dynamic = call.dynamic
      BY <1>2, <2>1 DEF CallOf
    <3>2. e.dynamic => CallEdges(c, s, call) = {}
      BY <3>1 DEF CallEdges, Skipped
    <3> HIDE DEF links
    <3> QED
      BY <2>2, <3>2
  <2>6. e.origin # "python_execute"
    BY <1>4
  <2> HIDE DEF links, e
  <2>7. (e.origin = "python_execute" /\ e.receiver # "verified") \/ e.dynamic => Asserted(links) = {}
    BY <2>5, <2>6 DEF Asserted
  <2> QED
    BY <2>3, <2>4, <2>7, StatusIs DEF links, e
<1> QED
  BY <1>2, <1>3, <1>4, EvidenceHas

StatusOf(links, e) ==
  IF e.origin = "python_execute" /\ e.receiver # "verified" THEN "receiver_unverified"
  ELSE IF e.dynamic THEN "dynamic"
  ELSE IF Cardinality(links) > 1 THEN "ambiguous"
  ELSE IF links = {} THEN "unresolved"
  ELSE (CHOOSE l \in links : TRUE).status

(* Links of files and owners change nothing of it.                           *)
LEMMA StatusStays ==
  ASSUME NEW edges, NEW more, NEW id, NEW e, \A l : l.source = id => (l \in edges <=> l \in more)
  PROVE  EvidenceStatus(edges, id, e) = EvidenceStatus(more, id, e)
<1>1. FromSource(edges, id) = FromSource(more, id)
  BY DEF FromSource
<1>2. \A set : EvidenceStatus(set, id, e) = StatusOf(FromSource(set, id), e)
  BY DEF EvidenceStatus, FromSource, StatusOf
<1> QED
  BY <1>1, <1>2
-----------------------------------------------------------------------------
(* Diagnostics are of files, and the next ordinal is free.                   *)
DiagnosticsAre(c, diagnostics) ==
  /\ IsFiniteSet(diagnostics)
  /\ \A d \in diagnostics : /\ d.ordinal \in Int
                            /\ \E s \in ToSet(c) : d.alias = s.alias /\ d.path \in DOMAIN s.facts.files
Noted(diagnostics, s, path, category) ==
  \E d \in diagnostics : d.alias = s.alias /\ d.path = path /\ d.category = category

LEMMA Adding ==
  ASSUME NEW c, NEW D, DiagnosticsAre(c, D), NEW s \in ToSet(c), NEW path \in DOMAIN s.facts.files,
         NEW ordinal \in Int, NEW category, NEW E, E = AddDiagnostic(D, s.alias, path, ordinal, category)
  PROVE  /\ DiagnosticsAre(c, E) /\ D \subseteq E
         /\ (\A d \in D : d.alias = s.alias /\ d.path = path => d.ordinal # ordinal) => Noted(E, s, path, category)
<1> DEFINE new == [alias |-> s.alias, path |-> path, ordinal |-> ordinal, category |-> category]
<1>1. CASE E = D /\ \E d \in D : d.alias = s.alias /\ d.path = path /\ d.ordinal = ordinal
  BY <1>1
<1>2. CASE E = D \cup {new}
  <2>1. IsFiniteSet(E)
    BY <1>2, FS_AddElement DEF DiagnosticsAre
  <2>2. new.alias = s.alias /\ new.path = path /\ new.ordinal = ordinal /\ new.category = category
    OBVIOUS
  <2> HIDE DEF new
  <2>3. Noted(E, s, path, category)
    BY <1>2, <2>2 DEF Noted
  <2> QED
    BY <1>2, <2>1, <2>2, <2>3 DEF DiagnosticsAre
<1> QED
  BY <1>1, <1>2 DEF AddDiagnostic

LEMMA AddingNext ==
  ASSUME NEW c, NEW D, DiagnosticsAre(c, D), NEW s \in ToSet(c), NEW at, at.path \in DOMAIN s.facts.files,
         NEW category, NEW E, E = AddDiagnostic(D, s.alias, at.path, NextOrdinal(D, s, at), category)
  PROVE  DiagnosticsAre(c, E) /\ D \subseteq E /\ Noted(E, s, at.path, category)
<1> DEFINE there == {x \in D : x.alias = s.alias /\ x.path = at.path}
           ord == [d \in there |-> d.ordinal]
           all == {-1} \cup {d.ordinal : d \in there}
<1>1. IsFiniteSet(there)
  BY FS_Subset DEF DiagnosticsAre
<1>2. IsFiniteSet({d.ordinal : d \in there})
  <2>1. {d.ordinal : d \in there} = {ord[d] : d \in there}
    OBVIOUS
  <2> HIDE DEF ord, there
  <2> QED
    BY <1>1, <2>1, FiniteImage
<1>3. IsFiniteSet(all) /\ all \in SUBSET Int /\ all # {}
  <2>1. \A d \in there : d.ordinal \in Int
    BY DEF DiagnosticsAre
  <2> HIDE DEF there
  <2>2. IsFiniteSet({-1})
    BY FS_Singleton
  <2>3. IsFiniteSet(all)
    BY <1>2, <2>2, FS_Union
  <2> QED
    BY <2>1, <2>3
<1>4. NextOrdinal(D, s, at) = Max(all) + 1
  BY DEF NextOrdinal
<1>5. Max(all) \in Int /\ \A n \in all : n <= Max(all)
  <2> HIDE DEF all
  <2> QED
    BY <1>3, FiniteMax
<1>6. \A d \in D : d.alias = s.alias /\ d.path = at.path => d.ordinal \in all
  OBVIOUS
<1> HIDE DEF all
<1>7. NextOrdinal(D, s, at) \in Int /\ \A d \in D : d.alias = s.alias /\ d.path = at.path => d.ordinal # NextOrdinal(D, s, at)
  <2>1. \A n \in all : n \in Int /\ n # Max(all) + 1
    BY <1>3, <1>5
  <2> QED
    BY <1>4, <1>5, <1>6, <2>1
<1>8. PICK ordinal : ordinal = NextOrdinal(D, s, at)
  OBVIOUS
<1>9. PICK path \in DOMAIN s.facts.files : path = at.path
  OBVIOUS
<1>10. E = AddDiagnostic(D, s.alias, path, ordinal, category)
  BY <1>8, <1>9
<1>11. ordinal \in Int /\ \A d \in D : d.alias = s.alias /\ d.path = path => d.ordinal # ordinal
  BY <1>7, <1>8, <1>9
<1>12. DiagnosticsAre(c, E) /\ D \subseteq E /\ Noted(E, s, path, category)
  BY <1>10, <1>11, Adding
<1> QED
  BY <1>9, <1>12
-----------------------------------------------------------------------------
(* While facts are linked, calls that have no one owner are noted.           *)
Unowned == "native_call_owner_unresolved"
CallNoted(c, diagnostics, s, call) ==
  call.callee # "PG_FUNCTION_INFO_V1" /\ Cardinality(CallOwners(c, s, call)) # 1 => Noted(diagnostics, s, call.path, Unowned)
NotedBefore(c, diagnostics, table, k, fact) ==
  \A m \in DOMAIN c : \A n \in DOMAIN c[m].facts.calls :
    Behind(table, k, fact, "calls", m, n) => CallNoted(c, diagnostics, c[m], c[m].facts.calls[n])
AllNoted(c, diagnostics) ==
  \A s \in ToSet(c) : \A n \in DOMAIN s.facts.calls : CallNoted(c, diagnostics, s, s.facts.calls[n])
NoteInv ==
  /\ DiagnosticsAre(request.corpus, request.diagnostics)
  /\ progress.pc = "corpus" =>
       NotedBefore(request.corpus, request.diagnostics, progress.table, progress.snapshot, progress.fact)
  /\ request.status = "committed" => AllNoted(request.corpus, request.diagnostics)

LEMMA StillNoted ==
  ASSUME NEW c, NEW D, NEW E, D \subseteq E, NEW s, NEW call, CallNoted(c, D, s, call)
  PROVE  CallNoted(c, E, s, call)
  BY DEF CallNoted, Noted

LEMMA NotingStarts == CorpusInit => NoteInv
<1> SUFFICES ASSUME CorpusInit PROVE NoteInv
  OBVIOUS
<1> DEFINE first(s) == {[alias |-> s.alias, path |-> d.path, ordinal |-> d.ordinal, category |-> d.category] :
                          d \in s.facts.diagnostics}
<1>1. PICK c \in Corpora :
        request = [tool |-> "corpus", corpus |-> c, edges |-> {}, status |-> "new", graph |-> None,
                   diagnostics |-> UNION {first(s) : s \in ToSet(c)}]
  BY DEF CorpusInit
<1>2. ASSUME NEW s \in ToSet(c)
      PROVE  /\ IsFiniteSet(first(s))
             /\ \A d \in first(s) : d.ordinal \in Int /\ d.alias = s.alias /\ d.path \in DOMAIN s.facts.files
  <2>1. FactsOfFiles(s.facts)
    BY FilesAssumption
  <2> DEFINE f == [d \in s.facts.diagnostics |->
                     [alias |-> s.alias, path |-> d.path, ordinal |-> d.ordinal, category |-> d.category]]
  <2>2. first(s) = {f[d] : d \in s.facts.diagnostics}
    OBVIOUS
  <2>3. \A d \in s.facts.diagnostics : f[d].ordinal \in Int /\ f[d].alias = s.alias /\ f[d].path \in DOMAIN s.facts.files
    BY <2>1 DEF FactsOfFiles
  <2> HIDE DEF f, first
  <2>4. IsFiniteSet({f[d] : d \in s.facts.diagnostics})
    BY <2>1, FiniteImage DEF FactsOfFiles
  <2> QED
    BY <2>2, <2>3, <2>4
<1> HIDE DEF first
<1>3. IsFiniteSet(ToSet(c))
  <2>1. c \in Seq(ToSet(c))
    BY CorporaAssumption
  <2> QED
    BY <2>1, FiniteRows
<1>4. IsFiniteSet(UNION {first(s) : s \in ToSet(c)})
  <2> DEFINE g == [s \in ToSet(c) |-> first(s)]
  <2>1. {g[s] : s \in ToSet(c)} = {first(s) : s \in ToSet(c)}
    OBVIOUS
  <2>2. \A s \in ToSet(c) : g[s] = first(s)
    OBVIOUS
  <2> HIDE DEF g
  <2>3. IsFiniteSet({g[s] : s \in ToSet(c)})
    BY <1>3, FiniteImage
  <2>4. \A T \in {g[s] : s \in ToSet(c)} : IsFiniteSet(T)
    BY <1>2, <2>2
  <2>5. IsFiniteSet(UNION {g[s] : s \in ToSet(c)})
    BY <2>3, <2>4, FS_UNION
  <2> QED
    BY <2>1, <2>5
<1>5. DiagnosticsAre(c, UNION {first(s) : s \in ToSet(c)})
  BY <1>2, <1>4 DEF DiagnosticsAre
<1>6. request.corpus = c /\ request.diagnostics = UNION {first(s) : s \in ToSet(c)} /\ request.status = "new"
  BY <1>1
<1>7. progress.pc = "idle"
  BY DEF CorpusInit, Idle
<1> QED
  BY <1>5, <1>6, <1>7 DEF NoteInv

LEMMA NotingBegins == LinkInv /\ NoteInv /\ LoadCorpus => NoteInv'
<1> SUFFICES ASSUME LinkInv, NoteInv, LoadCorpus PROVE NoteInv'
  OBVIOUS
<1> DEFINE c == request.corpus
<1>1. CorpusRequest
  BY DEF LinkInv
<1>2. DiagnosticsAre(c, request.diagnostics)
  BY DEF NoteInv
<1>3. CASE \E status \in {"rejected", "committed"} : Answer(status) /\ (status = "committed" => c = <<>>)
  <2>1. PICK status \in {"rejected", "committed"} : Answer(status) /\ (status = "committed" => c = <<>>)
    BY <1>3
  <2>2. progress' = Idle /\ request'.status = status /\ request'.corpus = c /\ request'.diagnostics = request.diagnostics
    BY <1>1, <2>1, Answered
  <2>3. progress'.pc = "idle"
    BY <2>2 DEF Idle
  <2>4. status = "committed" => AllNoted(c, request.diagnostics)
    BY <2>1 DEF AllNoted, ToSet
  <2> QED
    BY <1>2, <2>2, <2>3, <2>4 DEF NoteInv
<1>4. CASE Accepted(c) /\ c # <<>> /\ progress' = Passing("evidence", 1, 1) /\ request' = request
  <2>1. IsCorpus(c) /\ request.status = "new"
    BY <1>1, <1>4 DEF IsCorpus, CorpusRequest, LoadCorpus, Asked
  <2>2. NotedBefore(c, request.diagnostics, "evidence", 1, 1)
    <3> SUFFICES ASSUME NEW m \in DOMAIN c, NEW n \in DOMAIN c[m].facts.calls, Behind("evidence", 1, 1, "calls", m, n)
                 PROVE  FALSE
      BY DEF NotedBefore
    <3>1. m \in Nat /\ m >= 1 /\ n \in Nat /\ n >= 1
      BY <2>1, TablesAre DEF Linking
    <3> QED
      BY <3>1 DEF Behind, TableRank
  <2>3. progress'.table = "evidence" /\ progress'.snapshot = 1 /\ progress'.fact = 1
    BY <1>4 DEF Passing
  <2> QED
    BY <1>2, <1>4, <2>1, <2>2, <2>3 DEF NoteInv
<1> QED
  BY <1>3, <1>4 DEF LoadCorpus

LEMMA FactNoted ==
  ASSUME CorpusRequest, NoteInv, NEW c, c = request.corpus, NEW table, NEW k, NEW fact, AtFact(c, table, k, fact),
         fact <= Len(c[k].facts[table]), NEW new, NEW diagnostics, AddLinks(new, diagnostics),
         DiagnosticsAre(c, diagnostics), request.diagnostics \subseteq diagnostics,
         table = "calls" => CallNoted(c, diagnostics, c[k], c[k].facts.calls[fact])
  PROVE  NoteInv'
<1>1. /\ request'.corpus = c /\ request'.status = "new" /\ request'.diagnostics = diagnostics
      /\ progress' = Passing(table, k, fact + 1)
  BY FactAdded
<1>2. IsCorpus(c) /\ table \in Linking /\ k \in DOMAIN c /\ fact \in 1 .. Len(c[k].facts[table]) + 1
      /\ progress = Passing(table, k, fact)
  BY DEF AtFact
<1>3. fact \in DOMAIN c[k].facts[table]
  BY <1>2, TablesAre
<1>4. progress.pc = "corpus" /\ progress.table = table /\ progress.snapshot = k /\ progress.fact = fact
  BY <1>2 DEF Passing
<1>5. progress'.table = table /\ progress'.snapshot = k /\ progress'.fact = fact + 1
  BY <1>1 DEF Passing
<1>6. NotedBefore(c, request.diagnostics, table, k, fact)
  BY <1>4 DEF NoteInv
<1>7. NotedBefore(c, diagnostics, table, k, fact + 1)
  <2> SUFFICES ASSUME NEW m \in DOMAIN c, NEW n \in DOMAIN c[m].facts.calls, Behind(table, k, fact + 1, "calls", m, n)
               PROVE  CallNoted(c, diagnostics, c[m], c[m].facts.calls[n])
    BY DEF NotedBefore
  <2>1. Behind(table, k, fact, "calls", m, n) \/ (m = k /\ table = "calls" /\ n = fact)
    BY <1>2, <1>3, BehindNext DEF Linking
  <2>2. CASE Behind(table, k, fact, "calls", m, n)
    BY <1>6, <2>2, StillNoted DEF NotedBefore
  <2> QED
    BY <2>1, <2>2
<1> QED
  BY <1>1, <1>5, <1>7 DEF NoteInv

LEMMA NotingEvidence == LinkInv /\ NoteInv /\ LinkEvidence => NoteInv'
<1> SUFFICES ASSUME LinkInv, NoteInv, LinkEvidence PROVE NoteInv'
  OBVIOUS
<1>1. AtTable("evidence")
  BY DEF LinkEvidence
<1>2. PICK k, fact : AtFact(request.corpus, "evidence", k, fact) /\ fact <= Len(request.corpus[k].facts["evidence"])
  BY <1>1, HandAt
<1>3. PICK new : AddLinks(new, request.diagnostics)
  BY DEF LinkEvidence
<1>4. DiagnosticsAre(request.corpus, request.diagnostics)
  BY DEF NoteInv
<1> QED
  BY <1>1, <1>2, <1>3, <1>4, HandAt, FactNoted

LEMMA BindingNotes ==
  ASSUME NEW c, NEW D, DiagnosticsAre(c, D), NEW s \in ToSet(c), NEW r, r.path \in DOMAIN s.facts.files, r.line \in Nat,
         NEW found
  PROVE  DiagnosticsAre(c, BindingDiagnostics(D, s, r, found)) /\ D \subseteq BindingDiagnostics(D, s, r, found)
<1> DEFINE E == BindingDiagnostics(D, s, r, found)
<1>1. E = D \/ \E ordinal \in Int : \E category : E = AddDiagnostic(D, s.alias, r.path, ordinal, category)
  <2>1. 110000 + r.line \in Int /\ 100000 + r.line \in Int
    OBVIOUS
  <2> QED
    BY <2>1 DEF BindingDiagnostics
<1>2. PICK path \in DOMAIN s.facts.files : path = r.path
  OBVIOUS
<1> HIDE DEF E
<1>3. DiagnosticsAre(c, E) /\ D \subseteq E
  BY <1>1, <1>2, Adding
<1> QED
  BY <1>3 DEF E

LEMMA NotingRoutines == LinkInv /\ NoteInv /\ BindRoutine => NoteInv'
<1> SUFFICES ASSUME LinkInv, NoteInv, BindRoutine PROVE NoteInv'
  OBVIOUS
<1> DEFINE c == request.corpus
<1>1. AtTable("routines")
  BY DEF BindRoutine
<1>2. PICK k, fact : /\ AtFact(c, "routines", k, fact) /\ fact <= Len(c[k].facts["routines"])
                     /\ Current = c[k] /\ FactNow("routines") = c[k].facts["routines"][fact]
  BY <1>1, HandAt
<1>3. DiagnosticsAre(c, request.diagnostics)
  BY DEF NoteInv
<1>4. IsCorpus(c) /\ k \in DOMAIN c /\ fact \in DOMAIN c[k].facts["routines"] /\ c[k] \in ToSet(c)
  BY <1>2, TablesAre DEF AtFact, Linking
<1> DEFINE r == c[k].facts["routines"][fact]
<1>5. r.path \in DOMAIN c[k].facts.files /\ r.line \in Nat
  <2>1. FactsOfFiles(c[k].facts)
    BY <1>4, FilesAre
  <2>2. r \in ToSet(c[k].facts["routines"])
    BY <1>4 DEF ToSet
  <2> QED
    BY <2>1, <2>2 DEF FactsOfFiles
<1>6. \E new : \/ AddLinks(new, request.diagnostics)
               \/ \E found : AddLinks(new, BindingDiagnostics(request.diagnostics, c[k], r, found))
  BY <1>2 DEF BindRoutine, RoutineFact
<1>7. PICK new, diagnostics : /\ AddLinks(new, diagnostics) /\ DiagnosticsAre(c, diagnostics)
                              /\ request.diagnostics \subseteq diagnostics
  BY <1>3, <1>4, <1>5, <1>6, BindingNotes
<1> QED
  BY <1>1, <1>2, <1>7, HandAt, FactNoted

LEMMA NotingCalls == LinkInv /\ NoteInv /\ LinkCall => NoteInv'
<1> SUFFICES ASSUME LinkInv, NoteInv, LinkCall PROVE NoteInv'
  OBVIOUS
<1> DEFINE c == request.corpus
           D == request.diagnostics
<1>1. AtTable("calls")
  BY DEF LinkCall
<1>2. PICK k, fact : /\ AtFact(c, "calls", k, fact) /\ fact <= Len(c[k].facts["calls"])
                     /\ Current = c[k] /\ FactNow("calls") = c[k].facts["calls"][fact]
  BY <1>1, HandAt
<1>3. DiagnosticsAre(c, D)
  BY DEF NoteInv
<1>4. IsCorpus(c) /\ k \in DOMAIN c /\ fact \in DOMAIN c[k].facts["calls"] /\ c[k] \in ToSet(c)
  BY <1>2, TablesAre DEF AtFact, Linking
<1> DEFINE call == c[k].facts["calls"][fact]
           s == c[k]
           owners == CallOwners(c, s, call)
<1>5. call.path \in DOMAIN s.facts.files /\ call.line \in Nat /\ call.column \in Nat
  <2>1. FactsOfFiles(s.facts)
    BY <1>4, FilesAre
  <2>2. call \in ToSet(s.facts["calls"])
    BY <1>4 DEF ToSet
  <2> QED
    BY <2>1, <2>2 DEF FactsOfFiles
<1>6. \E new, E :
        /\ AddLinks(new, E)
        /\ \/ E = D /\ (call.callee = "PG_FUNCTION_INFO_V1" \/ Cardinality(owners) = 1)
           \/ E = AddDiagnostic(D, s.alias, call.path, NextOrdinal(D, s, call), Unowned)
           \/ Cardinality(owners) = 1
              /\ \E ordinal \in Int : \E category : E = AddDiagnostic(D, s.alias, call.path, ordinal, category)
  <2>1. CASE call.callee = "PG_FUNCTION_INFO_V1"
    <3>1. AddLinks({}, D)
      BY <1>2, <2>1 DEF LinkCall
    <3> QED
      BY <2>1, <3>1
  <2>2. CASE call.callee # "PG_FUNCTION_INFO_V1"
    <3>1. \E found, macros : CallFact(c, s, call, owners, found, macros)
      BY <1>2, <2>2 DEF LinkCall
    <3>2. PICK found, macros : CallFact(c, s, call, owners, found, macros)
      BY <3>1
    <3> HIDE DEF call, s, owners
    <3>3. CASE Cardinality(owners) # 1
      <4>1. AddLinks({}, AddDiagnostic(D, s.alias, call.path, NextOrdinal(D, s, call), Unowned))
        BY <3>2, <3>3 DEF CallFact, Unowned
      <4> QED
        BY <4>1
    <3>4. CASE Cardinality(owners) = 1 /\ (call.callee = None \/ call.dynamic)
      <4>1. AddLinks({}, D)
        BY <3>2, <3>4 DEF CallFact
      <4> QED
        BY <3>4, <4>1
    <3>5. CASE Cardinality(owners) = 1 /\ ~(call.callee = None \/ call.dynamic)
      <4> DEFINE new == CallLinks(c, s, call, owners \cup {<<s.alias, "evidence", call.evidence>>}, found, macros)
                 uncertain == AddDiagnostic(D, s.alias, call.path, 200000 + call.line * 1000 + call.column,
                                            "native_macro_resolution_uncertain")
      <4>1. AddLinks(new, IF found # {} \/ macros = {} THEN D ELSE uncertain)
        BY <3>2, <3>5 DEF CallFact
      <4> HIDE DEF new
      <4>2. AddLinks(new, D) \/ AddLinks(new, uncertain)
        BY <4>1
      <4>3. PICK ordinal \in Int : ordinal = 200000 + call.line * 1000 + call.column
        BY <1>5 DEF call
      <4>4. uncertain = AddDiagnostic(D, s.alias, call.path, ordinal, "native_macro_resolution_uncertain")
        BY <4>3
      <4> HIDE DEF uncertain
      <4> QED
        BY <3>5, <4>2, <4>4
    <3> QED
      BY <3>3, <3>4, <3>5
  <2> QED
    BY <2>1, <2>2
<1>0. c = request.corpus /\ D = request.diagnostics /\ s = c[k] /\ call = c[k].facts.calls[fact]
      /\ owners = CallOwners(c, s, call)
  OBVIOUS
<1> HIDE DEF owners, call, s, c, D
<1>7. PICK new, E :
        /\ AddLinks(new, E)
        /\ \/ E = D /\ (call.callee = "PG_FUNCTION_INFO_V1" \/ Cardinality(owners) = 1)
           \/ E = AddDiagnostic(D, s.alias, call.path, NextOrdinal(D, s, call), Unowned)
           \/ Cardinality(owners) = 1
              /\ \E ordinal \in Int : \E category : E = AddDiagnostic(D, s.alias, call.path, ordinal, category)
  BY <1>6
<1>8. DiagnosticsAre(c, E) /\ D \subseteq E /\ CallNoted(c, E, s, call)
  <2>1. CASE E = AddDiagnostic(D, s.alias, call.path, NextOrdinal(D, s, call), Unowned)
    <3>1. s \in ToSet(c)
      BY <1>0, <1>4
    <3>2. DiagnosticsAre(c, E) /\ D \subseteq E /\ Noted(E, s, call.path, Unowned)
      BY <1>3, <1>5, <2>1, <3>1, AddingNext
    <3> QED
      BY <3>2 DEF CallNoted
  <2>2. CASE Cardinality(owners) = 1 /\ \E ordinal \in Int : \E category : E = AddDiagnostic(D, s.alias, call.path, ordinal, category)
    <3>1. Cardinality(owners) = 1
      BY <2>2
    <3>2. PICK ordinal \in Int : \E category : E = AddDiagnostic(D, s.alias, call.path, ordinal, category)
      BY <2>2
    <3>7. PICK category : E = AddDiagnostic(D, s.alias, call.path, ordinal, category)
      BY <3>2
    <3>3. PICK path \in DOMAIN s.facts.files : path = call.path
      BY <1>5
    <3>4. E = AddDiagnostic(D, s.alias, path, ordinal, category)
      BY <3>7, <3>3
    <3>5. s \in ToSet(c)
      BY <1>0, <1>4
    <3>6. DiagnosticsAre(c, E) /\ D \subseteq E
      BY <1>3, <3>2, <3>3, <3>4, <3>5, Adding
    <3> QED
      BY <1>0, <3>1, <3>6 DEF CallNoted
  <2>3. CASE E = D /\ (call.callee = "PG_FUNCTION_INFO_V1" \/ Cardinality(owners) = 1)
    BY <1>0, <1>3, <2>3 DEF CallNoted
  <2> QED
    BY <1>7, <2>1, <2>2, <2>3
<1>9. CorpusRequest /\ AddLinks(new, E)
  BY <1>1, <1>7, HandAt DEF LinkInv
<1>10. AtFact(c, "calls", k, fact) /\ fact <= Len(c[k].facts["calls"])
  BY <1>2
<1> QED
  BY <1>0, <1>8, <1>9, <1>10, FactNoted

LEMMA NotingTables == LinkInv /\ NoteInv /\ EndTable => NoteInv'
<1> SUFFICES ASSUME LinkInv, NoteInv, EndTable PROVE NoteInv'
  OBVIOUS
<1> DEFINE c == request.corpus
           D == request.diagnostics
<1>1. CorpusRequest /\ progress.pc = "corpus"
  BY DEF EndTable, LinkInv
<1>2. PICK table, k, fact : AtFact(c, table, k, fact)
  BY <1>1, SomewhereInTables
<1>3. IsCorpus(c) /\ table \in Linking /\ k \in DOMAIN c /\ fact \in 1 .. Len(c[k].facts[table]) + 1 /\ request.status = "new"
  BY <1>2 DEF AtFact
<1>4. progress.table = table /\ progress.snapshot = k /\ progress.fact = fact
  BY <1>2 DEF AtFact, Passing
<1>5. Len(c[k].facts[table]) \in Nat /\ k \in 1 .. Len(c) /\ Len(c) \in Nat
  BY <1>3, TablesAre
<1>6. fact = Len(c[k].facts[table]) + 1
  BY <1>3, <1>4, <1>5 DEF EndTable, Current
<1>7. DiagnosticsAre(c, D) /\ NotedBefore(c, D, table, k, fact)
  BY <1>1, <1>4 DEF NoteInv
<1>8. "calls" \in Linking
  BY DEF Linking
<1>9. CASE table = "calls" /\ k = Len(c)
  <2>1. Answer("committed")
    BY <1>4, <1>9 DEF EndTable
  <2>2. progress' = Idle /\ request'.status = "committed" /\ request'.corpus = c /\ request'.diagnostics = D
    BY <1>1, <2>1, Answered
  <2>3. AllNoted(c, D)
    <3> SUFFICES ASSUME NEW m \in DOMAIN c, NEW n \in DOMAIN c[m].facts.calls PROVE CallNoted(c, D, c[m], c[m].facts.calls[n])
      BY DEF AllNoted, ToSet
    <3>1. m <= k
      BY <1>3, <1>9, TablesAre
    <3>2. Behind("calls", k, fact, "calls", m, n)
      BY <1>3, <1>6, <1>8, <1>9, <3>1, BehindSnapshot
    <3> QED
      BY <1>7, <1>9, <3>2 DEF NotedBefore
  <2>4. progress'.pc = "idle"
    BY <2>2 DEF Idle
  <2> QED
    BY <1>7, <2>2, <2>3, <2>4 DEF NoteInv
<1>10. CASE ~(table = "calls" /\ k = Len(c))
  <2>1. request' = request
        /\ progress' = CASE table = "evidence" -> Passing("routines", k, 1)
                         [] table = "routines" -> Passing("calls", k, 1)
                         [] OTHER -> Passing("evidence", k + 1, 1)
    BY <1>4, <1>10 DEF EndTable
  <2>2. CASE table \in {"evidence", "routines"}
    <3>1. progress' = Passing(After(table), k, 1)
      BY <2>1, <2>2 DEF After
    <3>2. progress'.table = After(table) /\ progress'.snapshot = k /\ progress'.fact = 1
      BY <3>1 DEF Passing
    <3>3. NotedBefore(c, D, After(table), k, 1)
      <4> SUFFICES ASSUME NEW m \in DOMAIN c, NEW n \in DOMAIN c[m].facts.calls, Behind(After(table), k, 1, "calls", m, n)
                   PROVE  Behind(table, k, fact, "calls", m, n)
        BY <1>7 DEF NotedBefore
      <4> QED
        BY <1>3, <1>6, <1>8, <2>2, BehindTable
    <3> QED
      BY <1>3, <1>7, <2>1, <3>2, <3>3 DEF NoteInv
  <2>3. CASE table = "calls"
    <3>1. progress' = Passing("evidence", k + 1, 1)
      BY <2>1, <2>3
    <3>2. progress'.table = "evidence" /\ progress'.snapshot = k + 1 /\ progress'.fact = 1
      BY <3>1 DEF Passing
    <3>3. NotedBefore(c, D, "evidence", k + 1, 1)
      <4> SUFFICES ASSUME NEW m \in DOMAIN c, NEW n \in DOMAIN c[m].facts.calls, Behind("evidence", k + 1, 1, "calls", m, n)
                   PROVE  Behind("calls", k, fact, "calls", m, n)
        BY <1>7, <2>3 DEF NotedBefore
      <4> QED
        BY <1>3, <1>6, <1>8, <2>3, BehindSnapshot
    <3> QED
      BY <1>3, <1>7, <2>1, <3>2, <3>3 DEF NoteInv
  <2> QED
    BY <1>3, <2>2, <2>3 DEF Linking
<1> QED
  BY <1>9, <1>10

LEMMA NotingStep == LinkInv /\ NoteInv /\ [CorpusNext]_vars => NoteInv'
<1> SUFFICES ASSUME LinkInv, NoteInv, [CorpusNext]_vars PROVE NoteInv'
  OBVIOUS
<1>1. CASE CorpusNext
  BY <1>1, NotingBegins, NotingEvidence, NotingRoutines, NotingCalls, NotingTables DEF CorpusNext
<1>2. CASE UNCHANGED vars
  BY <1>2 DEF vars, NoteInv
<1> QED
  BY <1>1, <1>2
-----------------------------------------------------------------------------
(* What a key has for its node, and what evidence gets when it is written.   *)
NodeOf(c, k) ==
  CorpusNode(IF k[2] \in {"repository", "objects", "owners"} \/ (k[2] = "files" /\ ByAlias(c, k[1]).facts.files[k[3]] \in Ordinary)
             THEN "export" ELSE "supplement",
             k,
             IF k[2] = "evidence" THEN EvidenceStatus(AllLinks(c), k, Fact(c, k)) ELSE None,
             IF k[2] \in {"symbols", "routines"} THEN Primary(c, ByAlias(c, k[1]), k, Fact(c, k)) ELSE None)
AreNodes(c, nodes) == \A n \in nodes : n = NodeOf(c, n.key)
KeySet(nodes) == {n.key : n \in nodes}
FirstKeys(c) == {SnapshotKey(a) : a \in SnapshotAliases(c)} \cup UNION {NativeFiles(s) : s \in ToSet(c)}
DiagnosticKeys(diagnostics) == {DiagnosticKey(d) : d \in diagnostics}

OwnersOf(c, i) == EvidenceOwners(c, ByAlias(c, i[1]), Fact(c, i))
OwnSources(c, i) == {PathKey(i[1], Fact(c, i).path)} \cup IF Cardinality(OwnersOf(c, i)) = 1 THEN OwnersOf(c, i) ELSE {}
OwnLinks(c, i) == {Link(source, i, "evidence", Certainty(Fact(c, i)), None) : source \in OwnSources(c, i)}
OwnNoted(c, diagnostics, i) ==
  \/ Fact(c, i).owner = None \/ Cardinality(OwnersOf(c, i)) = 1 \/ Fact(c, i).origin = "native_call"
  \/ Noted(diagnostics, ByAlias(c, i[1]), Fact(c, i).path, "evidence_owner_unresolved")

(* What is written when some tables are, and this evidence.                  *)
Written(c, diagnostics, edges, nodes, label, past) ==
  /\ AreNodes(c, nodes)
  /\ KeySet(nodes) = FirstKeys(c) \cup (IF label > 1 THEN Facts(c, "symbols") ELSE {})
                   \cup (IF label > 2 THEN Facts(c, "routines") ELSE {}) \cup past
                   \cup (IF label > 4 THEN DiagnosticKeys(diagnostics) ELSE {})
  /\ edges = AllLinks(c) \cup UNION {OwnLinks(c, i) : i \in past}
  /\ \A i \in past : OwnNoted(c, diagnostics, i)

(* The evidence that is behind the place where the writing is.               *)
IsPast(c, label, k, fact, i) ==
  \/ label > 3
  \/ label = 3 /\ \E m \in DOMAIN c : i[1] = c[m].alias /\ (m < k \/ (m = k /\ i[3] < fact))
Past(c, label, k, fact) == {i \in Facts(c, "evidence") : IsPast(c, label, k, fact, i)}
PlaceToWrite(c, label, k, fact) ==
  /\ label \in 1 .. 5 /\ k \in Nat /\ fact \in Nat
  /\ label = 3 /\ c # <<>> => k \in DOMAIN c /\ fact \in 1 .. Len(c[k].facts.evidence) + 1
NodesAt(label, k, fact, nodes) ==
  [pc |-> "graph.nodes", label |-> label, snapshot |-> k, fact |-> fact, nodes |-> nodes]

LinkedCorpus(c) ==
  /\ CorpusRequest /\ c = request.corpus /\ IsCorpus(c)
  /\ DiagnosticsAre(c, request.diagnostics) /\ AllNoted(c, request.diagnostics)
WritingAt(c, label, k, fact, nodes) ==
  /\ LinkedCorpus(c) /\ request.status = "committed"
  /\ PlaceToWrite(c, label, k, fact) /\ progress = NodesAt(label, k, fact, nodes)
  /\ Written(c, request.diagnostics, request.edges, nodes, label, Past(c, label, k, fact))
WriteInv == \E label, k, fact, nodes : WritingAt(request.corpus, label, k, fact, nodes)

LEMMA NodesGrow ==
  ASSUME NEW c, NEW nodes, NEW new, AreNodes(c, nodes), AreNodes(c, new)
  PROVE  AreNodes(c, nodes \cup new) /\ KeySet(nodes \cup new) = KeySet(nodes) \cup KeySet(new)
  BY DEF AreNodes, KeySet

LEMMA NodeKey == ASSUME NEW c, NEW k PROVE NodeOf(c, k).key = k
  BY DEF NodeOf, CorpusNode

(* The nodes of a table.                                                     *)
LEMMA NodesMade ==
  ASSUME NEW c, NEW K, NEW nodes, nodes = {NodeOf(c, k) : k \in K}
  PROVE  AreNodes(c, nodes) /\ KeySet(nodes) = K
  BY NodeKey DEF AreNodes, KeySet

LEMMA FirstNodes ==
  ASSUME NEW c, IsCorpus(c), NEW nodes, nodes = {CorpusNode("supplement", k, None, None) : k \in FirstKeys(c)}
  PROVE  AreNodes(c, nodes) /\ KeySet(nodes) = FirstKeys(c)
<1>1. ASSUME NEW k \in FirstKeys(c) PROVE CorpusNode("supplement", k, None, None) = NodeOf(c, k)
  <2>1. CASE \E a : k = SnapshotKey(a)
    <3>1. k[2] = "snapshot"
      BY <2>1 DEF SnapshotKey
    <3> QED
      BY <3>1 DEF NodeOf
  <2>2. CASE \E s \in ToSet(c) : k \in NativeFiles(s)
    <3>0. PICK s \in ToSet(c) : k \in NativeFiles(s)
      BY <2>2
    <3>1. PICK p \in DOMAIN s.facts.files : k = PathKey(s.alias, p) /\ s.facts.files[p] \notin Ordinary
      BY <3>0 DEF NativeFiles
    <3>2. k[1] = s.alias /\ k[2] = "files" /\ k[3] = p
      BY <3>1 DEF PathKey
    <3>3. ByAlias(c, s.alias) = s
      BY <3>0, KnownByAlias
    <3> QED
      BY <3>0, <3>1, <3>2, <3>3 DEF NodeOf
  <2> QED
    BY <2>1, <2>2 DEF FirstKeys
<1>2. nodes = {NodeOf(c, k) : k \in FirstKeys(c)}
  BY <1>1
<1> QED
  BY <1>2, NodesMade

LEMMA FactNodes ==
  ASSUME NEW c, IsCorpus(c), NEW table \in {"symbols", "routines"}, NEW nodes,
         nodes = {CorpusNode("supplement", i, None, Primary(c, ByAlias(c, i[1]), i, Fact(c, i))) : i \in Facts(c, table)}
  PROVE  AreNodes(c, nodes) /\ KeySet(nodes) = Facts(c, table)
<1>1. ASSUME NEW k \in Facts(c, table)
      PROVE  CorpusNode("supplement", k, None, Primary(c, ByAlias(c, k[1]), k, Fact(c, k))) = NodeOf(c, k)
  <2>1. k[2] = table
    BY FactThere
  <2> QED
    BY <2>1 DEF NodeOf
<1>2. PICK K : K = Facts(c, table)
  OBVIOUS
<1>3. nodes = {NodeOf(c, k) : k \in K}
  BY <1>1, <1>2
<1>4. AreNodes(c, nodes) /\ KeySet(nodes) = K
  BY <1>3, NodesMade
<1> QED
  BY <1>2, <1>4

LEMMA DiagnosticNodes ==
  ASSUME NEW c, NEW D, NEW nodes, nodes = {CorpusNode("supplement", DiagnosticKey(d), None, None) : d \in D}
  PROVE  AreNodes(c, nodes) /\ KeySet(nodes) = DiagnosticKeys(D)
<1>1. ASSUME NEW d \in D PROVE CorpusNode("supplement", DiagnosticKey(d), None, None) = NodeOf(c, DiagnosticKey(d))
  <2>1. DiagnosticKey(d)[2] = "diagnostics"
    BY DEF DiagnosticKey
  <2> HIDE DEF DiagnosticKey
  <2> QED
    BY <2>1 DEF NodeOf
<1>2. nodes = {NodeOf(c, k) : k \in DiagnosticKeys(D)}
  BY <1>1 DEF DiagnosticKeys
<1> QED
  BY <1>2, NodesMade
-----------------------------------------------------------------------------
(* The evidence is gone through in order.                                    *)
LEMMA EvidencePlaced ==
  ASSUME NEW c, IsCorpus(c), NEW i \in Facts(c, "evidence")
  PROVE  \E m \in DOMAIN c : \E n \in DOMAIN c[m].facts.evidence :
           i = <<c[m].alias, "evidence", n>> /\ i[1] = c[m].alias /\ i[3] = n /\ n \in 1 .. Len(c[m].facts.evidence)
<1>1. PICK s \in ToSet(c) : \E n \in DOMAIN s.facts["evidence"] : i = <<s.alias, "evidence", n>> /\ i[1] = s.alias /\ i[3] = n
  BY FactThere
<1>2. PICK m \in DOMAIN c : s = c[m]
  BY <1>1 DEF ToSet
<1>3. DOMAIN c[m].facts["evidence"] = 1 .. Len(c[m].facts["evidence"])
  BY <1>2, TablesAre DEF Linking
<1> QED
  BY <1>1, <1>2, <1>3

LEMMA PastFirst ==
  ASSUME NEW c, IsCorpus(c)
  PROVE  /\ \A label, k, fact : label \in Nat /\ label < 3 => Past(c, label, k, fact) = {}
         /\ \A label, k, fact : label \in Nat /\ label > 3 => Past(c, label, k, fact) = Facts(c, "evidence")
         /\ Past(c, 3, 1, 1) = {}
<1>1. ASSUME NEW i \in Facts(c, "evidence") PROVE ~IsPast(c, 3, 1, 1, i)
  <2>1. \A m \in DOMAIN c : m \in Nat /\ m >= 1
    BY KnownByAlias
  <2>2. i[3] \in Nat /\ i[3] >= 1
    BY EvidencePlaced
  <2> QED
    BY <2>1, <2>2 DEF IsPast
<1>2. \A label, k, fact, i : label \in Nat /\ label < 3 => ~IsPast(c, label, k, fact, i)
  BY DEF IsPast
<1>3. \A label, k, fact, i : label \in Nat /\ label > 3 => IsPast(c, label, k, fact, i)
  BY DEF IsPast
<1> QED
  BY <1>1, <1>2, <1>3 DEF Past

LEMMA PastNext ==
  ASSUME NEW c, IsCorpus(c), NEW k \in DOMAIN c, NEW fact \in DOMAIN c[k].facts.evidence
  PROVE  Past(c, 3, k, fact + 1) = Past(c, 3, k, fact) \cup {<<c[k].alias, "evidence", fact>>}
<1> DEFINE id == <<c[k].alias, "evidence", fact>>
<1>1. id \in Facts(c, "evidence")
  BY FactHere, TablesAre
<1>2. fact \in Nat /\ k \in Nat
  BY TablesAre DEF Linking
<1>3. IsPast(c, 3, k, fact + 1, id)
  BY <1>2 DEF IsPast
<1>4. ASSUME NEW i \in Facts(c, "evidence") PROVE IsPast(c, 3, k, fact + 1, i) <=> IsPast(c, 3, k, fact, i) \/ i = id
  <2>1. PICK m \in DOMAIN c : \E n \in DOMAIN c[m].facts.evidence :
          i = <<c[m].alias, "evidence", n>> /\ i[1] = c[m].alias /\ i[3] = n /\ n \in 1 .. Len(c[m].facts.evidence)
    BY EvidencePlaced
  <2>2. i[3] \in Nat /\ i = <<c[m].alias, "evidence", i[3]>> /\ m \in Nat /\ i[1] = c[m].alias
    BY <2>1, TablesAre
  <2>3. \A o \in DOMAIN c : i[1] = c[o].alias <=> o = m
    BY <2>2, KnownByAlias
  <2>4. IsPast(c, 3, k, fact, i) <=> m < k \/ (m = k /\ i[3] < fact)
    BY <2>3 DEF IsPast
  <2>5. IsPast(c, 3, k, fact + 1, i) <=> m < k \/ (m = k /\ i[3] < fact + 1)
    BY <2>3 DEF IsPast
  <2>6. i = id <=> m = k /\ i[3] = fact
    BY <2>2, <2>3
  <2> QED
    BY <1>2, <2>2, <2>4, <2>5, <2>6
<1> HIDE DEF id
<1>5. Past(c, 3, k, fact + 1) = Past(c, 3, k, fact) \cup {id}
  BY <1>1, <1>3, <1>4 DEF Past
<1> QED
  BY <1>5 DEF id

LEMMA PastSnapshot ==
  ASSUME NEW c, IsCorpus(c), NEW k \in DOMAIN c, NEW fact, fact = Len(c[k].facts.evidence) + 1
  PROVE  /\ Past(c, 3, k + 1, 1) = Past(c, 3, k, fact)
         /\ k >= Len(c) => Past(c, 3, k, fact) = Facts(c, "evidence")
<1>1. ASSUME NEW i \in Facts(c, "evidence")
      PROVE  /\ IsPast(c, 3, k + 1, 1, i) <=> IsPast(c, 3, k, fact, i)
             /\ k >= Len(c) => IsPast(c, 3, k, fact, i)
  <2>1. PICK m \in DOMAIN c : \E n \in DOMAIN c[m].facts.evidence :
          i = <<c[m].alias, "evidence", n>> /\ i[1] = c[m].alias /\ i[3] = n /\ n \in 1 .. Len(c[m].facts.evidence)
    BY EvidencePlaced
  <2>2. i[3] \in Nat /\ i[3] >= 1 /\ i[3] <= Len(c[m].facts.evidence) /\ i[1] = c[m].alias
    BY <2>1
  <2>3. m \in Nat /\ k \in Nat /\ Len(c) \in Nat /\ m <= Len(c) /\ Len(c[k].facts.evidence) \in Nat
    BY KnownByAlias, TablesAre DEF Linking
  <2>4. \A o \in DOMAIN c : i[1] = c[o].alias <=> o = m
    BY <2>2, KnownByAlias
  <2>5. IsPast(c, 3, k, fact, i) <=> m < k \/ (m = k /\ i[3] < fact)
    BY <2>4 DEF IsPast
  <2>6. IsPast(c, 3, k + 1, 1, i) <=> m < k + 1 \/ (m = k + 1 /\ i[3] < 1)
    BY <2>4 DEF IsPast
  <2>7. m = k => i[3] < fact
    BY <2>2, <2>3
  <2> QED
    BY <2>2, <2>3, <2>5, <2>6, <2>7
<1> QED
  BY <1>1 DEF Past
-----------------------------------------------------------------------------
(* The steps of the writing.                                                 *)
LEMMA LinkedStays ==
  ASSUME NEW c, LinkedCorpus(c), request' = request
  PROVE  LinkedCorpus(c)'
  BY DEF LinkedCorpus, CorpusRequest

LEMMA WritesAt ==
  ASSUME NEW c, LinkedCorpus(c)', request'.status = "committed", NEW label, NEW k, NEW fact, NEW nodes,
         PlaceToWrite(c, label, k, fact), progress' = NodesAt(label, k, fact, nodes),
         Written(c, request'.diagnostics, request'.edges, nodes, label, Past(c, label, k, fact))
  PROVE  WriteInv'
<1>1. c = request'.corpus
  BY DEF LinkedCorpus
<1>2. WritingAt(c, label, k, fact, nodes)'
  BY DEF WritingAt
<1> QED
  BY <1>1, <1>2 DEF WriteInv

LEMMA WritingSomewhere ==
  ASSUME WriteInv
  PROVE  \E c, label, k, fact, nodes : WritingAt(c, label, k, fact, nodes)
  BY DEF WriteInv

LEMMA LabelIs ==
  ASSUME NEW label \in 1 .. 5, NEW table, label <= Len(Labels), Labels[label] = table
  PROVE  /\ table = "symbols" <=> label = 1
         /\ table = "routines" <=> label = 2
         /\ table = "evidence" <=> label = 3
         /\ table = "diagnostics" <=> label = 4
  BY DEF Labels

LEMMA Wrote ==
  ASSUME NEW label, NEW k, NEW fact, NEW nodes, progress = NodesAt(label, k, fact, nodes), NEW new, WroteNodes(new)
  PROVE  progress' = NodesAt(label + 1, 1, 1, nodes \cup new)
<1>1. PICK more : more = nodes \cup new
  OBVIOUS
<1>2. progress.nodes = nodes /\ progress.label = label
  BY DEF NodesAt
<1>3. progress' = [progress EXCEPT !.nodes = more, !.label = label + 1, !.snapshot = 1, !.fact = 1]
  BY <1>1, <1>2 DEF WroteNodes
<1>4. progress' = NodesAt(label + 1, 1, 1, more)
  BY <1>3 DEF NodesAt
<1> QED
  BY <1>1, <1>4

LEMMA FirstPlace ==
  ASSUME NEW c, IsCorpus(c), NEW label \in 1 .. 5
  PROVE  PlaceToWrite(c, label, 1, 1)
<1>1. DOMAIN c = 1 .. Len(c) /\ Len(c) \in Nat
  BY KnownByAlias
<1>2. c # <<>> => 1 \in DOMAIN c
  <2>1. c \in Seq(ToSet(c))
    BY CorporaAssumption DEF IsCorpus
  <2>2. Len(c) = 0 => c = <<>>
    BY <2>1, EmptySeq
  <2> QED
    BY <1>1, <2>2
<1>3. 1 \in DOMAIN c => Len(c[1].facts["evidence"]) \in Nat
  BY TablesAre DEF Linking
<1> QED
  BY <1>2, <1>3 DEF PlaceToWrite

LEMMA GraphBegins == LinkInv /\ NoteInv /\ BeginGraph => WriteInv'
<1> SUFFICES ASSUME LinkInv, NoteInv, BeginGraph PROVE WriteInv'
  OBVIOUS
<1>0. PICK c : c = request.corpus
  OBVIOUS
<1> DEFINE first == {CorpusNode("supplement", k, None, None) : k \in FirstKeys(c)}
<1>1. CorpusRequest /\ IsCorpus(c) /\ request.status = "committed" /\ request.edges = AllLinks(c) /\ request' = request
  BY <1>0 DEF LinkInv, BeginGraph
<1>2. LinkedCorpus(c)
  BY <1>0, <1>1 DEF LinkedCorpus, NoteInv
<1>3. progress' = NodesAt(1, 1, 1, first)
  BY <1>0 DEF BeginGraph, NodesAt, FirstKeys
<1>4. AreNodes(c, first) /\ KeySet(first) = FirstKeys(c)
  BY <1>1, FirstNodes
<1>5. Past(c, 1, 1, 1) = {}
  BY <1>1, PastFirst
<1> HIDE DEF first
<1>6. Written(c, request.diagnostics, request.edges, first, 1, {})
  BY <1>1, <1>4 DEF Written
<1>7. PlaceToWrite(c, 1, 1, 1)
  BY <1>1, FirstPlace
<1>8. LinkedCorpus(c)'
  BY <1>1, <1>2, LinkedStays
<1> QED
  BY <1>1, <1>3, <1>5, <1>6, <1>7, <1>8, WritesAt

LEMMA WritesFacts == WriteInv /\ WriteFacts => WriteInv'
<1> SUFFICES ASSUME WriteInv, WriteFacts PROVE WriteInv'
  OBVIOUS
<1>1. PICK c, label, k, fact, nodes : WritingAt(c, label, k, fact, nodes)
  BY WritingSomewhere
<1>2. LinkedCorpus(c) /\ IsCorpus(c) /\ c = request.corpus /\ request.status = "committed"
      /\ label \in 1 .. 5 /\ progress = NodesAt(label, k, fact, nodes)
  BY <1>1 DEF WritingAt, LinkedCorpus, PlaceToWrite
<1>3. PICK table \in {"symbols", "routines"} :
        /\ Writing(table) /\ request' = request
        /\ WroteNodes({CorpusNode("supplement", i, None, Primary(c, ByAlias(c, i[1]), i, Fact(c, i))) : i \in Facts(c, table)})
  BY <1>2 DEF WriteFacts, Facts
<1> DEFINE new == {CorpusNode("supplement", i, None, Primary(c, ByAlias(c, i[1]), i, Fact(c, i))) : i \in Facts(c, table)}
<1>4. AreNodes(c, new) /\ KeySet(new) = Facts(c, table)
  BY <1>2, FactNodes
<1> HIDE DEF new
<1>5. progress' = NodesAt(label + 1, 1, 1, nodes \cup new)
  BY <1>2, <1>3, Wrote DEF new
<1>6. label <= Len(Labels) /\ Labels[label] = table
  BY <1>2, <1>3 DEF Writing, NodesAt
<1>7. label \in {1, 2} /\ (table = "symbols" <=> label = 1) /\ (table = "routines" <=> label = 2)
  BY <1>2, <1>3, <1>6, LabelIs
<1>8. Past(c, label, k, fact) = {} /\ Past(c, label + 1, 1, 1) = {}
  BY <1>2, <1>7, PastFirst
<1>9. Written(c, request.diagnostics, request.edges, nodes, label, {})
  BY <1>1, <1>8 DEF WritingAt
<1>10. AreNodes(c, nodes \cup new) /\ KeySet(nodes \cup new) = KeySet(nodes) \cup Facts(c, table)
  BY <1>4, <1>9, NodesGrow DEF Written
<1>11. KeySet(nodes \cup new) = FirstKeys(c) \cup (IF label + 1 > 1 THEN Facts(c, "symbols") ELSE {})
                   \cup (IF label + 1 > 2 THEN Facts(c, "routines") ELSE {}) \cup {}
                   \cup (IF label + 1 > 4 THEN DiagnosticKeys(request.diagnostics) ELSE {})
  BY <1>7, <1>9, <1>10 DEF Written
<1>12. Written(c, request.diagnostics, request.edges, nodes \cup new, label + 1, {})
  BY <1>9, <1>10, <1>11 DEF Written
<1>13. PlaceToWrite(c, label + 1, 1, 1)
  BY <1>2, <1>7, FirstPlace
<1>14. LinkedCorpus(c)'
  BY <1>2, <1>3, LinkedStays
<1> QED
  BY <1>2, <1>3, <1>5, <1>8, <1>12, <1>13, <1>14, WritesAt

LEMMA WritesDiagnostics == WriteInv /\ WriteDiagnostics => WriteInv'
<1> SUFFICES ASSUME WriteInv, WriteDiagnostics PROVE WriteInv'
  OBVIOUS
<1>1. PICK c, label, k, fact, nodes : WritingAt(c, label, k, fact, nodes)
  BY WritingSomewhere
<1>2. LinkedCorpus(c) /\ IsCorpus(c) /\ c = request.corpus /\ request.status = "committed"
      /\ label \in 1 .. 5 /\ progress = NodesAt(label, k, fact, nodes)
  BY <1>1 DEF WritingAt, LinkedCorpus, PlaceToWrite
<1> DEFINE D == request.diagnostics
           new == {CorpusNode("supplement", DiagnosticKey(d), None, None) : d \in D}
<1>3. Writing("diagnostics") /\ request' = request /\ WroteNodes(new)
  BY DEF WriteDiagnostics
<1>4. AreNodes(c, new) /\ KeySet(new) = DiagnosticKeys(D)
  BY DiagnosticNodes
<1> HIDE DEF new
<1>5. progress' = NodesAt(label + 1, 1, 1, nodes \cup new)
  BY <1>2, <1>3, Wrote
<1>6. label <= Len(Labels) /\ Labels[label] = "diagnostics"
  BY <1>2, <1>3 DEF Writing, NodesAt
<1>7. label = 4
  BY <1>2, <1>6, LabelIs
<1>8. Past(c, label, k, fact) = Facts(c, "evidence") /\ Past(c, label + 1, 1, 1) = Facts(c, "evidence")
  BY <1>2, <1>7, PastFirst
<1>9. Written(c, D, request.edges, nodes, label, Facts(c, "evidence"))
  BY <1>1, <1>8 DEF WritingAt
<1>10. AreNodes(c, nodes \cup new) /\ KeySet(nodes \cup new) = KeySet(nodes) \cup DiagnosticKeys(D)
  BY <1>4, <1>9, NodesGrow DEF Written
<1>11. Written(c, D, request.edges, nodes \cup new, label + 1, Facts(c, "evidence"))
  <2> HIDE DEF D
  <2> QED
    BY <1>7, <1>9, <1>10 DEF Written
<1>12. PlaceToWrite(c, label + 1, 1, 1)
  BY <1>2, <1>7, FirstPlace
<1>13. LinkedCorpus(c)'
  BY <1>2, <1>3, LinkedStays
<1> QED
  BY <1>2, <1>3, <1>5, <1>8, <1>11, <1>12, <1>13, WritesAt

LEMMA EndsEvidence == WriteInv /\ EndEvidence => WriteInv'
<1> SUFFICES ASSUME WriteInv, EndEvidence PROVE WriteInv'
  OBVIOUS
<1>1. PICK c, label, k, fact, nodes : WritingAt(c, label, k, fact, nodes)
  BY WritingSomewhere
<1>2. LinkedCorpus(c) /\ IsCorpus(c) /\ c = request.corpus /\ request.status = "committed"
      /\ label \in 1 .. 5 /\ progress = NodesAt(label, k, fact, nodes) /\ PlaceToWrite(c, label, k, fact)
  BY <1>1 DEF WritingAt, LinkedCorpus, PlaceToWrite
<1>3. request' = request /\ progress.label = label /\ progress.snapshot = k /\ progress.fact = fact
  BY <1>2 DEF EndEvidence, NodesAt
<1>4. label = 3
  <2>1. label <= Len(Labels) /\ Labels[label] = "evidence"
    BY <1>3 DEF EndEvidence, Writing
  <2> QED
    BY <1>2, <2>1, LabelIs
<1>5. Written(c, request.diagnostics, request.edges, nodes, label, Past(c, label, k, fact))
  BY <1>1 DEF WritingAt
<1>6. LinkedCorpus(c)'
  BY <1>2, <1>3, LinkedStays
<1>7. Len(c) \in Nat /\ DOMAIN c = 1 .. Len(c) /\ k \in Nat
  BY <1>2, KnownByAlias DEF PlaceToWrite
<1>8. c # <<>> => k \in DOMAIN c /\ fact = Len(c[k].facts.evidence) + 1
  <2> SUFFICES ASSUME c # <<>> PROVE k \in DOMAIN c /\ fact = Len(c[k].facts.evidence) + 1
    OBVIOUS
  <2>1. k \in DOMAIN c /\ fact \in 1 .. Len(c[k].facts.evidence) + 1
    BY <1>2, <1>4 DEF PlaceToWrite
  <2>2. fact > Len(c[k].facts.evidence)
    BY <1>2, <1>3 DEF EndEvidence, Current
  <2>3. Len(c[k].facts["evidence"]) \in Nat
    BY <1>2, <2>1, TablesAre DEF Linking
  <2> QED
    BY <2>1, <2>2, <2>3
<1>9. CASE k >= Len(c)
  <2>1. progress' = NodesAt(4, 1, 1, nodes \cup {})
    <3>1. WroteNodes({})
      BY <1>2, <1>3, <1>9 DEF EndEvidence
    <3> QED
      BY <1>2, <1>4, <3>1, Wrote
  <2>2. Past(c, 3, k, fact) = Facts(c, "evidence")
    <3>1. CASE c = <<>>
      <4>1. \A i \in Facts(c, "evidence") : \E m \in DOMAIN c : TRUE
        BY <1>2, EvidencePlaced
      <4>2. Facts(c, "evidence") = {}
        BY <3>1, <4>1
      <4> QED
        BY <4>2 DEF Past
    <3>2. CASE c # <<>>
      BY <1>2, <1>8, <1>9, <3>2, PastSnapshot
    <3> QED
      BY <3>1, <3>2
  <2>3. Past(c, 4, 1, 1) = Facts(c, "evidence")
    BY <1>2, PastFirst
  <2>4. Written(c, request.diagnostics, request.edges, nodes \cup {}, 4, Facts(c, "evidence"))
    <3>1. nodes \cup {} = nodes
      OBVIOUS
    <3> QED
      BY <1>4, <1>5, <2>2, <3>1 DEF Written
  <2>5. PlaceToWrite(c, 4, 1, 1)
    BY <1>2, FirstPlace
  <2> QED
    BY <1>2, <1>3, <1>6, <2>1, <2>3, <2>4, <2>5, WritesAt
<1>10. CASE k < Len(c)
  <2>1. c # <<>>
    BY <1>7, <1>10
  <2>2. progress' = NodesAt(3, k + 1, 1, nodes)
    <3>1. progress' = [progress EXCEPT !.snapshot = @ + 1, !.fact = 1]
      BY <1>2, <1>3, <1>7, <1>10 DEF EndEvidence
    <3>2. progress' = [progress EXCEPT !.snapshot = k + 1, !.fact = 1]
      BY <1>3, <3>1
    <3> QED
      BY <1>2, <1>4, <3>2 DEF NodesAt
  <2>3. Past(c, 3, k + 1, 1) = Past(c, 3, k, fact)
    BY <1>2, <1>8, <2>1, PastSnapshot
  <2>4. Written(c, request.diagnostics, request.edges, nodes, 3, Past(c, 3, k + 1, 1))
    BY <1>4, <1>5, <2>3
  <2>5. PlaceToWrite(c, 3, k + 1, 1)
    <3>1. k + 1 \in DOMAIN c
      BY <1>7, <1>8, <1>10, <2>1
    <3>2. Len(c[k + 1].facts["evidence"]) \in Nat
      BY <1>2, <3>1, TablesAre DEF Linking
    <3> QED
      BY <1>7, <3>1, <3>2 DEF PlaceToWrite
  <2> QED
    BY <1>2, <1>3, <1>6, <2>2, <2>4, <2>5, WritesAt
<1> QED
  BY <1>7, <1>9, <1>10

(* Whoever has evidence is of its file and line.                             *)
LEMMA OwnersAre ==
  ASSUME NEW c, IsCorpus(c), NEW i \in Facts(c, "evidence"), NEW o \in OwnersOf(c, i)
  PROVE  /\ o[1] = i[1] /\ \E table \in {"symbols", "routines", "owners"} : o[2] = table /\ o \in Facts(c, table)
         /\ Fact(c, o).path = Fact(c, i).path /\ Fact(c, o).line = Fact(c, i).ownerline
<1> DEFINE e == Fact(c, i)
<1>1. PICK s \in ToSet(c) : i[1] = s.alias /\ ByAlias(c, s.alias) = s
  BY FactThere
<1>2. o \in EvidenceOwners(c, s, e)
  BY <1>1 DEF OwnersOf
<1> HIDE DEF e
<1>3. \E table \in {"symbols", "routines", "owners"} :
        o \in TableFacts(c, {s.alias}, table) /\ Fact(c, o).path = e.path /\ Fact(c, o).line = e.ownerline
  BY <1>2 DEF EvidenceOwners, CallOwners
<1>4. PICK table \in {"symbols", "routines", "owners"} :
        o \in TableFacts(c, {s.alias}, table) /\ Fact(c, o).path = e.path /\ Fact(c, o).line = e.ownerline
  BY <1>3
<1>5. o \in Facts(c, table) /\ o[1] = s.alias /\ o[2] = table
  <2>1. TableFacts(c, {s.alias}, table) \subseteq Facts(c, table)
    BY <1>1, KnownByAlias, FactsWithin
  <2>2. o[1] = s.alias /\ o[2] = table
    BY <1>4 DEF TableFacts
  <2> QED
    BY <1>4, <2>1, <2>2
<1> QED
  BY <1>1, <1>4, <1>5 DEF e

LEMMA OwnLinksAre ==
  ASSUME NEW c, IsCorpus(c), NEW i \in Facts(c, "evidence"), NEW l \in OwnLinks(c, i)
  PROVE  /\ l.target = i /\ l.kind = "evidence" /\ l.source \in OwnSources(c, i)
         /\ l.source[2] \in {"files", "symbols", "routines", "owners"}
         /\ l.source[2] # "files" => l.source \in OwnersOf(c, i) /\ Cardinality(OwnersOf(c, i)) = 1
         /\ l.source[2] = "files" => l.source = PathKey(i[1], Fact(c, i).path)
<1>1. PICK source \in OwnSources(c, i) : l = Link(source, i, "evidence", Certainty(Fact(c, i)), None)
  BY DEF OwnLinks
<1>2. l.target = i /\ l.kind = "evidence" /\ l.source = source
  BY <1>1 DEF Link
<1>3. source = PathKey(i[1], Fact(c, i).path) \/ (source \in OwnersOf(c, i) /\ Cardinality(OwnersOf(c, i)) = 1)
  BY DEF OwnSources
<1>4. PathKey(i[1], Fact(c, i).path)[2] = "files"
  BY DEF PathKey
<1>5. source \in OwnersOf(c, i) => source[2] \in {"symbols", "routines", "owners"}
  BY OwnersAre
<1> QED
  BY <1>2, <1>3, <1>4, <1>5

(* What is linked to evidence while it is written changes no status.         *)
LEMMA StatusKept ==
  ASSUME NEW c, IsCorpus(c), NEW past \in SUBSET Facts(c, "evidence"), NEW edges,
         edges = AllLinks(c) \cup UNION {OwnLinks(c, i) : i \in past}, NEW id, id[2] = "evidence"
  PROVE  /\ EvidenceStatus(edges, id, Fact(c, id)) = EvidenceStatus(AllLinks(c), id, Fact(c, id))
         /\ \A l : l.source = id => (l \in edges <=> l \in AllLinks(c))
<1>1. \A i \in past : \A l \in OwnLinks(c, i) : l.source # id
  BY OwnLinksAre
<1>2. \A l : l.source = id => (l \in edges <=> l \in AllLinks(c))
  BY <1>1
<1> QED
  BY <1>2, StatusStays

LEMMA NotedStays ==
  ASSUME NEW c, NEW D, NEW E, D \subseteq E, NEW i, OwnNoted(c, D, i)
  PROVE  OwnNoted(c, E, i)
  BY DEF OwnNoted, Noted

LEMMA WritesEvidence == WriteInv /\ WriteEvidence => WriteInv'
<1> SUFFICES ASSUME WriteInv, WriteEvidence PROVE WriteInv'
  OBVIOUS
<1>1. PICK c, label, k, fact, nodes : WritingAt(c, label, k, fact, nodes)
  BY WritingSomewhere
<1>2. LinkedCorpus(c) /\ IsCorpus(c) /\ c = request.corpus /\ request.status = "committed"
      /\ label \in 1 .. 5 /\ progress = NodesAt(label, k, fact, nodes) /\ PlaceToWrite(c, label, k, fact)
  BY <1>1 DEF WritingAt, LinkedCorpus, PlaceToWrite
<1>3. progress.label = label /\ progress.snapshot = k /\ progress.fact = fact /\ progress.nodes = nodes
  BY <1>2 DEF NodesAt
<1>4. label = 3
  <2>1. label <= Len(Labels) /\ Labels[label] = "evidence"
    BY <1>3 DEF WriteEvidence, Writing
  <2> QED
    BY <1>2, <2>1, LabelIs
<1>5. k \in DOMAIN c /\ fact \in DOMAIN c[k].facts.evidence /\ fact \in Nat /\ k \in Nat
  <2>1. k \in DOMAIN c /\ fact \in 1 .. Len(c[k].facts.evidence) + 1
    BY <1>2, <1>4 DEF PlaceToWrite, WriteEvidence
  <2>2. fact <= Len(c[k].facts.evidence)
    BY <1>2, <1>3 DEF WriteEvidence, Current
  <2>3. DOMAIN c[k].facts["evidence"] = 1 .. Len(c[k].facts["evidence"]) /\ Len(c[k].facts["evidence"]) \in Nat
    BY <1>2, <2>1, TablesAre DEF Linking
  <2> QED
    BY <1>2, <2>1, <2>2, <2>3 DEF PlaceToWrite
<1>6. PICK s : s = c[k]
  OBVIOUS
<1>7. s \in ToSet(c)
  BY <1>5, <1>6 DEF ToSet
<1>8. PICK id : id = <<s.alias, "evidence", fact>>
  OBVIOUS
<1>9. PICK e : e = s.facts.evidence[fact]
  OBVIOUS
<1>10. id \in Facts(c, "evidence") /\ Fact(c, id) = e /\ ByAlias(c, s.alias) = s /\ id[1] = s.alias /\ id[2] = "evidence"
  <2>1. fact \in DOMAIN s.facts["evidence"]
    BY <1>5, <1>6
  <2>2. <<s.alias, "evidence", fact>> \in Facts(c, "evidence") /\ ByAlias(c, s.alias) = s
    BY <1>2, <1>7, <2>1, FactHere
  <2>3. id[1] = s.alias /\ id[2] = "evidence" /\ id[3] = fact
    BY <1>8
  <2>4. Fact(c, id) = e
    BY <1>9, <2>2, <2>3 DEF Fact
  <2> QED
    BY <1>8, <2>2, <2>3, <2>4
<1> DEFINE owners == EvidenceOwners(c, s, e)
           D == request.diagnostics
           E == request.edges
           noted == IF e.owner = None \/ Cardinality(owners) = 1 \/ e.origin = "native_call" THEN D
                    ELSE AddDiagnostic(D, s.alias, e.path, NextOrdinal(D, s, e), "evidence_owner_unresolved")
           links == {Link(source, id, "evidence", Certainty(e), None) :
                       source \in {PathKey(s.alias, e.path)} \cup IF Cardinality(owners) = 1 THEN owners ELSE {}}
           node == CorpusNode("supplement", id, EvidenceStatus(E, id, e), None)
<1>11. EvidenceRow(s, id, e, owners)
  BY <1>2, <1>3, <1>6, <1>8, <1>9 DEF WriteEvidence, Current, Id, FactNow
<1>12. request' = [request EXCEPT !.edges = @ \cup links, !.diagnostics = noted]
       /\ progress' = [progress EXCEPT !.fact = @ + 1, !.nodes = @ \cup {node}]
  BY <1>11 DEF EvidenceRow
<1>13. owners = OwnersOf(c, id) /\ links = OwnLinks(c, id)
  BY <1>10 DEF OwnersOf, OwnLinks, OwnSources
<1> HIDE DEF owners, links, node
<1>14. DiagnosticsAre(c, D) /\ AllNoted(c, D)
  BY <1>2 DEF LinkedCorpus
<1>15. e.path \in DOMAIN s.facts.files
  <2>1. FactsOfFiles(s.facts) /\ e \in ToSet(s.facts["evidence"])
    BY <1>2, <1>5, <1>6, <1>7, <1>9, FilesAre DEF ToSet
  <2> QED
    BY <2>1 DEF FactsOfFiles
<1>16. PICK F : F = noted
  OBVIOUS
<1>17. DiagnosticsAre(c, F) /\ D \subseteq F /\ OwnNoted(c, F, id)
  <2>1. CASE e.owner = None \/ Cardinality(owners) = 1 \/ e.origin = "native_call"
    BY <1>10, <1>13, <1>14, <1>16, <2>1 DEF OwnNoted
  <2>2. CASE ~(e.owner = None \/ Cardinality(owners) = 1 \/ e.origin = "native_call")
    <3>1. F = AddDiagnostic(D, s.alias, e.path, NextOrdinal(D, s, e), "evidence_owner_unresolved")
      BY <1>16, <2>2
    <3> HIDE DEF D
    <3>2. DiagnosticsAre(c, F) /\ D \subseteq F /\ Noted(F, s, e.path, "evidence_owner_unresolved")
      BY <1>7, <1>14, <1>15, <3>1, AddingNext
    <3> QED
      BY <1>10, <3>2 DEF OwnNoted
  <2> QED
    BY <2>1, <2>2
<1> HIDE DEF noted
<1>18. PICK more : more = E \cup links
  OBVIOUS
<1>19. /\ CorpusRequest' /\ request'.corpus = c /\ request'.status = "committed"
       /\ request'.edges = more /\ request'.diagnostics = F
  <2>1. request' = [request EXCEPT !.edges = more, !.diagnostics = F]
    BY <1>12, <1>16, <1>18
  <2>2. PICK edges, graph, old :
          request = [tool |-> "corpus", corpus |-> c, edges |-> edges, status |-> "committed", graph |-> graph,
                     diagnostics |-> old]
    BY <1>2 DEF LinkedCorpus, CorpusRequest
  <2>3. PICK middle : middle = [request EXCEPT !.edges = more]
    OBVIOUS
  <2>4. middle =
          [tool |-> "corpus", corpus |-> c, edges |-> more, status |-> "committed", graph |-> graph, diagnostics |-> old]
    BY <2>2, <2>3
  <2>5. request' = [middle EXCEPT !.diagnostics = F]
    BY <2>1, <2>3
  <2>6. request' =
          [tool |-> "corpus", corpus |-> c, edges |-> more, status |-> "committed", graph |-> graph, diagnostics |-> F]
    BY <2>4, <2>5
  <2>7. request'.corpus = c /\ request'.status = "committed" /\ request'.edges = more /\ request'.diagnostics = F
        /\ request'.graph = graph
    BY <2>6
  <2>8. c \in Corpora
    BY <1>2 DEF IsCorpus
  <2> QED
    BY <2>6, <2>7, <2>8 DEF CorpusRequest
<1>20. progress' = NodesAt(3, k, fact + 1, nodes \cup {node})
  <2>1. PICK all : all = nodes \cup {node}
    OBVIOUS
  <2>2. progress' = [progress EXCEPT !.fact = fact + 1, !.nodes = all]
    BY <1>3, <1>12, <2>1
  <2>3. progress' = NodesAt(3, k, fact + 1, all)
    BY <1>2, <1>4, <2>2 DEF NodesAt
  <2> QED
    BY <2>1, <2>3
<1> DEFINE past == Past(c, 3, k, fact)
<1>21. Written(c, D, E, nodes, 3, past)
  BY <1>1, <1>4 DEF WritingAt
<1>22. Past(c, 3, k, fact + 1) = past \cup {id}
  BY <1>2, <1>5, <1>6, <1>8, PastNext
<1>23. past \in SUBSET Facts(c, "evidence")
  BY DEF Past
<1> HIDE DEF past
<1>24. AreNodes(c, {node}) /\ KeySet({node}) = {id}
  <2>1. EvidenceStatus(E, id, e) = EvidenceStatus(AllLinks(c), id, e)
    BY <1>2, <1>10, <1>21, <1>23, StatusKept DEF Written
  <2>2. node = NodeOf(c, id)
    BY <1>10, <2>1 DEF node, NodeOf
  <2> QED
    BY <2>2, NodeKey DEF AreNodes, KeySet
<1>25. Written(c, F, more, nodes \cup {node}, 3, past \cup {id})
  <2>1. AreNodes(c, nodes \cup {node}) /\ KeySet(nodes \cup {node}) = KeySet(nodes) \cup {id}
    BY <1>21, <1>24, NodesGrow DEF Written
  <2>2. more = AllLinks(c) \cup UNION {OwnLinks(c, i) : i \in past \cup {id}}
    <3>1. E = AllLinks(c) \cup UNION {OwnLinks(c, i) : i \in past}
      BY <1>21 DEF Written
    <3> HIDE DEF E
    <3> QED
      BY <1>13, <1>18, <3>1
  <2>3. \A i \in past \cup {id} : OwnNoted(c, F, i)
    <3>1. \A i \in past : OwnNoted(c, D, i)
      BY <1>21 DEF Written
    <3> QED
      BY <1>17, <3>1, NotedStays
  <2>4. KeySet(nodes) = FirstKeys(c) \cup Facts(c, "symbols") \cup Facts(c, "routines") \cup past
    BY <1>21 DEF Written
  <2> QED
    BY <2>1, <2>2, <2>3, <2>4 DEF Written
<1>26. LinkedCorpus(c)'
  <2>1. AllNoted(c, F)
    BY <1>14, <1>17, StillNoted DEF AllNoted
  <2> QED
    BY <1>2, <1>17, <1>19, <2>1 DEF LinkedCorpus
<1>27. PlaceToWrite(c, 3, k, fact + 1)
  <2>1. DOMAIN c[k].facts["evidence"] = 1 .. Len(c[k].facts["evidence"]) /\ Len(c[k].facts["evidence"]) \in Nat
    BY <1>2, <1>5, TablesAre DEF Linking
  <2> QED
    BY <1>5, <2>1 DEF PlaceToWrite
<1>28. Written(c, request'.diagnostics, request'.edges, nodes \cup {node}, 3, Past(c, 3, k, fact + 1))
  BY <1>19, <1>22, <1>25
<1> QED
  BY <1>19, <1>20, <1>26, <1>27, <1>28, WritesAt
-----------------------------------------------------------------------------
(* What is put together: the nodes of the export beside those written, and
   the links beside what hangs on files.                                     *)
ExportedKeys(c) == UNION {ExportKeys(c, s) : s \in ToSet(c)}
Exported(c) == {CorpusNode("export", k, None, None) : k \in ExportedKeys(c)}
AllKeys(c, diagnostics) ==
  FirstKeys(c) \cup Facts(c, "symbols") \cup Facts(c, "routines") \cup Facts(c, "evidence")
  \cup DiagnosticKeys(diagnostics) \cup ExportedKeys(c)
RelsOf(c, diagnostics, edges) ==
  FactLinks(c) \cup DiagnosticLinks(diagnostics) \cup SnapshotLinks(c)
  \cup {e \in edges : e.kind = "evidence" => e.source[2] # "files"}
WithEvidence(c, edges) == edges = AllLinks(c) \cup UNION {OwnLinks(c, i) : i \in Facts(c, "evidence")}

LEMMA ExportKeyIs ==
  ASSUME NEW c, IsCorpus(c), NEW s \in ToSet(c), NEW k \in ExportKeys(c, s)
  PROVE  \/ k = RepoKey(s.alias) /\ k[2] = "repository"
         \/ /\ k[1] = s.alias /\ k[2] = "files" /\ k[3] \in DOMAIN s.facts.files /\ k = PathKey(s.alias, k[3])
            /\ s.facts.files[k[3]] \in Ordinary
         \/ k \in Facts(c, "objects") /\ k[2] = "objects"
         \/ k \in Facts(c, "owners") /\ k[2] = "owners"
<1>1. CASE k = RepoKey(s.alias)
  BY <1>1 DEF RepoKey
<1>2. CASE k \in {PathKey(s.alias, p) : p \in {q \in DOMAIN s.facts.files : s.facts.files[q] \in Ordinary}}
  <2>1. PICK p \in DOMAIN s.facts.files : s.facts.files[p] \in Ordinary /\ k = PathKey(s.alias, p)
    BY <1>2
  <2>2. k[1] = s.alias /\ k[2] = "files" /\ k[3] = p
    BY <2>1 DEF PathKey
  <2> QED
    BY <2>1, <2>2
<1>3. CASE k \in TableFacts(c, {s.alias}, "objects") \cup TableFacts(c, {s.alias}, "owners")
  <2>1. TableFacts(c, {s.alias}, "objects") \subseteq Facts(c, "objects")
        /\ TableFacts(c, {s.alias}, "owners") \subseteq Facts(c, "owners")
    BY KnownByAlias, FactsWithin
  <2>2. \A i \in TableFacts(c, {s.alias}, "objects") : i[2] = "objects"
    BY DEF TableFacts
  <2>3. \A i \in TableFacts(c, {s.alias}, "owners") : i[2] = "owners"
    BY DEF TableFacts
  <2> QED
    BY <1>3, <2>1, <2>2, <2>3
<1> QED
  BY <1>1, <1>2, <1>3 DEF ExportKeys

LEMMA ExportedNodes ==
  ASSUME NEW c, IsCorpus(c)
  PROVE  AreNodes(c, Exported(c)) /\ KeySet(Exported(c)) = ExportedKeys(c)
<1>1. ASSUME NEW k \in ExportedKeys(c) PROVE CorpusNode("export", k, None, None) = NodeOf(c, k)
  <2>1. PICK s \in ToSet(c) : k \in ExportKeys(c, s)
    BY DEF ExportedKeys
  <2>2. \/ k[2] \in {"repository", "objects", "owners"}
        \/ k[1] = s.alias /\ k[2] = "files" /\ s.facts.files[k[3]] \in Ordinary
    BY <2>1, ExportKeyIs
  <2>3. ByAlias(c, s.alias) = s
    BY <2>1, KnownByAlias
  <2> QED
    BY <2>2, <2>3 DEF NodeOf
<1>2. PICK K : K = ExportedKeys(c)
  OBVIOUS
<1>3. Exported(c) = {NodeOf(c, k) : k \in K}
  BY <1>1, <1>2 DEF Exported
<1>4. AreNodes(c, Exported(c)) /\ KeySet(Exported(c)) = K
  BY <1>3, NodesMade
<1> QED
  BY <1>2, <1>4

(* Every key is one node's.                                                  *)
LEMMA OneNodeEach ==
  ASSUME NEW c, NEW nodes, AreNodes(c, nodes), IsFiniteSet(KeySet(nodes))
  PROVE  Cardinality(KeySet(nodes)) = Cardinality(nodes)
<1> DEFINE K == KeySet(nodes)
           f == [k \in K |-> NodeOf(c, k)]
<1>1. \A k \in K : f[k] \in nodes /\ f[k].key = k
  <2>1. \A k \in K : NodeOf(c, k) \in nodes
    BY DEF AreNodes, KeySet
  <2> QED
    BY <2>1, NodeKey
<1>2. \A n \in nodes : n.key \in K /\ f[n.key] = n
  BY DEF AreNodes, KeySet
<1>3. DOMAIN f = K
  OBVIOUS
<1>4. f \in [K -> nodes]
  BY <1>1
<1> HIDE DEF f, K
<1>5. f \in Surjection(K, nodes) /\ f \in Injection(K, nodes)
  BY <1>1, <1>2, <1>3, <1>4 DEF Injection, Surjection, IsInjective
<1>6. IsFiniteSet(K)
  BY DEF K
<1>7. Cardinality(nodes) = Cardinality(K)
  BY <1>5, <1>6, FS_Surjection
<1> QED
  BY <1>7 DEF K

LEMMA FiniteUnion ==
  ASSUME NEW S, IsFiniteSet(S), NEW g, \A x \in S : IsFiniteSet(g[x])
  PROVE  IsFiniteSet(UNION {g[x] : x \in S})
<1>1. IsFiniteSet({g[x] : x \in S})
  BY FiniteImage
<1>2. \A T \in {g[x] : x \in S} : IsFiniteSet(T)
  OBVIOUS
<1> QED
  BY <1>1, <1>2, FS_UNION

LEMMA SnapshotsFinite ==
  ASSUME NEW c, IsCorpus(c)
  PROVE  IsFiniteSet(ToSet(c)) /\ IsFiniteSet(SnapshotAliases(c))
<1>1. c \in Seq(ToSet(c))
  BY CorporaAssumption DEF IsCorpus
<1> QED
  BY <1>1, FiniteRows, KnownByAlias

LEMMA FilesFinite ==
  ASSUME NEW c, IsCorpus(c), NEW s \in ToSet(c), NEW paths \in SUBSET DOMAIN s.facts.files
  PROVE  IsFiniteSet({PathKey(s.alias, p) : p \in paths})
<1> DEFINE f == [p \in paths |-> PathKey(s.alias, p)]
<1>1. IsFiniteSet(paths)
  BY FilesAre, FS_Subset DEF FactsOfFiles
<1>2. {f[p] : p \in paths} = {PathKey(s.alias, p) : p \in paths}
  OBVIOUS
<1> HIDE DEF f
<1>3. IsFiniteSet({f[p] : p \in paths})
  BY <1>1, FiniteImage
<1> QED
  BY <1>2, <1>3

LEMMA ExportFinite ==
  ASSUME NEW c, IsCorpus(c), NEW s \in ToSet(c)
  PROVE  IsFiniteSet(ExportKeys(c, s))
<1> DEFINE ordinary == {q \in DOMAIN s.facts.files : s.facts.files[q] \in Ordinary}
           owners == [n \in DOMAIN s.facts.owners |-> <<s.alias, "owners", n>>]
<1>1. IsFiniteSet({RepoKey(s.alias)})
  BY FS_Singleton
<1>2. IsFiniteSet({PathKey(s.alias, p) : p \in ordinary})
  BY FilesFinite
<1>3. IsFiniteSet(TableFacts(c, {s.alias}, "objects"))
  BY KnownByAlias, FactsOfTable DEF Tables
<1>4. IsFiniteSet(TableFacts(c, {s.alias}, "owners"))
  <2>1. s.facts.owners \in Seq(ToSet(s.facts.owners))
    BY FilesAre DEF FactsOfFiles
  <2>2. DOMAIN s.facts.owners = 1 .. Len(s.facts.owners) /\ Len(s.facts.owners) \in Nat
    BY <2>1
  <2>3. IsFiniteSet(DOMAIN s.facts.owners)
    <3>1. \A k \in Nat : IsFiniteSet(1 .. k)
      BY FS_Interval
    <3> QED
      BY <2>2, <3>1
  <2>4. ByAlias(c, s.alias) = s
    BY KnownByAlias
  <2>5. TableFacts(c, {s.alias}, "owners") = {<<s.alias, "owners", n>> : n \in DOMAIN s.facts.owners}
    BY <2>4 DEF TableFacts
  <2>6. {owners[n] : n \in DOMAIN s.facts.owners} = {<<s.alias, "owners", n>> : n \in DOMAIN s.facts.owners}
    OBVIOUS
  <2> HIDE DEF owners
  <2>7. IsFiniteSet({owners[n] : n \in DOMAIN s.facts.owners})
    BY <2>3, FiniteImage
  <2> QED
    BY <2>5, <2>6, <2>7
<1>5. ExportKeys(c, s) = {RepoKey(s.alias)} \cup {PathKey(s.alias, p) : p \in ordinary}
                         \cup TableFacts(c, {s.alias}, "objects") \cup TableFacts(c, {s.alias}, "owners")
  BY DEF ExportKeys
<1> QED
  BY <1>1, <1>2, <1>3, <1>4, <1>5, FS_Union

LEMMA KeysFinite ==
  ASSUME NEW c, IsCorpus(c), NEW D, DiagnosticsAre(c, D)
  PROVE  IsFiniteSet(AllKeys(c, D))
<1>1. IsFiniteSet(ExportedKeys(c))
  <2> DEFINE g == [s \in ToSet(c) |-> ExportKeys(c, s)]
  <2>1. \A s \in ToSet(c) : IsFiniteSet(g[s])
    BY ExportFinite
  <2>2. UNION {g[s] : s \in ToSet(c)} = ExportedKeys(c)
    BY DEF ExportedKeys
  <2> HIDE DEF g
  <2>3. IsFiniteSet(UNION {g[s] : s \in ToSet(c)})
    BY <2>1, SnapshotsFinite, FiniteUnion
  <2> QED
    BY <2>2, <2>3
<1>2. IsFiniteSet(UNION {NativeFiles(s) : s \in ToSet(c)})
  <2> DEFINE g == [s \in ToSet(c) |-> NativeFiles(s)]
  <2>1. \A s \in ToSet(c) : IsFiniteSet(g[s])
    <3> SUFFICES ASSUME NEW s \in ToSet(c) PROVE IsFiniteSet(NativeFiles(s))
      OBVIOUS
    <3>1. {q \in DOMAIN s.facts.files : s.facts.files[q] \notin Ordinary} \in SUBSET DOMAIN s.facts.files
      OBVIOUS
    <3> QED
      BY <3>1, FilesFinite DEF NativeFiles
  <2>2. UNION {g[s] : s \in ToSet(c)} = UNION {NativeFiles(s) : s \in ToSet(c)}
    OBVIOUS
  <2> HIDE DEF g
  <2>3. IsFiniteSet(UNION {g[s] : s \in ToSet(c)})
    BY <2>1, SnapshotsFinite, FiniteUnion
  <2> QED
    BY <2>2, <2>3
<1>3. IsFiniteSet({SnapshotKey(a) : a \in SnapshotAliases(c)})
  <2> DEFINE f == [a \in SnapshotAliases(c) |-> SnapshotKey(a)]
  <2>1. {f[a] : a \in SnapshotAliases(c)} = {SnapshotKey(a) : a \in SnapshotAliases(c)}
    OBVIOUS
  <2> HIDE DEF f
  <2>2. IsFiniteSet({f[a] : a \in SnapshotAliases(c)})
    BY SnapshotsFinite, FiniteImage
  <2> QED
    BY <2>1, <2>2
<1>4. IsFiniteSet(DiagnosticKeys(D))
  <2> DEFINE f == [d \in D |-> DiagnosticKey(d)]
  <2>1. {f[d] : d \in D} = DiagnosticKeys(D)
    BY DEF DiagnosticKeys
  <2>2. IsFiniteSet(D)
    BY DEF DiagnosticsAre
  <2> HIDE DEF f
  <2>3. IsFiniteSet({f[d] : d \in D})
    BY <2>2, FiniteImage
  <2> QED
    BY <2>1, <2>3
<1>5. \A table \in {"symbols", "routines", "evidence"} : IsFiniteSet(Facts(c, table))
  BY FactsOfTable DEF Facts, Tables
<1>6. IsFiniteSet(FirstKeys(c))
  BY <1>2, <1>3, FS_Union DEF FirstKeys
<1>7. IsFiniteSet(FirstKeys(c) \cup Facts(c, "symbols") \cup Facts(c, "routines") \cup Facts(c, "evidence"))
  BY <1>5, <1>6, FS_Union
<1> QED
  BY <1>1, <1>4, <1>7, FS_Union DEF AllKeys
-----------------------------------------------------------------------------
(* Where the relationships lead.                                             *)
HangsOn(c, r) ==
  \E table \in {"symbols", "routines", "evidence"} :
    /\ r.target \in Facts(c, table) /\ r.source = PathKey(r.target[1], Fact(c, r.target).path) /\ r.kind = "of file"
DiagnosticHangs(diagnostics, r) ==
  \E d \in diagnostics : r.target = DiagnosticKey(d) /\ r.source = PathKey(d.alias, d.path) /\ r.kind = "of file"
OfSnapshots(c, r) ==
  /\ \E a \in SnapshotAliases(c) : r.source = SnapshotKey(a)
  /\ \E a \in SnapshotAliases(c) : r.target \in {RepoKey(a), SnapshotKey(a)}
  /\ r.kind \in {"of repository", "depends"}
Owned(c, r) ==
  \E i \in Facts(c, "evidence") :
    /\ r.target = i /\ r.source \in OwnersOf(c, i) /\ Cardinality(OwnersOf(c, i)) = 1 /\ r.kind = "evidence"

LEMMA RelIs ==
  ASSUME NEW c, IsCorpus(c), NEW D, NEW E, WithEvidence(c, E), NEW r \in RelsOf(c, D, E)
  PROVE  HangsOn(c, r) \/ DiagnosticHangs(D, r) \/ OfSnapshots(c, r) \/ r \in AllLinks(c) \/ Owned(c, r)
<1>1. CASE r \in FactLinks(c)
  <2>1. PICK table \in {"symbols", "routines", "evidence"} :
          r \in {Link(PathKey(i[1], Fact(c, i).path), i, "of file", Certainty(Fact(c, i)), None) : i \in Facts(c, table)}
    BY <1>1 DEF FactLinks, Facts
  <2>2. PICK i \in Facts(c, table) : r = Link(PathKey(i[1], Fact(c, i).path), i, "of file", Certainty(Fact(c, i)), None)
    BY <2>1
  <2>3. r.target = i /\ r.source = PathKey(i[1], Fact(c, i).path) /\ r.kind = "of file"
    BY <2>2 DEF Link
  <2> QED
    BY <2>3 DEF HangsOn
<1>2. CASE r \in DiagnosticLinks(D)
  <2>1. PICK d \in D : r = Link(PathKey(d.alias, d.path), DiagnosticKey(d), "of file", "exact", None)
    BY <1>2 DEF DiagnosticLinks
  <2>2. r.target = DiagnosticKey(d) /\ r.source = PathKey(d.alias, d.path) /\ r.kind = "of file"
    BY <2>1 DEF Link
  <2> QED
    BY <2>2 DEF DiagnosticHangs
<1>3. CASE r \in SnapshotLinks(c)
  <2>1. CASE \E a \in SnapshotAliases(c) : r = Link(SnapshotKey(a), RepoKey(a), "of repository", None, None)
    <3>1. PICK a \in SnapshotAliases(c) : r = Link(SnapshotKey(a), RepoKey(a), "of repository", None, None)
      BY <2>1
    <3>2. r.source = SnapshotKey(a) /\ r.target = RepoKey(a) /\ r.kind = "of repository"
      BY <3>1 DEF Link
    <3> QED
      BY <3>2 DEF OfSnapshots
  <2>2. CASE \E s \in ToSet(c) : \E d \in ToSet(s.deps) : r = Link(SnapshotKey(s.alias), SnapshotKey(d), "depends", None, None)
    <3>1. PICK s \in ToSet(c) : \E d \in ToSet(s.deps) : r = Link(SnapshotKey(s.alias), SnapshotKey(d), "depends", None, None)
      BY <2>2
    <3>2. PICK d \in ToSet(s.deps) : r = Link(SnapshotKey(s.alias), SnapshotKey(d), "depends", None, None)
      BY <3>1
    <3>3. r.source = SnapshotKey(s.alias) /\ r.target = SnapshotKey(d) /\ r.kind = "depends"
      BY <3>2 DEF Link
    <3>4. s.alias \in SnapshotAliases(c)
      BY KnownByAlias
    <3>5. d \in SnapshotAliases(c)
      BY DEF IsCorpus, Accepted
    <3> QED
      BY <3>3, <3>4, <3>5 DEF OfSnapshots
  <2> QED
    BY <1>3, <2>1, <2>2 DEF SnapshotLinks
<1>4. CASE r \in E /\ (r.kind = "evidence" => r.source[2] # "files")
  <2> SUFFICES ASSUME r \notin AllLinks(c) PROVE Owned(c, r)
    OBVIOUS
  <2>1. PICK i \in Facts(c, "evidence") : r \in OwnLinks(c, i)
    BY <1>4 DEF WithEvidence
  <2>2. r.target = i /\ r.kind = "evidence" /\ (r.source[2] # "files" => r.source \in OwnersOf(c, i) /\ Cardinality(OwnersOf(c, i)) = 1)
    BY <2>1, OwnLinksAre
  <2> QED
    BY <1>4, <2>2 DEF Owned
<1> QED
  BY <1>1, <1>2, <1>3, <1>4 DEF RelsOf

(* The ends of all of them are nodes.                                        *)
LEMMA PathsAreKeys ==
  ASSUME NEW c, IsCorpus(c), NEW D, NEW s \in ToSet(c), NEW p \in DOMAIN s.facts.files
  PROVE  PathKey(s.alias, p) \in AllKeys(c, D)
<1>1. CASE s.facts.files[p] \in Ordinary
  <2>1. PathKey(s.alias, p) \in ExportKeys(c, s)
    BY <1>1 DEF ExportKeys
  <2> QED
    BY <2>1 DEF AllKeys, ExportedKeys
<1>2. CASE s.facts.files[p] \notin Ordinary
  <2>1. PathKey(s.alias, p) \in NativeFiles(s)
    BY <1>2 DEF NativeFiles
  <2> QED
    BY <2>1 DEF AllKeys, FirstKeys
<1> QED
  BY <1>1, <1>2

LEMMA SnapshotsAreKeys ==
  ASSUME NEW c, IsCorpus(c), NEW D, NEW a \in SnapshotAliases(c)
  PROVE  SnapshotKey(a) \in AllKeys(c, D) /\ RepoKey(a) \in AllKeys(c, D)
<1>1. SnapshotKey(a) \in FirstKeys(c)
  BY DEF FirstKeys
<1>2. ByAlias(c, a) \in ToSet(c) /\ ByAlias(c, a).alias = a
  BY KnownByAlias
<1>3. RepoKey(a) \in ExportKeys(c, ByAlias(c, a))
  BY <1>2 DEF ExportKeys
<1> QED
  BY <1>1, <1>2, <1>3 DEF AllKeys, ExportedKeys

LEMMA TablesAreKeys ==
  ASSUME NEW c, IsCorpus(c), NEW D, NEW table \in {"symbols", "routines", "evidence", "objects", "owners"}
  PROVE  Facts(c, table) \subseteq AllKeys(c, D)
<1>1. CASE table \in {"symbols", "routines", "evidence"}
  BY <1>1 DEF AllKeys
<1>2. CASE table \in {"objects", "owners"}
  <2> SUFFICES ASSUME NEW i \in Facts(c, table) PROVE i \in ExportedKeys(c)
    BY DEF AllKeys
  <2>1. PICK s \in ToSet(c) : \E n \in DOMAIN s.facts[table] : i = <<s.alias, table, n>>
    BY FactThere
  <2>2. PICK n \in DOMAIN s.facts[table] : i = <<s.alias, table, n>>
    BY <2>1
  <2>3. i \in TableFacts(c, {s.alias}, table)
    BY <2>2, FactHere
  <2>4. i \in ExportKeys(c, s)
    BY <1>2, <2>3 DEF ExportKeys
  <2> QED
    BY <2>4 DEF ExportedKeys
<1> QED
  BY <1>1, <1>2

LEMMA EndsAreKeys ==
  ASSUME NEW c, IsCorpus(c), NEW D, DiagnosticsAre(c, D), NEW E, WithEvidence(c, E), NEW r \in RelsOf(c, D, E)
  PROVE  r.source \in AllKeys(c, D) /\ r.target \in AllKeys(c, D)
<1>1. CASE HangsOn(c, r)
  <2>1. PICK table \in {"symbols", "routines", "evidence"} :
          r.target \in Facts(c, table) /\ r.source = PathKey(r.target[1], Fact(c, r.target).path)
    BY <1>1 DEF HangsOn
  <2>2. r.target[1] \in SnapshotAliases(c) /\ Fact(c, r.target).path \in DOMAIN ByAlias(c, r.target[1]).facts.files
    BY <2>1, PlacedFacts DEF Placed
  <2>3. ByAlias(c, r.target[1]) \in ToSet(c) /\ ByAlias(c, r.target[1]).alias = r.target[1]
    BY <2>2, KnownByAlias
  <2>4. r.source \in AllKeys(c, D)
    BY <2>1, <2>2, <2>3, PathsAreKeys
  <2>5. r.target \in AllKeys(c, D)
    BY <2>1, TablesAreKeys
  <2> QED
    BY <2>4, <2>5
<1>2. CASE DiagnosticHangs(D, r)
  <2>1. PICK d \in D : r.target = DiagnosticKey(d) /\ r.source = PathKey(d.alias, d.path)
    BY <1>2 DEF DiagnosticHangs
  <2>2. PICK s \in ToSet(c) : d.alias = s.alias /\ d.path \in DOMAIN s.facts.files
    BY DEF DiagnosticsAre
  <2>3. r.source \in AllKeys(c, D)
    BY <2>1, <2>2, PathsAreKeys
  <2>4. r.target \in DiagnosticKeys(D)
    BY <2>1 DEF DiagnosticKeys
  <2> QED
    BY <2>3, <2>4 DEF AllKeys
<1>3. CASE OfSnapshots(c, r)
  BY <1>3, SnapshotsAreKeys DEF OfSnapshots
<1>4. CASE r \in AllLinks(c)
  <2>1. \E t \in {"symbols", "routines", "evidence"} : r.source \in Facts(c, t)
    BY <1>4, LinkEnds
  <2>2. \E t \in {"symbols", "routines", "objects"} : r.target \in Facts(c, t)
    BY <1>4, LinkEnds
  <2> QED
    BY <2>1, <2>2, TablesAreKeys
<1>5. CASE Owned(c, r)
  <2>1. PICK i \in Facts(c, "evidence") : r.target = i /\ r.source \in OwnersOf(c, i)
    BY <1>5 DEF Owned
  <2>2. \E t \in {"symbols", "routines", "owners"} : r.source \in Facts(c, t)
    BY <2>1, OwnersAre
  <2> QED
    BY <2>1, <2>2, TablesAreKeys
<1> QED
  BY <1>1, <1>2, <1>3, <1>4, <1>5, RelIs
-----------------------------------------------------------------------------
(* Of the graph of a linked corpus.                                          *)
WholeGraph(c, diagnostics, edges, graph) ==
  /\ IsCorpus(c) /\ DiagnosticsAre(c, diagnostics) /\ AllNoted(c, diagnostics) /\ WithEvidence(c, edges)
  /\ \A i \in Facts(c, "evidence") : OwnNoted(c, diagnostics, i)
  /\ AreNodes(c, graph.nodes) /\ KeySet(graph.nodes) = AllKeys(c, diagnostics)
  /\ graph.rels = RelsOf(c, diagnostics, edges)

Hung(c, diagnostics) ==
  DiagnosticKeys(diagnostics) \cup Facts(c, "symbols") \cup Facts(c, "routines") \cup Facts(c, "evidence")

LEMMA KeyKinds ==
  ASSUME NEW c, IsCorpus(c), NEW D, NEW k \in AllKeys(c, D)
  PROVE  k \in Hung(c, D) <=> k[2] \in {"symbols", "routines", "evidence", "diagnostics"}
<1>1. CASE k \in FirstKeys(c)
  <2>1. (\E a : k = SnapshotKey(a)) \/ (\E s, p : k = PathKey(s, p))
    BY <1>1 DEF FirstKeys, NativeFiles
  <2>2. k[2] \in {"snapshot", "files"}
    BY <2>1 DEF SnapshotKey, PathKey
  <2> QED
    BY <2>2, FactThere DEF Hung, DiagnosticKeys, DiagnosticKey
<1>2. CASE k \in ExportedKeys(c)
  <2>1. k[2] \in {"repository", "files", "objects", "owners"}
    BY <1>2, ExportKeyIs DEF ExportedKeys
  <2> QED
    BY <2>1, FactThere DEF Hung, DiagnosticKeys, DiagnosticKey
<1>3. ASSUME NEW table \in {"symbols", "routines", "evidence"}, k \in Facts(c, table) PROVE k[2] = table
  BY <1>3, FactThere
<1>4. ASSUME k \in DiagnosticKeys(D) PROVE k[2] = "diagnostics"
  BY <1>4 DEF DiagnosticKeys, DiagnosticKey
<1> QED
  BY <1>1, <1>2, <1>3, <1>4 DEF AllKeys, Hung

LEMMA HangingTargets ==
  ASSUME NEW c, IsCorpus(c), NEW D, NEW E, WithEvidence(c, E)
  PROVE  {r.target : r \in {l \in RelsOf(c, D, E) : l.kind = "of file"}} = Hung(c, D)
<1>1. ASSUME NEW r \in RelsOf(c, D, E), r.kind = "of file" PROVE r.target \in Hung(c, D)
  <2>1. r.kind \notin LinkKinds /\ r.kind # "evidence" /\ r.kind \notin {"of repository", "depends"}
    BY <1>1 DEF LinkKinds, AssertedKinds
  <2>2. r \notin AllLinks(c)
    BY <2>1, LinkEnds
  <2>3. HangsOn(c, r) \/ DiagnosticHangs(D, r)
    BY <2>1, <2>2, RelIs DEF OfSnapshots, Owned
  <2> QED
    BY <2>3 DEF HangsOn, DiagnosticHangs, Hung, DiagnosticKeys
<1>2. ASSUME NEW k \in Hung(c, D) PROVE \E r \in RelsOf(c, D, E) : r.kind = "of file" /\ r.target = k
  <2>1. CASE k \in DiagnosticKeys(D)
    <3>1. PICK d \in D : k = DiagnosticKey(d)
      BY <2>1 DEF DiagnosticKeys
    <3>2. PICK r : r = Link(PathKey(d.alias, d.path), DiagnosticKey(d), "of file", "exact", None)
      OBVIOUS
    <3>3. r \in DiagnosticLinks(D)
      BY <3>2 DEF DiagnosticLinks
    <3>4. r.kind = "of file" /\ r.target = k
      BY <3>1, <3>2 DEF Link
    <3> QED
      BY <3>3, <3>4 DEF RelsOf
  <2>2. CASE \E table \in {"symbols", "routines", "evidence"} : k \in Facts(c, table)
    <3>1. PICK table \in {"symbols", "routines", "evidence"} : k \in Facts(c, table)
      BY <2>2
    <3>2. PICK r : r = Link(PathKey(k[1], Fact(c, k).path), k, "of file", Certainty(Fact(c, k)), None)
      OBVIOUS
    <3>3. r \in {Link(PathKey(i[1], Fact(c, i).path), i, "of file", Certainty(Fact(c, i)), None) : i \in Facts(c, table)}
      BY <3>1, <3>2
    <3>4. r \in FactLinks(c)
      BY <3>1, <3>3 DEF FactLinks, Facts
    <3>5. r.kind = "of file" /\ r.target = k
      BY <3>2 DEF Link
    <3> QED
      BY <3>4, <3>5 DEF RelsOf
  <2> QED
    BY <2>1, <2>2 DEF Hung
<1> QED
  BY <1>1, <1>2

LEMMA AllHang ==
  ASSUME NEW c, NEW E, NEW graph, WholeGraph(c, request.diagnostics, E, graph)
  PROVE  FactsHang(c, graph)
<1>0. PICK D : D = request.diagnostics
  OBVIOUS
<1>1. IsCorpus(c) /\ WithEvidence(c, E) /\ KeySet(graph.nodes) = AllKeys(c, D) /\ graph.rels = RelsOf(c, D, E)
  BY <1>0 DEF WholeGraph
<1> DEFINE facts == UNION {TableFacts(c, SnapshotAliases(c), t) : t \in {"symbols", "routines", "evidence"}}
           hung == {DiagnosticKey(d) : d \in request.diagnostics} \cup facts
           keys == {n.key : n \in graph.nodes}
<1>2. keys = AllKeys(c, D)
  BY <1>1 DEF KeySet
<1>3. hung = Hung(c, D)
  <2>1. facts = Facts(c, "symbols") \cup Facts(c, "routines") \cup Facts(c, "evidence")
    BY DEF Facts
  <2> HIDE DEF facts
  <2> QED
    BY <1>0, <2>1 DEF Hung, DiagnosticKeys
<1>4. Hung(c, D) \subseteq AllKeys(c, D)
  BY DEF Hung, AllKeys
<1>5. Hung(c, D) = {k \in AllKeys(c, D) : k[2] \in {"symbols", "routines", "evidence", "diagnostics"}}
  BY <1>1, <1>4, KeyKinds
<1>6. {r.target : r \in {l \in graph.rels : l.kind = "of file"}} = Hung(c, D)
  BY <1>1, HangingTargets
<1>7. \A s \in ToSet(c) : \A p \in DOMAIN s.facts.files : PathKey(s.alias, p) \in AllKeys(c, D)
  BY <1>1, PathsAreKeys
<1> HIDE DEF keys, hung
<1>8. /\ hung = {k \in keys : k[2] \in {"symbols", "routines", "evidence", "diagnostics"}}
      /\ {r.target : r \in {l \in graph.rels : l.kind = "of file"}} = hung
      /\ \A s \in ToSet(c) : \A p \in DOMAIN s.facts.files : PathKey(s.alias, p) \in keys
  BY <1>2, <1>3, <1>5, <1>6, <1>7
<1> QED
  BY <1>8 DEF FactsHang, keys, hung

(* The links of evidence, and those to it from who has it.                   *)
LEMMA EvidenceSources ==
  ASSUME NEW c, IsCorpus(c), NEW D, NEW E, WithEvidence(c, E), NEW i \in Facts(c, "evidence")
  PROVE  /\ {r.source : r \in {l \in RelsOf(c, D, E) : l.kind = "evidence" /\ l.target = i}} =
              IF Cardinality(OwnersOf(c, i)) = 1 THEN OwnersOf(c, i) ELSE {}
         /\ {l \in RelsOf(c, D, E) : l.source = i} = FromSource(AllLinks(c), i)
<1>1. ASSUME NEW r \in RelsOf(c, D, E), r.kind = "evidence", r.target = i
      PROVE  r.source \in OwnersOf(c, i) /\ Cardinality(OwnersOf(c, i)) = 1
  <2>1. r.kind \notin LinkKinds
    BY <1>1 DEF LinkKinds, AssertedKinds
  <2>2. r \notin AllLinks(c)
    BY <2>1, LinkEnds
  <2>3. Owned(c, r)
    BY <1>1, <2>2, RelIs DEF OfSnapshots, HangsOn, DiagnosticHangs
  <2> QED
    BY <1>1, <2>3 DEF Owned
<1>2. ASSUME NEW o \in OwnersOf(c, i), Cardinality(OwnersOf(c, i)) = 1
      PROVE  \E r \in RelsOf(c, D, E) : r.kind = "evidence" /\ r.target = i /\ r.source = o
  <2>1. PICK r : r = Link(o, i, "evidence", Certainty(Fact(c, i)), None)
    OBVIOUS
  <2>2. r.kind = "evidence" /\ r.target = i /\ r.source = o
    BY <2>1 DEF Link
  <2>3. r \in OwnLinks(c, i)
    BY <1>2, <2>1 DEF OwnLinks, OwnSources
  <2>4. r \in E
    BY <2>3 DEF WithEvidence
  <2>5. o[2] # "files"
    BY OwnersAre
  <2>6. r \in RelsOf(c, D, E)
    BY <2>2, <2>4, <2>5 DEF RelsOf
  <2> QED
    BY <2>2, <2>6
<1>3. i[2] = "evidence"
  BY FactThere
<1>4. ASSUME NEW r \in RelsOf(c, D, E), r.source = i PROVE r \in AllLinks(c)
  <2>4. /\ \A a, p : PathKey(a, p)[2] = "files"
        /\ \A a : SnapshotKey(a)[2] = "snapshot"
    BY DEF PathKey, SnapshotKey
  <2>5. r.source[2] = "evidence"
    BY <1>3, <1>4
  <2>6. ~HangsOn(c, r)
    <3> SUFFICES ASSUME HangsOn(c, r) PROVE FALSE
      OBVIOUS
    <3>1. PICK a, p : r.source = PathKey(a, p)
      BY DEF HangsOn
    <3> QED
      BY <3>1, <2>4, <2>5
  <2>7. ~DiagnosticHangs(D, r)
    <3> SUFFICES ASSUME DiagnosticHangs(D, r) PROVE FALSE
      OBVIOUS
    <3>1. PICK a, p : r.source = PathKey(a, p)
      BY DEF DiagnosticHangs
    <3> QED
      BY <3>1, <2>4, <2>5
  <2>1. ~HangsOn(c, r) /\ ~DiagnosticHangs(D, r)
    BY <2>6, <2>7
  <2>2. ~OfSnapshots(c, r)
    <3> SUFFICES ASSUME OfSnapshots(c, r) PROVE FALSE
      OBVIOUS
    <3>1. PICK a : r.source = SnapshotKey(a)
      BY DEF OfSnapshots
    <3> QED
      BY <3>1, <2>4, <2>5
  <2>3. ~Owned(c, r)
    <3> SUFFICES ASSUME NEW j \in Facts(c, "evidence"), r.source \in OwnersOf(c, j) PROVE FALSE
      BY DEF Owned
    <3>1. r.source[2] \in {"symbols", "routines", "owners"}
      BY OwnersAre
    <3> QED
      BY <1>3, <1>4, <3>1
  <2> QED
    BY <2>1, <2>2, <2>3, RelIs
<1>5. ASSUME NEW r \in AllLinks(c) PROVE r \in RelsOf(c, D, E)
  <2>1. r.kind # "evidence"
    BY LinkEnds DEF LinkKinds, AssertedKinds
  <2>2. r \in E
    BY DEF WithEvidence
  <2> QED
    BY <2>1, <2>2 DEF RelsOf
<1>6. {l \in RelsOf(c, D, E) : l.source = i} = FromSource(AllLinks(c), i)
  BY <1>4, <1>5 DEF FromSource
<1>7. {r.source : r \in {l \in RelsOf(c, D, E) : l.kind = "evidence" /\ l.target = i}} =
        IF Cardinality(OwnersOf(c, i)) = 1 THEN OwnersOf(c, i) ELSE {}
  <2>1. PICK R : R = RelsOf(c, D, E)
    OBVIOUS
  <2>2. PICK O : O = OwnersOf(c, i)
    OBVIOUS
  <2>3. \A r \in R : r.kind = "evidence" /\ r.target = i => r.source \in O /\ Cardinality(O) = 1
    BY <1>1, <2>1, <2>2
  <2>4. Cardinality(O) = 1 => \A o \in O : \E r \in R : r.kind = "evidence" /\ r.target = i /\ r.source = o
    BY <1>2, <2>1, <2>2
  <2>5. {r.source : r \in {l \in R : l.kind = "evidence" /\ l.target = i}} = IF Cardinality(O) = 1 THEN O ELSE {}
    BY <2>3, <2>4
  <2> QED
    BY <2>1, <2>2, <2>5
<1> QED
  BY <1>6, <1>7

(* Evidence without an owner is noted, that of calls when they were linked.  *)
LEMMA OwnerOrNote ==
  ASSUME NEW c, IsCorpus(c), NEW D, AllNoted(c, D), NEW i \in Facts(c, "evidence"), OwnNoted(c, D, i),
         Fact(c, i).owner # None, Fact(c, i).name # "PG_FUNCTION_INFO_V1", Cardinality(OwnersOf(c, i)) # 1
  PROVE  \E d \in D : /\ d.alias = i[1] /\ d.path = Fact(c, i).path
                      /\ d.category \in {"evidence_owner_unresolved", "native_call_owner_unresolved"}
<1>1. PICK s \in ToSet(c) : \E n \in DOMAIN s.facts["evidence"] :
        i = <<s.alias, "evidence", n>> /\ Fact(c, i) = s.facts["evidence"][n] /\ i[1] = s.alias /\ ByAlias(c, s.alias) = s
  BY FactThere
<1>2. PICK n \in DOMAIN s.facts.evidence : i = <<s.alias, "evidence", n>> /\ Fact(c, i) = s.facts.evidence[n]
  BY <1>1
<1>3. PICK e : e = s.facts.evidence[n]
  OBVIOUS
<1>4. Fact(c, i) = e /\ i[1] = s.alias /\ ByAlias(c, s.alias) = s
  BY <1>1, <1>2, <1>3
<1>5. CASE e.origin = "native_call"
  <2>1. PICK m \in DOMAIN s.facts.calls : CallOf(s.facts, n, s.facts.calls[m])
    BY <1>2, <1>3, <1>5, EvidenceHas
  <2>2. PICK call : call = s.facts.calls[m]
    OBVIOUS
  <2>3. /\ e.name = IF call.callee = None THEN "<dynamic>" ELSE call.callee
        /\ e.path = call.path /\ e.owner = call.owner /\ e.ownerline = call.ownerline
    BY <1>3, <2>1, <2>2 DEF CallOf
  <2>4. CallNoted(c, D, s, call)
    BY <2>2 DEF AllNoted
  <2>5. call.callee # "PG_FUNCTION_INFO_V1"
    BY <1>4, <2>3, FilesAssumption
  <2>6. CallOwners(c, s, call) = CallOwners(c, s, e)
    BY <2>3 DEF CallOwners
  <2>7. OwnersOf(c, i) = CallOwners(c, s, e)
    BY <1>4, <1>5 DEF OwnersOf, EvidenceOwners
  <2>8. Noted(D, s, call.path, "native_call_owner_unresolved")
    BY <2>4, <2>5, <2>6, <2>7 DEF CallNoted, Unowned
  <2> QED
    BY <1>4, <2>3, <2>8 DEF Noted
<1>6. CASE e.origin # "native_call"
  <2>1. Noted(D, s, e.path, "evidence_owner_unresolved")
    BY <1>4, <1>6 DEF OwnNoted
  <2> QED
    BY <1>4, <2>1 DEF Noted
<1> QED
  BY <1>5, <1>6

LEMMA AllOwned ==
  ASSUME NEW c, NEW E, NEW graph, WholeGraph(c, request.diagnostics, E, graph)
  PROVE  EvidenceOwned(c, graph)
<1>0. PICK D : D = request.diagnostics
  OBVIOUS
<1>1. /\ IsCorpus(c) /\ WithEvidence(c, E) /\ graph.rels = RelsOf(c, D, E) /\ AreNodes(c, graph.nodes)
      /\ AllNoted(c, D) /\ \A i \in Facts(c, "evidence") : OwnNoted(c, D, i)
  BY <1>0 DEF WholeGraph
<1> SUFFICES ASSUME NEW i \in Facts(c, "evidence")
             PROVE  LET e == Fact(c, i)
                        owners == {r.source : r \in {l \in graph.rels : l.kind = "evidence" /\ l.target = i}}
                        links == {l \in graph.rels : l.source = i}
                        unowned == \E d \in request.diagnostics :
                                     /\ d.alias = i[1] /\ d.path = e.path
                                     /\ d.category \in {"evidence_owner_unresolved", "native_call_owner_unresolved"}
                    IN  /\ Cardinality(owners) <= 1
                        /\ \A o \in owners : o[1] = i[1] /\ Fact(c, o).path = e.path /\ Fact(c, o).line = e.ownerline
                        /\ e.owner # None /\ e.name # "PG_FUNCTION_INFO_V1" => owners # {} \/ unowned
                        /\ \A n \in graph.nodes :
                             n.key = i => (n.status = "exact" <=> (\E l \in Asserted(links) : links = {l} /\ l.status = "exact"))
  BY DEF EvidenceOwned, Facts
<1> DEFINE e == Fact(c, i)
           owners == {r.source : r \in {l \in graph.rels : l.kind = "evidence" /\ l.target = i}}
           links == {l \in graph.rels : l.source = i}
           unowned == \E d \in request.diagnostics :
                        /\ d.alias = i[1] /\ d.path = e.path
                        /\ d.category \in {"evidence_owner_unresolved", "native_call_owner_unresolved"}
<1>2. owners = (IF Cardinality(OwnersOf(c, i)) = 1 THEN OwnersOf(c, i) ELSE {}) /\ links = FromSource(AllLinks(c), i)
  BY <1>1, EvidenceSources
<1>3. Cardinality({}) = 0 /\ (Cardinality(OwnersOf(c, i)) = 1 => OwnersOf(c, i) # {})
  BY FS_EmptySet
<1>4. Cardinality(OwnersOf(c, i)) # 1 /\ e.owner # None /\ e.name # "PG_FUNCTION_INFO_V1" => unowned
  BY <1>0, <1>1, OwnerOrNote
<1>5. \A o \in OwnersOf(c, i) : o[1] = i[1] /\ Fact(c, o).path = e.path /\ Fact(c, o).line = e.ownerline
  BY <1>1, OwnersAre
<1>6. ASSUME NEW n \in graph.nodes, n.key = i PROVE n.status = "exact" <=> ExactlyOne(links)
  <2>1. n = NodeOf(c, i) /\ i[2] = "evidence"
    BY <1>1, <1>6, FactThere DEF AreNodes
  <2>2. n.status = EvidenceStatus(AllLinks(c), i, Fact(c, i))
    BY <2>1 DEF NodeOf, CorpusNode
  <2> HIDE DEF links
  <2> QED
    BY <1>1, <1>2, <2>2, EvidenceStatusRight
<1> HIDE DEF owners, links, unowned, e
<1>7. Cardinality(owners) <= 1
  BY <1>2, <1>3
<1>8. \A o \in owners : o[1] = i[1] /\ Fact(c, o).path = e.path /\ Fact(c, o).line = e.ownerline
  BY <1>2, <1>5
<1>9. e.owner # None /\ e.name # "PG_FUNCTION_INFO_V1" => owners # {} \/ unowned
  BY <1>2, <1>3, <1>4
<1>10. \A n \in graph.nodes :
         n.key = i => (n.status = "exact" <=> (\E l \in Asserted(links) : links = {l} /\ l.status = "exact"))
  BY <1>6 DEF ExactlyOne
<1> QED
  BY <1>7, <1>8, <1>9, <1>10 DEF owners, links, unowned, e

(* Of equal facts one is distinct, and compared.                             *)
EqualsOf(c, ids, i) == {x \in Distinct(c, ids) : Equal(c, x, i)}

LEMMA OneDistinct ==
  ASSUME NEW c, NEW table, NEW ids, NamedFacts(table, ids), NEW i \in ids
  PROVE  \E d : EqualsOf(c, ids, i) = {d}
<1>1. PICK k \in Distinct(c, ids) : Equal(c, k, i)
  BY OneOfEquals
<1>2. ASSUME NEW x \in Distinct(c, ids), Equal(c, x, i) PROVE x = k
  <2>1. x \in ids /\ k \in ids
    BY DEF Distinct
  <2>2. x[1] = k[1] /\ Unplaced(Fact(c, x)) = Unplaced(Fact(c, k))
    BY <1>1, <1>2 DEF Equal
  <2>3. x[3] <= k[3] /\ k[3] <= x[3]
    BY <2>1, <2>2 DEF Distinct
  <2> QED
    BY <2>1, <2>2, <2>3 DEF NamedFacts
<1>3. EqualsOf(c, ids, i) = {k}
  BY <1>1, <1>2 DEF EqualsOf
<1> QED
  BY <1>3

LEMMA KeyOfTable ==
  ASSUME NEW c, IsCorpus(c), NEW D, NEW table \in {"symbols", "routines"}, NEW k \in AllKeys(c, D), k[2] = table
  PROVE  k \in Facts(c, table)
<1>1. k \in Hung(c, D)
  BY KeyKinds
<1>2. k \in DiagnosticKeys(D) => k[2] = "diagnostics"
  BY DEF DiagnosticKeys, DiagnosticKey
<1>3. \A t \in {"symbols", "routines", "evidence"} : k \in Facts(c, t) => k[2] = t
  BY FactThere
<1> QED
  BY <1>1, <1>2, <1>3 DEF Hung

(* The nodes that are compared, of a table of one snapshot.                  *)
ComparedAs(c, s, table, n) ==
  n.key \in TableFacts(c, {s.alias}, table) /\ n.primary = Primary(c, s, n.key, Fact(c, n.key))

LEMMA NodeCompared ==
  ASSUME NEW c, IsCorpus(c), NEW D, NEW nodes, AreNodes(c, nodes), KeySet(nodes) = AllKeys(c, D),
         NEW s \in ToSet(c), NEW table \in {"symbols", "routines"}
  PROVE  \A n \in nodes : n.key[1] = s.alias /\ n.key[2] = table => ComparedAs(c, s, table, n)
<1> SUFFICES ASSUME NEW n \in nodes, n.key[1] = s.alias, n.key[2] = table
             PROVE  /\ n.key \in TableFacts(c, {s.alias}, table)
                    /\ n.primary = Primary(c, s, n.key, Fact(c, n.key))
  BY DEF ComparedAs
<1>1. n.key \in AllKeys(c, D)
  BY DEF KeySet
<1>2. n.key \in Facts(c, table)
  BY <1>1, KeyOfTable
<1>3. PICK t \in ToSet(c) : \E m \in DOMAIN t.facts[table] : n.key = <<t.alias, table, m>> /\ n.key[1] = t.alias
  BY <1>2, FactThere
<1>4. PICK m \in DOMAIN t.facts[table] : n.key = <<t.alias, table, m>> /\ n.key[1] = t.alias
  BY <1>3
<1>5. ByAlias(c, t.alias) = t /\ ByAlias(c, s.alias) = s
  BY KnownByAlias
<1>6. t = s
  BY <1>4, <1>5
<1>7. n = NodeOf(c, n.key)
  BY DEF AreNodes
<1>8. n.primary = Primary(c, ByAlias(c, n.key[1]), n.key, Fact(c, n.key))
  BY <1>7 DEF NodeOf, CorpusNode
<1> QED
  BY <1>4, <1>5, <1>6, <1>8, FactHere

LEMMA SymbolsAre ==
  ASSUME NEW c, IsCorpus(c), NEW s \in ToSet(c), NEW i \in TableFacts(c, {s.alias}, "symbols")
  PROVE  /\ DOMAIN Fact(c, i) = SymbolFields /\ Fact(c, i).static \in BOOLEAN /\ Fact(c, i).declaration \in BOOLEAN
         /\ i[1] = s.alias /\ i[2] = "symbols"
<1>1. s.alias \in SnapshotAliases(c) /\ ByAlias(c, s.alias) = s
  BY KnownByAlias
<1>2. PICK m \in DOMAIN s.facts["symbols"] : i = <<s.alias, "symbols", m>>
  BY <1>1 DEF TableFacts
<1>3. i[1] = s.alias /\ i[2] = "symbols" /\ i[3] = m
  BY <1>2
<1>4. Fact(c, i) = s.facts["symbols"][m]
  BY <1>1, <1>3 DEF Fact
<1>5. Fact(c, i) \in ToSet(s.facts.symbols)
  BY <1>4 DEF ToSet
<1> QED
  BY <1>3, <1>5, FilesAre DEF IsSnapshot

(* The facts that are compared are those that are primary.                   *)
PrimaryOnes(c, s, table) == {k \in TableFacts(c, {s.alias}, table) : Primary(c, s, k, Fact(c, k))}
PrimaryDefinitions(c, s) == {k \in DefinedSymbols(c, s) : PrimaryDefinition(c, s, k, Fact(c, k))}
Declarations(c, s) == TableFacts(c, {s.alias}, "symbols") \ DefinedSymbols(c, s)
PrimaryDeclarations(c, s) == {k \in Declarations(c, s) : PrimaryDeclaration(c, s, k, Fact(c, k))}

LEMMA ComparedAre ==
  ASSUME NEW c, IsCorpus(c), NEW D, NEW graph, AreNodes(c, graph.nodes), KeySet(graph.nodes) = AllKeys(c, D),
         NEW s \in ToSet(c), NEW table \in {"symbols", "routines"}
  PROVE  Compared(graph, s.alias, table) = PrimaryOnes(c, s, table)
<1>0. PICK nodes : nodes = graph.nodes
  OBVIOUS
<1>1. \A n \in nodes : n.key[1] = s.alias /\ n.key[2] = table => ComparedAs(c, s, table, n)
  BY <1>0, NodeCompared
<1>2. \A k : k \in Compared(graph, s.alias, table) <=>
               \E n \in nodes : n.key = k /\ n.key[1] = s.alias /\ n.key[2] = table /\ n.primary
  BY <1>0 DEF Compared
<1>3. TableFacts(c, {s.alias}, table) \subseteq KeySet(nodes)
  <2>1. s.alias \in SnapshotAliases(c)
    BY KnownByAlias
  <2>2. TableFacts(c, {s.alias}, table) \subseteq Facts(c, table)
    BY <2>1, FactsWithin
  <2> QED
    BY <1>0, <2>2, TablesAreKeys
<1>4. \A k \in TableFacts(c, {s.alias}, table) : k[1] = s.alias /\ k[2] = table
  BY DEF TableFacts
<1> SUFFICES ASSUME NEW k
             PROVE  k \in Compared(graph, s.alias, table) <=>
                      k \in TableFacts(c, {s.alias}, table) /\ Primary(c, s, k, Fact(c, k))
  BY DEF PrimaryOnes
<1>5. ASSUME k \in Compared(graph, s.alias, table)
      PROVE  k \in TableFacts(c, {s.alias}, table) /\ Primary(c, s, k, Fact(c, k))
  <2>1. PICK n \in nodes : n.key = k /\ n.key[1] = s.alias /\ n.key[2] = table /\ n.primary
    BY <1>2, <1>5
  <2>2. k \in TableFacts(c, {s.alias}, table) /\ n.primary = Primary(c, s, k, Fact(c, k))
    BY <1>1, <2>1 DEF ComparedAs
  <2> QED
    BY <2>1, <2>2
<1>6. ASSUME k \in TableFacts(c, {s.alias}, table), Primary(c, s, k, Fact(c, k))
      PROVE  k \in Compared(graph, s.alias, table)
  <2>1. PICK n \in nodes : n.key = k
    BY <1>3, <1>6 DEF KeySet
  <2>2. n.key[1] = s.alias /\ n.key[2] = table
    BY <1>4, <1>6, <2>1
  <2>3. n.primary = Primary(c, s, k, Fact(c, k))
    BY <1>1, <2>1, <2>2 DEF ComparedAs
  <2> QED
    BY <1>2, <1>6, <2>1, <2>2, <2>3
<1> QED
  BY <1>5, <1>6

(* A fact of a table of a snapshot is known by its place, and one is first.  *)
PlacedIn(alias, table, ids) == \A k \in ids : k = <<alias, table, k[3]>> /\ k[3] \in Nat

LEMMA SnapshotPlaces ==
  ASSUME NEW c, IsCorpus(c), NEW s \in ToSet(c), NEW table \in Tables
  PROVE  PlacedIn(s.alias, table, TableFacts(c, {s.alias}, table))
<1>1. {s.alias} \in SUBSET SnapshotAliases(c)
  BY KnownByAlias
<1>2. NamedFacts(table, TableFacts(c, {s.alias}, table))
  BY <1>1, FactsOfTable
<1>3. \A k \in TableFacts(c, {s.alias}, table) : k[1] = s.alias
  BY DEF TableFacts
<1> QED
  BY <1>2, <1>3 DEF NamedFacts, PlacedIn

LEMMA LeastPlace ==
  ASSUME NEW alias, NEW table, NEW ids, PlacedIn(alias, table, ids), NEW i \in ids
  PROVE  \E d \in ids : \A j \in ids : d[3] <= j[3]
<1> DEFINE S == {j[3] : j \in ids}
<1>1. S \in SUBSET Nat /\ S # {}
  BY DEF PlacedIn
<1>2. Min(S) \in S /\ \A n \in S : Min(S) <= n
  BY <1>1, LeastMember
<1> QED
  BY <1>2

LEMMA AlikeOnes ==
  ASSUME NEW fields, NEW f, NEW g, AlikeIn(fields, f, g)
  PROVE  /\ AlikeIn(fields, f, f) /\ AlikeIn(fields, g, f)
         /\ \A h : AlikeIn(fields, h, f) <=> AlikeIn(fields, h, g)
BY DEF AlikeIn

LEMMA RoutinesCompared ==
  ASSUME NEW c, IsCorpus(c), NEW s \in ToSet(c), NEW i \in TableFacts(c, {s.alias}, "routines")
  PROVE  Cardinality({k \in PrimaryOnes(c, s, "routines") : Unplaced(Fact(c, k)) = Unplaced(Fact(c, i))}) = 1
<1> DEFINE ids == TableFacts(c, {s.alias}, "routines")
<1>1. \A k \in ids : k[1] = s.alias /\ k[2] = "routines"
  BY DEF TableFacts
<1>2. {s.alias} \in SUBSET SnapshotAliases(c) /\ "routines" \in Tables
  BY KnownByAlias DEF Tables
<1>3. NamedFacts("routines", ids)
  BY <1>2, FactsOfTable
<1>4. PICK d : EqualsOf(c, ids, i) = {d}
  BY <1>3, OneDistinct
<1>5. PrimaryOnes(c, s, "routines") = Distinct(c, ids)
  BY <1>1 DEF Primary, Distinct, PrimaryOnes
<1>6. \A k \in Distinct(c, ids) : k[1] = i[1]
  BY <1>1 DEF Distinct
<1>7. {k \in PrimaryOnes(c, s, "routines") : Unplaced(Fact(c, k)) = Unplaced(Fact(c, i))} = EqualsOf(c, ids, i)
  BY <1>5, <1>6 DEF EqualsOf, Equal
<1> QED
  BY <1>4, <1>7, FS_Singleton

LEMMA DefinitionsCompared ==
  ASSUME NEW c, IsCorpus(c), NEW s \in ToSet(c), NEW i \in DefinedSymbols(c, s), NEW equal,
         equal = {k \in PrimaryDefinitions(c, s) : AlikeIn(AsDefinition, Fact(c, k), Fact(c, i))}
  PROVE  /\ \E k \in equal : k[3] <= i[3]
         /\ Fact(c, i).static => i \in equal
         /\ \A k, m \in equal : Fact(c, k).static \/ Fact(c, m).static \/ k = m
<1> DEFINE all == {k \in DefinedSymbols(c, s) : AlikeIn(AsDefinition, Fact(c, k), Fact(c, i))}
<1>1. PlacedIn(s.alias, "symbols", DefinedSymbols(c, s))
  BY SnapshotPlaces DEF DefinedSymbols, Tables, PlacedIn
<1>2. i \in all /\ PlacedIn(s.alias, "symbols", all)
  BY <1>1 DEF AlikeIn, PlacedIn
<1>3. PICK d \in all : \A j \in all : d[3] <= j[3]
  <2> HIDE DEF all
  <2> QED
    BY <1>2, LeastPlace
<1>4. \A k \in all, j \in DefinedSymbols(c, s) : AlikeIn(AsDefinition, Fact(c, j), Fact(c, k)) <=> j \in all
  BY AlikeOnes
<1>5. \A k \in all : k[3] \in Nat
  BY <1>2 DEF PlacedIn
<1>6. PrimaryDefinition(c, s, d, Fact(c, d))
  BY <1>3, <1>4, <1>5 DEF PrimaryDefinition
<1>7. d \in equal /\ d[3] <= i[3]
  BY <1>2, <1>3, <1>6 DEF PrimaryDefinitions
<1>8. Fact(c, i).static => i \in equal
  BY <1>2 DEF PrimaryDefinition, PrimaryDefinitions
<1>9. ASSUME NEW k \in equal, NEW m \in equal, ~Fact(c, k).static, ~Fact(c, m).static PROVE k = m
  <2>1. k \in all /\ m \in all
    BY <1>9 DEF PrimaryDefinitions
  <2>2. PrimaryDefinition(c, s, k, Fact(c, k)) /\ PrimaryDefinition(c, s, m, Fact(c, m))
    BY <1>9 DEF PrimaryDefinitions
  <2>3. m[3] >= k[3] /\ k[3] >= m[3]
    BY <1>4, <1>9, <2>1, <2>2 DEF PrimaryDefinition
  <2>4. k[3] = m[3]
    BY <1>5, <2>1, <2>3
  <2> QED
    BY <1>2, <2>1, <2>4 DEF PlacedIn
<1> QED
  BY <1>7, <1>8, <1>9

LEMMA DeclarationsCompared ==
  ASSUME NEW c, IsCorpus(c), NEW s \in ToSet(c), NEW i \in Declarations(c, s), NEW equal,
         equal = {k \in PrimaryDeclarations(c, s) : AlikeIn(AsDeclaration, Fact(c, k), Fact(c, i))}
  PROVE  Cardinality(equal) = IF DefinedBy(c, s, Fact(c, i)) = {} THEN 1 ELSE 0
<1> DEFINE all == {k \in Declarations(c, s) : AlikeIn(AsDeclaration, Fact(c, k), Fact(c, i))}
<1>1. PlacedIn(s.alias, "symbols", Declarations(c, s))
  BY SnapshotPlaces DEF Tables, PlacedIn, Declarations
<1>2. i \in all /\ PlacedIn(s.alias, "symbols", all)
  BY <1>1 DEF AlikeIn, PlacedIn
<1>3. PICK d \in all : \A j \in all : d[3] <= j[3]
  <2> HIDE DEF all
  <2> QED
    BY <1>2, LeastPlace
<1>4. \A k \in all, j \in Declarations(c, s) : AlikeIn(AsDeclaration, Fact(c, j), Fact(c, k)) <=> j \in all
  BY AlikeOnes
<1>5. \A k \in all : k[3] \in Nat
  BY <1>2 DEF PlacedIn
<1>6. ASSUME NEW k \in all PROVE DefinedBy(c, s, Fact(c, k)) = DefinedBy(c, s, Fact(c, i))
  <2>1. Fact(c, k).name = Fact(c, i).name /\ Fact(c, k).kind = Fact(c, i).kind
    BY <1>6 DEF AlikeIn, AsDeclaration
  <2> QED
    BY <2>1 DEF DefinedBy, AlikeIn
<1>7. CASE DefinedBy(c, s, Fact(c, i)) # {}
  <2>1. ASSUME NEW k \in equal PROVE FALSE
    <3>1. k \in all /\ PrimaryDeclaration(c, s, k, Fact(c, k))
      BY <2>1 DEF PrimaryDeclarations
    <3> QED
      BY <1>6, <1>7, <3>1 DEF PrimaryDeclaration
  <2>2. equal = {}
    BY <2>1
  <2> QED
    BY <1>7, <2>2, FS_EmptySet
<1>8. CASE DefinedBy(c, s, Fact(c, i)) = {}
  <2>1. PrimaryDeclaration(c, s, d, Fact(c, d))
    <3>1. DefinedBy(c, s, Fact(c, d)) = {}
      BY <1>3, <1>6, <1>8
    <3>2. \A j \in Declarations(c, s) : AlikeIn(AsDeclaration, Fact(c, j), Fact(c, d)) => j[3] >= d[3]
      BY <1>3, <1>4, <1>5
    <3> QED
      BY <3>1, <3>2 DEF PrimaryDeclaration, Declarations
  <2>2. d \in equal
    BY <1>3, <2>1 DEF PrimaryDeclarations
  <2>3. ASSUME NEW k \in equal PROVE k = d
    <3>1. k \in all /\ PrimaryDeclaration(c, s, k, Fact(c, k))
      BY <2>3 DEF PrimaryDeclarations
    <3>2. d[3] >= k[3] /\ k[3] >= d[3]
      BY <1>3, <1>4, <1>5, <3>1 DEF PrimaryDeclaration, Declarations
    <3>3. d[3] = k[3]
      BY <1>3, <1>5, <3>1, <3>2
    <3> QED
      BY <1>2, <1>3, <3>1, <3>3 DEF PlacedIn
  <2>4. equal = {d}
    BY <2>2, <2>3
  <2> QED
    BY <1>8, <2>4, FS_Singleton
<1> QED
  BY <1>7, <1>8

LEMMA AllCompared ==
  ASSUME NEW c, NEW E, NEW graph, WholeGraph(c, request.diagnostics, E, graph)
  PROVE  ComparedOnce(c, graph)
<1>1. IsCorpus(c) /\ AreNodes(c, graph.nodes) /\ KeySet(graph.nodes) = AllKeys(c, request.diagnostics)
  BY DEF WholeGraph
<1> SUFFICES ASSUME NEW s \in ToSet(c)
             PROVE  LET symbols == Compared(graph, s.alias, "symbols")
                        defined == symbols \cap DefinedSymbols(c, s)
                    IN  /\ \A i \in TableFacts(c, {s.alias}, "routines") :
                             Cardinality({k \in Compared(graph, s.alias, "routines") :
                                            Unplaced(Fact(c, k)) = Unplaced(Fact(c, i))}) = 1
                        /\ \A i \in DefinedSymbols(c, s) :
                             LET equal == {k \in defined : AlikeIn(AsDefinition, Fact(c, k), Fact(c, i))}
                             IN  /\ \E k \in equal : k[3] <= i[3]
                                 /\ Fact(c, i).static => i \in equal
                                 /\ \A k, m \in equal : Fact(c, k).static \/ Fact(c, m).static \/ k = m
                        /\ \A i \in TableFacts(c, {s.alias}, "symbols") \ DefinedSymbols(c, s) :
                             LET equal == {k \in symbols \ defined : AlikeIn(AsDeclaration, Fact(c, k), Fact(c, i))}
                             IN  Cardinality(equal) = IF DefinedBy(c, s, Fact(c, i)) = {} THEN 1 ELSE 0
  BY DEF ComparedOnce
<1> DEFINE symbols == Compared(graph, s.alias, "symbols")
           defined == symbols \cap DefinedSymbols(c, s)
<1>2. Compared(graph, s.alias, "routines") = PrimaryOnes(c, s, "routines")
      /\ Compared(graph, s.alias, "symbols") = PrimaryOnes(c, s, "symbols")
  BY <1>1, ComparedAre
<1>3. \A k \in TableFacts(c, {s.alias}, "symbols") : k[2] = "symbols"
  BY <1>1, SymbolsAre
<1>4. PrimaryOnes(c, s, "symbols") \cap DefinedSymbols(c, s) = PrimaryDefinitions(c, s)
  BY <1>3 DEF PrimaryOnes, PrimaryDefinitions, DefinedSymbols, Primary
<1>5. PrimaryOnes(c, s, "symbols") \ PrimaryDefinitions(c, s) = PrimaryDeclarations(c, s)
  BY <1>3, <1>4 DEF PrimaryOnes, PrimaryDeclarations, Declarations, DefinedSymbols, Primary
<1>6. \A i \in TableFacts(c, {s.alias}, "routines") :
        Cardinality({k \in PrimaryOnes(c, s, "routines") : Unplaced(Fact(c, k)) = Unplaced(Fact(c, i))}) = 1
  BY <1>1, RoutinesCompared
<1>7. ASSUME NEW i \in DefinedSymbols(c, s)
      PROVE  LET equal == {k \in PrimaryDefinitions(c, s) : AlikeIn(AsDefinition, Fact(c, k), Fact(c, i))}
             IN  /\ \E k \in equal : k[3] <= i[3]
                 /\ Fact(c, i).static => i \in equal
                 /\ \A k, m \in equal : Fact(c, k).static \/ Fact(c, m).static \/ k = m
  <2> DEFINE equal == {k \in PrimaryDefinitions(c, s) : AlikeIn(AsDefinition, Fact(c, k), Fact(c, i))}
  <2>1. PICK found : found = equal
    OBVIOUS
  <2>2. /\ \E k \in found : k[3] <= i[3]
        /\ Fact(c, i).static => i \in found
        /\ \A k, m \in found : Fact(c, k).static \/ Fact(c, m).static \/ k = m
    BY <1>1, <2>1, DefinitionsCompared
  <2> QED
    BY <2>1, <2>2
<1>8. ASSUME NEW i \in Declarations(c, s)
      PROVE  Cardinality({k \in PrimaryDeclarations(c, s) : AlikeIn(AsDeclaration, Fact(c, k), Fact(c, i))})
               = IF DefinedBy(c, s, Fact(c, i)) = {} THEN 1 ELSE 0
  <2>1. PICK equal : equal = {k \in PrimaryDeclarations(c, s) : AlikeIn(AsDeclaration, Fact(c, k), Fact(c, i))}
    OBVIOUS
  <2>2. Cardinality(equal) = IF DefinedBy(c, s, Fact(c, i)) = {} THEN 1 ELSE 0
    BY <1>1, <2>1, DeclarationsCompared
  <2> QED
    BY <2>1, <2>2
<1>9. defined = PrimaryDefinitions(c, s) /\ symbols \ defined = PrimaryDeclarations(c, s)
  BY <1>2, <1>4, <1>5
<1> HIDE DEF symbols, defined
<1>10. \A i \in TableFacts(c, {s.alias}, "routines") :
         Cardinality({k \in Compared(graph, s.alias, "routines") : Unplaced(Fact(c, k)) = Unplaced(Fact(c, i))}) = 1
  BY <1>2, <1>6
<1>11. \A i \in DefinedSymbols(c, s) :
         LET equal == {k \in defined : AlikeIn(AsDefinition, Fact(c, k), Fact(c, i))}
         IN  /\ \E k \in equal : k[3] <= i[3]
             /\ Fact(c, i).static => i \in equal
             /\ \A k, m \in equal : Fact(c, k).static \/ Fact(c, m).static \/ k = m
  BY <1>7, <1>9
<1>12. \A i \in TableFacts(c, {s.alias}, "symbols") \ DefinedSymbols(c, s) :
         LET equal == {k \in symbols \ defined : AlikeIn(AsDeclaration, Fact(c, k), Fact(c, i))}
         IN  Cardinality(equal) = IF DefinedBy(c, s, Fact(c, i)) = {} THEN 1 ELSE 0
  BY <1>8, <1>9 DEF Declarations
<1> QED
  BY <1>10, <1>11, <1>12 DEF symbols, defined
-----------------------------------------------------------------------------
(* All that is written is put together.                                      *)
ComposingAt(c, nodes) ==
  /\ LinkedCorpus(c) /\ request.status = "committed"
  /\ Written(c, request.diagnostics, request.edges, nodes, 5, Facts(c, "evidence"))
  /\ progress = [pc |-> "graph.compose", nodes |-> nodes, rels |-> RelsOf(c, request.diagnostics, request.edges)]
ComposeInv == \E nodes : ComposingAt(request.corpus, nodes)
ComposedInv ==
  /\ CorpusRequest /\ progress = Idle /\ request.status = "composed"
  /\ WholeGraph(request.corpus, request.diagnostics, request.edges, request.graph)
WholeInv == (LinkInv /\ NoteInv) \/ WriteInv \/ ComposeInv \/ ComposedInv

LEMMA WritesLinks == WriteInv /\ WriteLinks => ComposeInv'
<1> SUFFICES ASSUME WriteInv, WriteLinks PROVE ComposeInv'
  OBVIOUS
<1>1. PICK c, label, k, fact, nodes : WritingAt(c, label, k, fact, nodes)
  BY WritingSomewhere
<1>2. LinkedCorpus(c) /\ IsCorpus(c) /\ c = request.corpus /\ request.status = "committed"
      /\ label \in 1 .. 5 /\ progress = NodesAt(label, k, fact, nodes)
  BY <1>1 DEF WritingAt, LinkedCorpus, PlaceToWrite
<1>3. request' = request /\ progress.label = label /\ progress.nodes = nodes
  BY <1>2 DEF WriteLinks, NodesAt
<1>4. label = 5
  <2>1. label > 4
    BY <1>3 DEF WriteLinks, Labels
  <2> QED
    BY <1>2, <2>1
<1>5. Past(c, label, k, fact) = Facts(c, "evidence")
  BY <1>2, <1>4, PastFirst
<1>6. Written(c, request.diagnostics, request.edges, nodes, 5, Facts(c, "evidence"))
  BY <1>1, <1>4, <1>5 DEF WritingAt
<1>7. progress' = [pc |-> "graph.compose", nodes |-> nodes, rels |-> RelsOf(c, request.diagnostics, request.edges)]
  BY <1>2, <1>3 DEF WriteLinks, RelsOf
<1>8. LinkedCorpus(c)'
  BY <1>2, <1>3, LinkedStays
<1>9. ComposingAt(c, nodes)'
  BY <1>2, <1>3, <1>6, <1>7, <1>8 DEF ComposingAt
<1>10. c = request'.corpus
  BY <1>2, <1>3
<1> QED
  BY <1>9, <1>10 DEF ComposeInv

LEMMA WrittenIsWhole ==
  ASSUME NEW c, NEW D, NEW E, NEW nodes, IsCorpus(c), DiagnosticsAre(c, D), AllNoted(c, D),
         Written(c, D, E, nodes, 5, Facts(c, "evidence")),
         NEW graph, graph = [nodes |-> nodes \cup Exported(c), rels |-> RelsOf(c, D, E)]
  PROVE  WholeGraph(c, D, E, graph) /\ IsGraph(graph.nodes, graph.rels)
<1>1. /\ AreNodes(c, nodes) /\ WithEvidence(c, E) /\ \A i \in Facts(c, "evidence") : OwnNoted(c, D, i)
      /\ KeySet(nodes) = FirstKeys(c) \cup Facts(c, "symbols") \cup Facts(c, "routines") \cup Facts(c, "evidence")
                         \cup DiagnosticKeys(D)
  BY DEF Written, WithEvidence
<1>2. AreNodes(c, nodes \cup Exported(c)) /\ KeySet(nodes \cup Exported(c)) = KeySet(nodes) \cup ExportedKeys(c)
  BY <1>1, ExportedNodes, NodesGrow
<1>3. KeySet(nodes \cup Exported(c)) = AllKeys(c, D)
  BY <1>1, <1>2 DEF AllKeys
<1>4. graph.nodes = nodes \cup Exported(c) /\ graph.rels = RelsOf(c, D, E)
  OBVIOUS
<1>5. WholeGraph(c, D, E, graph)
  BY <1>1, <1>2, <1>3, <1>4 DEF WholeGraph
<1>6. Cardinality(KeySet(graph.nodes)) = Cardinality(graph.nodes)
  <2>1. IsFiniteSet(AllKeys(c, D))
    BY KeysFinite
  <2>2. PICK all : all = graph.nodes
    OBVIOUS
  <2>3. AreNodes(c, all) /\ IsFiniteSet(KeySet(all))
    BY <1>2, <1>3, <1>4, <2>1, <2>2
  <2> QED
    BY <2>2, <2>3, OneNodeEach
<1>7. \A r \in graph.rels : r.source \in KeySet(graph.nodes) /\ r.target \in KeySet(graph.nodes)
  BY <1>1, <1>3, <1>4, EndsAreKeys
<1> QED
  BY <1>5, <1>6, <1>7 DEF IsGraph, KeySet

LEMMA Composes == ComposeInv /\ ComposeGraph => ComposedInv'
<1> SUFFICES ASSUME ComposeInv, ComposeGraph PROVE ComposedInv'
  OBVIOUS
<1>1. PICK c : c = request.corpus
  OBVIOUS
<1>2. PICK nodes : ComposingAt(c, nodes)
  BY <1>1 DEF ComposeInv
<1>3. PICK D, E : D = request.diagnostics /\ E = request.edges
  OBVIOUS
<1>4. /\ CorpusRequest /\ IsCorpus(c) /\ DiagnosticsAre(c, D) /\ AllNoted(c, D)
      /\ Written(c, D, E, nodes, 5, Facts(c, "evidence"))
      /\ progress.nodes = nodes /\ progress.rels = RelsOf(c, D, E)
  BY <1>2, <1>3 DEF ComposingAt, LinkedCorpus
<1>5. PICK graph : graph = [nodes |-> nodes \cup Exported(c), rels |-> RelsOf(c, D, E)]
  OBVIOUS
<1>6. WholeGraph(c, D, E, graph) /\ IsGraph(graph.nodes, graph.rels)
  BY <1>4, <1>5, WrittenIsWhole
<1>7. progress.nodes \cup {CorpusNode("export", k, None, None) :
                             k \in UNION {ExportKeys(request.corpus, s) : s \in ToSet(request.corpus)}} = graph.nodes
  BY <1>1, <1>4, <1>5 DEF Exported, ExportedKeys
<1>8. graph = [nodes |-> graph.nodes, rels |-> graph.rels] /\ progress.rels = graph.rels
  BY <1>4, <1>5
<1>9. request' = [request EXCEPT !.status = "composed", !.graph = [nodes |-> graph.nodes, rels |-> graph.rels]]
      /\ progress' = Idle
  BY <1>6, <1>7, <1>8 DEF ComposeGraph
<1>10. request' = [request EXCEPT !.status = "composed", !.graph = graph]
  BY <1>8, <1>9
<1>11. request' = [tool |-> "corpus", corpus |-> c, edges |-> E, status |-> "composed", graph |-> graph,
                   diagnostics |-> D]
  <2>1. request = [tool |-> "corpus", corpus |-> c, edges |-> E, status |-> request.status, graph |-> request.graph,
                   diagnostics |-> D]
    BY <1>1, <1>3, <1>4 DEF CorpusRequest
  <2>2. PICK status, before : status = request.status /\ before = request.graph
    OBVIOUS
  <2>3. request = [tool |-> "corpus", corpus |-> c, edges |-> E, status |-> status, graph |-> before, diagnostics |-> D]
    BY <2>1, <2>2
  <2>4. PICK one : one = [request EXCEPT !.status = "composed"]
    OBVIOUS
  <2>5. one = [tool |-> "corpus", corpus |-> c, edges |-> E, status |-> "composed", graph |-> before, diagnostics |-> D]
    BY <2>3, <2>4
  <2>6. request' = [one EXCEPT !.graph = graph]
    BY <1>10, <2>4
  <2> QED
    BY <2>5, <2>6
<1>12. /\ request'.status = "composed" /\ request'.corpus = c /\ request'.diagnostics = D
       /\ request'.edges = E /\ request'.graph = graph
  BY <1>11
<1>13. c \in Corpora
  BY <1>4 DEF IsCorpus
<1>14. CorpusRequest'
  BY <1>11, <1>12, <1>13 DEF CorpusRequest
<1> QED
  BY <1>6, <1>9, <1>12, <1>14 DEF ComposedInv

(* Which step may follow which.                                              *)
LEMMA CorpusSteps ==
  /\ CorpusNext => progress.pc = "corpus" \/ (progress.pc = "idle" /\ request.status = "new")
  /\ GraphNext => BeginGraph \/ progress.pc \in {"graph.nodes", "graph.compose"}
  /\ BeginGraph => progress = Idle /\ progress.pc = "idle" /\ request.status = "committed"
  /\ WriteFacts \/ WriteEvidence \/ EndEvidence \/ WriteDiagnostics \/ WriteLinks => progress.pc = "graph.nodes"
  /\ ComposeGraph => progress.pc = "graph.compose"
  BY DEF CorpusNext, LoadCorpus, LinkEvidence, BindRoutine, LinkCall, EndTable, AtTable, Asked, Idle, GraphNext, BeginGraph,
         WriteFacts, WriteEvidence, EndEvidence, WriteDiagnostics, WriteLinks, Writing, ComposeGraph

LEMMA WholeStep == WholeInv /\ [CorpusNext \/ GraphNext]_vars => WholeInv'
<1> SUFFICES ASSUME WholeInv, [CorpusNext \/ GraphNext]_vars PROVE WholeInv'
  OBVIOUS
<1>1. CASE UNCHANGED vars
  <2>1. request' = request /\ progress' = progress
    BY <1>1 DEF vars
  <2>2. (LinkInv /\ NoteInv) => (LinkInv /\ NoteInv)'
    BY <1>1, LinkingStep, NotingStep
  <2>3. WriteInv => WriteInv'
    BY <2>1 DEF WriteInv, WritingAt, LinkedCorpus, CorpusRequest
  <2>4. ComposeInv => ComposeInv'
    BY <2>1 DEF ComposeInv, ComposingAt, LinkedCorpus, CorpusRequest
  <2>5. ComposedInv => ComposedInv'
    BY <2>1 DEF ComposedInv, CorpusRequest
  <2> QED
    BY <2>2, <2>3, <2>4, <2>5 DEF WholeInv
<1>2. CASE LinkInv /\ NoteInv /\ (CorpusNext \/ GraphNext)
  <2>1. progress.pc \in {"idle", "corpus"}
    BY <1>2 DEF LinkInv, LinkedSoFar, AtFact, Passing, Idle
  <2>2. CASE CorpusNext
    BY <1>2, <2>2, LinkingStep, NotingStep DEF WholeInv
  <2>3. CASE GraphNext
    <3>1. BeginGraph
      BY <2>1, <2>3, CorpusSteps
    <3> QED
      BY <1>2, <3>1, GraphBegins DEF WholeInv
  <2> QED
    BY <1>2, <2>2, <2>3
<1>3. CASE WriteInv /\ (CorpusNext \/ GraphNext)
  <2>1. progress.pc = "graph.nodes"
    BY <1>3 DEF WriteInv, WritingAt, NodesAt
  <2>2. WriteFacts \/ WriteEvidence \/ EndEvidence \/ WriteDiagnostics \/ WriteLinks
    BY <1>3, <2>1, CorpusSteps DEF GraphNext
  <2> QED
    BY <1>3, <2>2, WritesFacts, WritesEvidence, EndsEvidence, WritesDiagnostics, WritesLinks DEF WholeInv
<1>4. CASE ComposeInv /\ (CorpusNext \/ GraphNext)
  <2>1. progress.pc = "graph.compose"
    BY <1>4 DEF ComposeInv, ComposingAt
  <2>2. ComposeGraph
    BY <1>4, <2>1, CorpusSteps DEF GraphNext
  <2> QED
    BY <1>4, <2>2, Composes DEF WholeInv
<1>5. CASE ComposedInv /\ (CorpusNext \/ GraphNext)
  BY <1>5, CorpusSteps DEF ComposedInv, Idle
<1> QED
  BY <1>1, <1>2, <1>3, <1>4, <1>5 DEF WholeInv

LEMMA WholeRight == WholeInv => CorpusGraphWhole
<1> SUFFICES ASSUME WholeInv, request.tool = "corpus" PROVE CorpusGraphWhole
  BY DEF CorpusGraphWhole
<1>1. CASE LinkInv
  BY <1>1 DEF LinkInv, LinkedSoFar, AtFact, CorpusGraphWhole
<1>2. CASE WriteInv
  BY <1>2 DEF WriteInv, WritingAt, CorpusGraphWhole
<1>3. CASE ComposeInv
  BY <1>3 DEF ComposeInv, ComposingAt, CorpusGraphWhole
<1>4. CASE ComposedInv
  <2>1. PICK c, E, graph : c = request.corpus /\ E = request.edges /\ graph = request.graph
    OBVIOUS
  <2>2. WholeGraph(c, request.diagnostics, E, graph)
    BY <1>4, <2>1 DEF ComposedInv
  <2>3. FactsHang(c, graph) /\ EvidenceOwned(c, graph) /\ ComparedOnce(c, graph)
    BY <2>2, AllHang, AllOwned, AllCompared
  <2>4. {e \in E : e.kind # "evidence"} \subseteq graph.rels
    BY <2>2 DEF WholeGraph, RelsOf
  <2>5. request.status # "invalid"
    BY <1>4 DEF ComposedInv
  <2> QED
    BY <2>1, <2>3, <2>4, <2>5 DEF CorpusGraphWhole
<1> QED
  BY <1>1, <1>2, <1>3, <1>4 DEF WholeInv

(* Whatever the corpora are whose facts are of files that the registry has:
   the graph of every corpus that is linked passes its own validation, and
   every fact and diagnostic hangs on its file in it, evidence has its one
   owner or a diagnostic and is exact only when one link is, and of equal
   facts one is compared (corpus_export.py:456-940, 966-1069).               *)
THEOREM CorpusGraphIsWhole == CorpusGraphSpec => []CorpusGraphWhole
<1>1. CorpusInit => WholeInv
  BY LinkingStarts, NotingStarts DEF WholeInv
<1>2. WholeInv /\ [CorpusNext \/ GraphNext]_vars => WholeInv'
  BY WholeStep
<1>3. WholeInv => CorpusGraphWhole
  BY WholeRight
<1> QED
  BY <1>1, <1>2, <1>3, PTL DEF CorpusGraphSpec

-----------------------------------------------------------------------------
(***************************************************************************)
(* CorpusStaging.  BytesRead is a sum over the rows of a batch, in an order *)
(* that is chosen; a row more adds its bytes whatever the order.            *)
(***************************************************************************)
Picked(s) == CHOOSE x \in s : TRUE
Rest(s) == s \ {Picked(s)}
IterIs(iter, U) ==
  iter = [s \in SUBSET U |-> IF s = {} THEN 0 ELSE Picked(s)[3] + iter[Rest(s)]]
SumOver(U) == (CHOOSE iter : IterIs(iter, U))[U]
Weighed(U) == IsFiniteSet(U) /\ \A x \in U : x[3] \in Nat

LEMMA BytesAre == ASSUME NEW b PROVE BytesRead(b) = SumOver({row \in b.rows : row[1] = "facts"})
BY DEF BytesRead, MapThenSumSet, MapThenFoldSet, SumOver, IterIs, Picked, Rest

LEMMA RestIs ==
  ASSUME NEW s, IsFiniteSet(s), s # {}
  PROVE  /\ Picked(s) \in s /\ Rest(s) \subseteq s /\ IsFiniteSet(Rest(s))
         /\ Cardinality(s) \in Nat \ {0} /\ Cardinality(Rest(s)) = Cardinality(s) - 1
<1>1. Picked(s) \in s
  BY DEF Picked
<1> QED
  BY <1>1, FS_RemoveElement, FS_CardinalityType, FS_EmptySet DEF Rest

LEMMA SumExists ==
  ASSUME NEW U, Weighed(U)
  PROVE  \E iter \in [SUBSET U -> Nat] : IterIs(iter, U)
<1> DEFINE X == [SUBSET U -> Nat]
           One(h) == [s \in SUBSET U |-> IF s = {} THEN 0 ELSE Picked(s)[3] + h[Rest(s)]]
           none == [s \in SUBSET U |-> 0]
           step == [z \in Nat \X X |-> One(z[2])]
<1>1. ASSUME NEW s \in SUBSET U, s # {} PROVE Picked(s) \in U /\ Picked(s)[3] \in Nat /\ Rest(s) \in SUBSET U
  BY <1>1 DEF Weighed, Picked, Rest
<1>2. ASSUME NEW h \in X PROVE One(h) \in X
  <2>1. ASSUME NEW s \in SUBSET U PROVE (IF s = {} THEN 0 ELSE Picked(s)[3] + h[Rest(s)]) \in Nat
    <3>1. CASE s = {}
      BY <3>1
    <3>2. CASE s # {}
      <4>1. Picked(s)[3] \in Nat /\ h[Rest(s)] \in Nat
        BY <1>1, <1>2, <3>2
      <4> QED
        BY <3>2, <4>1
    <3> QED
      BY <3>1, <3>2
  <2> QED
    BY <2>1
<1>3. none \in X /\ step \in [Nat \X X -> X]
  <2>1. none \in X
    OBVIOUS
  <2>2. ASSUME NEW z \in Nat \X X PROVE One(z[2]) \in X
    <3> HIDE DEF One, X
    <3> QED
      BY <1>2, <2>2
  <2> HIDE DEF One, X
  <2> QED
    BY <2>1, <2>2
<1>4. PICK f \in [Nat -> X] : Unfolds(f, none, step)
  <2> HIDE DEF none, X, step
  <2> QED
    BY <1>3, Recursion, Zenon
<1>5. f[0] = none /\ \A n \in Nat : f[n + 1] = One(f[n])
  <2>1. \A n \in Nat, h \in X : step[<<n, h>>] = One(h)
    <3> HIDE DEF One, X
    <3> QED
      OBVIOUS
  <2>2. f[0] = none
    BY <1>4 DEF Unfolds
  <2> HIDE DEF One, X, step, none
  <2>3. ASSUME NEW n \in Nat PROVE f[n + 1] = One(f[n])
    <3>1. n + 1 \in Nat \ {0} /\ (n + 1) - 1 = n /\ f[n] \in X
      BY <1>4
    <3>2. f[n + 1] = step[<<n + 1, f[n]>>]
      BY <1>4, <3>1 DEF Unfolds
    <3> QED
      BY <2>1, <3>1, <3>2
  <2> QED
    BY <2>2, <2>3
<1>6. \A h \in X, s \in SUBSET U : One(h)[s] = IF s = {} THEN 0 ELSE Picked(s)[3] + h[Rest(s)]
  OBVIOUS
<1> DEFINE V == {n \in Nat : \A s \in SUBSET U : Cardinality(s) <= n => f[n + 1][s] = f[n][s]}
<1>7. \A n \in Nat : f[n] \in X
  <2> HIDE DEF X
  <2> QED
    BY <1>4
<1>8. \A s \in SUBSET U : IsFiniteSet(s) /\ Cardinality(s) \in Nat /\ Cardinality(s) <= Cardinality(U)
  BY FS_Subset, FS_CardinalityType DEF Weighed
<1>9. \A n \in Nat : f[n][{}] = 0
  <2> TAKE n \in Nat
  <2>1. CASE n = 0
    BY <1>5, <2>1
  <2>2. CASE n # 0
    <3>1. n - 1 \in Nat /\ (n - 1) + 1 = n
      BY <2>2
    <3>2. f[n] = One(f[n - 1])
      BY <1>5, <3>1
    <3> HIDE DEF One, X
    <3> QED
      BY <1>6, <1>7, <3>1, <3>2
  <2> QED
    BY <2>1, <2>2
<1> HIDE DEF One, X
<1>10. 0 \in V
  <2> SUFFICES ASSUME NEW s \in SUBSET U, Cardinality(s) <= 0 PROVE f[0 + 1][s] = f[0][s]
    OBVIOUS
  <2>1. s = {}
    BY <1>8, FS_EmptySet
  <2> QED
    BY <1>9, <2>1
<1>11. ASSUME NEW n \in Nat, n \in V PROVE n + 1 \in V
  <2> SUFFICES ASSUME NEW s \in SUBSET U, Cardinality(s) <= n + 1 PROVE f[(n + 1) + 1][s] = f[n + 1][s]
    OBVIOUS
  <2>1. CASE s = {}
    BY <1>9, <2>1
  <2>2. CASE s # {}
    <3>1. Rest(s) \in SUBSET U /\ Cardinality(Rest(s)) <= n
      BY <1>8, <2>2, RestIs
    <3>2. f[n + 1][Rest(s)] = f[n][Rest(s)]
      BY <1>11, <3>1
    <3>3. f[(n + 1) + 1][s] = Picked(s)[3] + f[n + 1][Rest(s)]
      BY <1>5, <1>6, <1>7, <2>2
    <3>4. f[n + 1][s] = Picked(s)[3] + f[n][Rest(s)]
      BY <1>5, <1>6, <1>7, <2>2
    <3> QED
      BY <3>2, <3>3, <3>4
  <2> QED
    BY <2>1, <2>2
<1>12. Nat \subseteq V
  <2> HIDE DEF V
  <2> QED
    BY <1>10, <1>11, Induction
<1> DEFINE N == Cardinality(U)
           h == f[N]
<1>13. N \in Nat /\ \A s \in SUBSET U : f[N + 1][s] = f[N][s]
  BY <1>8, <1>12, FS_CardinalityType DEF Weighed
<1>14. h \in X /\ f[N + 1] \in X /\ f[N + 1] = One(h)
  BY <1>5, <1>7, <1>13
<1>15. h = One(h)
  <2> HIDE DEF N, V
  <2> QED
    BY <1>13, <1>14 DEF X
<1> QED
  BY <1>14, <1>15 DEF IterIs, X, One

(* Two sums agree on the sets of both.                                       *)
LEMMA SumsAgree ==
  ASSUME NEW U, NEW W, NEW i, NEW j, IterIs(i, U), IterIs(j, W), NEW S, S \subseteq U, S \subseteq W,
         IsFiniteSet(S)
  PROVE  i[S] = j[S]
<1> DEFINE V == {n \in Nat : \A s \in SUBSET S : Cardinality(s) <= n => i[s] = j[s]}
<1>1. \A s \in SUBSET S : /\ i[s] = IF s = {} THEN 0 ELSE Picked(s)[3] + i[Rest(s)]
                          /\ j[s] = IF s = {} THEN 0 ELSE Picked(s)[3] + j[Rest(s)]
  BY DEF IterIs
<1>2. \A s \in SUBSET S : IsFiniteSet(s) /\ Cardinality(s) \in Nat
  BY FS_Subset, FS_CardinalityType
<1>3. 0 \in V
  <2> SUFFICES ASSUME NEW s \in SUBSET S, Cardinality(s) <= 0 PROVE i[s] = j[s]
    OBVIOUS
  <2>1. s = {}
    BY <1>2, FS_EmptySet
  <2> QED
    BY <1>1, <2>1
<1>4. ASSUME NEW n \in Nat, n \in V PROVE n + 1 \in V
  <2> SUFFICES ASSUME NEW s \in SUBSET S, Cardinality(s) <= n + 1 PROVE i[s] = j[s]
    OBVIOUS
  <2>1. CASE s = {}
    BY <1>1, <2>1
  <2>2. CASE s # {}
    <3>1. Rest(s) \in SUBSET S /\ Cardinality(Rest(s)) <= n
      BY <1>2, <2>2, RestIs
    <3>2. i[Rest(s)] = j[Rest(s)]
      BY <1>4, <3>1
    <3> QED
      BY <1>1, <2>2, <3>2
  <2> QED
    BY <2>1, <2>2
<1>5. Nat \subseteq V
  <2> HIDE DEF V
  <2> QED
    BY <1>3, <1>4, Induction
<1> QED
  BY <1>2, <1>5

LEMMA SumUnfolds ==
  /\ SumOver({}) = 0
  /\ \A S : Weighed(S) => SumOver(S) \in Nat
  /\ \A S : Weighed(S) /\ S # {} => SumOver(S) = Picked(S)[3] + SumOver(Rest(S))
<1>1. ASSUME NEW S, Weighed(S)
      PROVE  /\ IterIs(CHOOSE iter : IterIs(iter, S), S) /\ SumOver(S) \in Nat
             /\ SumOver(S) = IF S = {} THEN 0 ELSE Picked(S)[3] + SumOver(Rest(S))
  <2> DEFINE I(T) == CHOOSE iter : IterIs(iter, T)
  <2>1. \A T : Weighed(T) => IterIs(I(T), T)
    BY SumExists
  <2>2. PICK iter \in [SUBSET S -> Nat] : IterIs(iter, S)
    BY <1>1, SumExists
  <2>3. IterIs(I(S), S)
    BY <1>1, <2>1
  <2> HIDE DEF I
  <2>4. IsFiniteSet(S)
    BY <1>1 DEF Weighed
  <2>5. I(S)[S] = iter[S] /\ iter[S] \in Nat
    BY <2>2, <2>3, <2>4, SumsAgree
  <2>6. SumOver(S) = I(S)[S] /\ SumOver(Rest(S)) = I(Rest(S))[Rest(S)]
    BY DEF SumOver, I
  <2>7. I(S)[S] = IF S = {} THEN 0 ELSE Picked(S)[3] + I(S)[Rest(S)]
    BY <2>3 DEF IterIs
  <2>8. S # {} => I(S)[Rest(S)] = I(Rest(S))[Rest(S)]
    <3> SUFFICES ASSUME S # {} PROVE I(S)[Rest(S)] = I(Rest(S))[Rest(S)]
      OBVIOUS
    <3>1. Rest(S) \subseteq S /\ IsFiniteSet(Rest(S)) /\ Weighed(Rest(S))
      BY <1>1, RestIs DEF Weighed
    <3>2. IterIs(I(Rest(S)), Rest(S))
      BY <2>1, <3>1
    <3> QED
      BY <2>3, <3>1, <3>2, SumsAgree
  <2> QED
    BY <2>3, <2>5, <2>6, <2>7, <2>8 DEF I
<1>2. Weighed({})
  BY FS_EmptySet DEF Weighed
<1> QED
  BY <1>1, <1>2

LEMMA SumGrows ==
  ASSUME NEW S, NEW y, Weighed(S \cup {y}), y \notin S
  PROVE  SumOver(S \cup {y}) = SumOver(S) + y[3]
<1> DEFINE V == {n \in Nat : \A T : \A x : Weighed(T \cup {x}) /\ x \notin T /\ Cardinality(T) <= n =>
                                            SumOver(T \cup {x}) = SumOver(T) + x[3]}
<1>1. ASSUME NEW T, NEW x, Weighed(T \cup {x}), x \notin T
      PROVE  /\ Weighed(T) /\ Cardinality(T) \in Nat /\ IsFiniteSet(T) /\ SumOver(T) \in Nat /\ x[3] \in Nat
             /\ Picked(T \cup {x}) = x => Rest(T \cup {x}) = T
             /\ Picked(T \cup {x}) # x => Picked(T \cup {x}) \in T
             /\ SumOver(T \cup {x}) = Picked(T \cup {x})[3] + SumOver(Rest(T \cup {x}))
  <2>1. Weighed(T)
    BY <1>1, FS_Subset DEF Weighed
  <2>2. T \cup {x} # {} /\ Picked(T \cup {x}) \in T \cup {x}
    BY DEF Picked
  <2> QED
    BY <1>1, <2>1, <2>2, SumUnfolds, FS_CardinalityType DEF Weighed, Rest
<1>2. 0 \in V
  <2> SUFFICES ASSUME NEW T, NEW x, Weighed(T \cup {x}), x \notin T, Cardinality(T) <= 0
               PROVE  SumOver(T \cup {x}) = SumOver(T) + x[3]
    OBVIOUS
  <2>1. T = {}
    <3>1. Cardinality(T) \in Nat /\ IsFiniteSet(T)
      BY <1>1
    <3>2. Cardinality(T) = 0
      BY <3>1
    <3> QED
      BY <3>1, <3>2, FS_EmptySet
  <2>2. Picked(T \cup {x}) = x
    BY <1>1, <2>1
  <2> QED
    BY <1>1, <2>2
<1>3. ASSUME NEW n \in Nat, n \in V PROVE n + 1 \in V
  <2> SUFFICES ASSUME NEW T, NEW x, Weighed(T \cup {x}), x \notin T, Cardinality(T) <= n + 1
               PROVE  SumOver(T \cup {x}) = SumOver(T) + x[3]
    OBVIOUS
  <2> DEFINE c == Picked(T \cup {x})
  <2>1. CASE c = x
    BY <1>1, <2>1
  <2>2. CASE c # x
    <3> DEFINE R == T \ {c}
    <3>1. c \in T /\ IsFiniteSet(T) /\ Cardinality(T) \in Nat
      BY <1>1, <2>2
    <3>2. Rest(T \cup {x}) = R \cup {x} /\ R \cup {c} = T /\ x \notin R /\ c \notin R
      BY <2>2, <3>1 DEF Rest
    <3>3. Cardinality(R) <= n
      <4>1. Cardinality(T \ {c}) = Cardinality(T) - 1
        BY <3>1, FS_RemoveElement
      <4> HIDE DEF c
      <4> QED
        BY <3>1, <4>1
    <3>4. Weighed(R \cup {x}) /\ Weighed(R \cup {c}) /\ Weighed(R)
      <4>1. R \cup {x} \in SUBSET (T \cup {x}) /\ R \cup {c} \in SUBSET (T \cup {x}) /\ R \in SUBSET (T \cup {x})
        BY <3>1
      <4> HIDE DEF R
      <4> QED
        BY <4>1, FS_Subset DEF Weighed
    <3>5. SumOver(T \cup {x}) = c[3] + SumOver(R \cup {x})
      <4>1. SumOver(T \cup {x}) = Picked(T \cup {x})[3] + SumOver(Rest(T \cup {x}))
        BY <1>1
      <4> HIDE DEF R
      <4> QED
        BY <3>2, <4>1
    <3> HIDE DEF R, c
    <3>6. SumOver(R \cup {x}) = SumOver(R) + x[3] /\ SumOver(R \cup {c}) = SumOver(R) + c[3]
      BY <1>3, <3>2, <3>3, <3>4
    <3>7. SumOver(R) \in Nat /\ x[3] \in Nat /\ c[3] \in Nat
      BY <1>1, <3>2, <3>4, SumUnfolds DEF Weighed
    <3> QED
      BY <3>2, <3>5, <3>6, <3>7
  <2> QED
    BY <2>1, <2>2
<1>4. Nat \subseteq V
  <2> HIDE DEF V
  <2> QED
    BY <1>2, <1>3, Induction
<1>5. Cardinality(S) \in Nat
  BY <1>1
<1> QED
  BY <1>4, <1>5

-----------------------------------------------------------------------------
(* A file that was staged: its rows in one batch, and in one spool or none.  *)
StagedBatch == [files : Nat, bytes : Nat, rows : {rows \in SUBSET StagedRows : IsFiniteSet(rows)}]
BatchesOf(done, open) == IF open = None THEN done ELSE Append(done, open)
RowsIn(b, n) == {row \in b.rows : row[2] = n}
InNone(s, n) == \A q \in 1 .. Len(s) : RowsIn(s[q], n) = {}
InOne(s, n, rows) ==
  \E p \in 1 .. Len(s) : RowsIn(s[p], n) = rows /\ \A q \in 1 .. Len(s) : q # p => RowsIn(s[q], n) = {}
ReadsOf(n) == {<<"facts", n, size>> : size \in FileSizes} \cup
              {<<"diagnostics", n, c>> : c \in {"file_too_large", "unreadable_file"}}
RowOfFile(n, read) == <<"files", n, IF read[1] = "facts" THEN read[3] ELSE 0>>
MarkdownOf(markdown, n) == {m \in markdown : m[1] = n}

Staged(native, spools, markdown, n, kind) ==
  \E read \in ReadsOf(n) :
    /\ InOne(native, n, {read, RowOfFile(n, read)})
    /\ IF kind = "source" THEN InOne(spools, n, {read}) ELSE InNone(spools, n)
    /\ MarkdownOf(markdown, n) = IF kind = "markdown" /\ read[1] = "facts" THEN {<<n, read[3]>>} ELSE {}
Unstaged(native, spools, markdown, n) ==
  InNone(native, n) /\ InNone(spools, n) /\ MarkdownOf(markdown, n) = {}
Begun(native, spools, markdown, n) ==
  /\ InNone(spools, n) /\ MarkdownOf(markdown, n) = {} /\ native # <<>>
  /\ RowsIn(native[Len(native)], n) = {<<"files", n, 0>>}
  /\ \A q \in 1 .. Len(native) - 1 : RowsIn(native[q], n) = {}

FactsIn(b) == {row \in b.rows : row[1] = "facts"}
NativeWithin(b) == b.files <= BatchFileLimit /\ BytesRead(b) <= BatchByteLimit + MaxFileBytes
SpoolWithin(b) ==
  b.files <= BatchFileLimit /\ (BytesRead(b) <= BatchByteLimit \/ Cardinality(FactsIn(b)) = 1)

StagingPcs == {"staging.start", "staging.read", "staging.spools"}
StagingTypeOK ==
  /\ request = [tool |-> "staging", files |-> request.files, native |-> request.native,
                spools |-> request.spools, markdown |-> request.markdown, status |-> request.status]
  /\ request.files \in Selections /\ request.native \in Seq(StagedBatch) /\ request.spools \in Seq(StagedBatch)
  /\ \/ progress = Idle
     \/ /\ progress = [pc |-> progress.pc, file |-> progress.file, importer |-> progress.importer,
                       spool |-> progress.spool, estimate |-> progress.estimate]
        /\ progress.pc \in StagingPcs /\ progress.file \in Nat \ {0}
        /\ progress.importer \in StagedBatch \cup {None} /\ progress.spool \in StagedBatch \cup {None}
        /\ progress.estimate \in Nat /\ progress.estimate <= MaxFileBytes

LimitsInv ==
  /\ \A p \in 1 .. Len(request.native) : NativeWithin(request.native[p])
  /\ \A p \in 1 .. Len(request.spools) : SpoolWithin(request.spools[p])

(* What the code has counted of a batch that is open is what was read, but for
   the estimate of the file at hand.                                         *)
OpenImporterInv(importer, pc, estimate) ==
  importer # None =>
    /\ NativeWithin(importer)
    /\ IF pc = "staging.read"
       THEN importer.bytes = BytesRead(importer) + estimate /\ BytesRead(importer) <= BatchByteLimit
       ELSE importer.bytes = BytesRead(importer)
OpenSpoolInv(spool) == spool # None => SpoolWithin(spool) /\ spool.bytes = BytesRead(spool)

StagedInv(pc, file, native, spools) ==
  /\ \A m \in 1 .. file - 1 :
       m \in 1 .. Len(request.files) /\ Staged(native, spools, request.markdown, m, request.files[m])
  /\ pc = "staging.start" => \A m \in file .. Len(request.files) : Unstaged(native, spools, request.markdown, m)
  /\ pc = "staging.read" => /\ file \in 1 .. Len(request.files) /\ progress.importer # None
                            /\ Begun(native, spools, request.markdown, file)
                            /\ \A m \in file + 1 .. Len(request.files) :
                                 Unstaged(native, spools, request.markdown, m)
  /\ pc = "staging.spools" => progress.importer = None /\ file > Len(request.files)

StagingInv ==
  /\ StagingTypeOK /\ LimitsInv
  /\ progress # Idle =>
       /\ request.status = "new"
       /\ OpenImporterInv(progress.importer, progress.pc, progress.estimate) /\ OpenSpoolInv(progress.spool)
       /\ StagedInv(progress.pc, progress.file, BatchesOf(request.native, progress.importer),
                   BatchesOf(request.spools, progress.spool))
  /\ progress = Idle =>
       /\ request.status # "staged" => request.native = <<>> /\ request.spools = <<>> /\ request.markdown = {}
       /\ request.status = "staged" => \A m \in 1 .. Len(request.files) :
            Staged(request.native, request.spools, request.markdown, m, request.files[m])

-----------------------------------------------------------------------------
LEMMA NoneIsNoBatch == None \notin StagedBatch
BY StagingAssumption DEF StagedBatch

(* What was read of a batch.                                                 *)
LEMMA FactsWeighed ==
  ASSUME NEW b \in StagedBatch
  PROVE  Weighed(FactsIn(b)) /\ BytesRead(b) = SumOver(FactsIn(b)) /\ BytesRead(b) \in Nat
<1>1. FactsIn(b) \subseteq b.rows /\ IsFiniteSet(b.rows) /\ b.rows \subseteq StagedRows
  BY DEF StagedBatch, FactsIn
<1>2. \A x \in FactsIn(b) : x[3] \in Nat
  BY <1>1, StagingAssumption DEF FactsIn, StagedRows
<1>3. Weighed(FactsIn(b))
  BY <1>1, <1>2, FS_Subset DEF Weighed
<1>4. BytesRead(b) = SumOver(FactsIn(b))
  BY BytesAre DEF FactsIn
<1> QED
  BY <1>3, <1>4, SumUnfolds

LEMMA BytesGrow ==
  ASSUME NEW b \in StagedBatch, NEW c \in StagedBatch
  PROVE  /\ FactsIn(c) = FactsIn(b) => BytesRead(c) = BytesRead(b)
         /\ FactsIn(b) = {} => BytesRead(b) = 0
         /\ \A row : row \notin FactsIn(b) /\ FactsIn(c) = FactsIn(b) \cup {row} =>
                       BytesRead(c) = BytesRead(b) + row[3]
<1>1. \A row : row \notin FactsIn(b) /\ FactsIn(c) = FactsIn(b) \cup {row} =>
                 BytesRead(c) = BytesRead(b) + row[3]
  <2> SUFFICES ASSUME NEW row, row \notin FactsIn(b), FactsIn(c) = FactsIn(b) \cup {row}
               PROVE  BytesRead(c) = BytesRead(b) + row[3]
    OBVIOUS
  <2>1. Weighed(FactsIn(b) \cup {row})
    BY FactsWeighed
  <2>2. SumOver(FactsIn(b) \cup {row}) = SumOver(FactsIn(b)) + row[3]
    BY <2>1, SumGrows
  <2> QED
    BY <2>2, FactsWeighed
<1> QED
  BY <1>1, FactsWeighed, SumUnfolds

(* A sequence of batches of which the last one is new or has more rows, all of
   one file: the other files are where they were.                            *)
Grown(s, t, n) ==
  /\ Len(s) \in Nat /\ Len(t) \in Nat \ {0} /\ Len(t) \in {Len(s), Len(s) + 1}
  /\ \A q \in 1 .. Len(t) - 1 : t[q] = s[q]
  /\ \A m : m # n => RowsIn(t[Len(t)], m) = IF Len(t) = Len(s) THEN RowsIn(s[Len(t)], m) ELSE {}

Refilled(s, t, n) == Grown(s, t, n) \/ t = s

LEMMA OthersKept ==
  ASSUME NEW s, NEW t, NEW n, NEW m, m # n, Refilled(s, t, n)
  PROVE  /\ \A rows : InOne(s, m, rows) => InOne(t, m, rows)
         /\ InNone(s, m) => InNone(t, m)
<1> SUFFICES ASSUME Grown(s, t, n)
             PROVE  /\ \A rows : InOne(s, m, rows) => InOne(t, m, rows)
                    /\ InNone(s, m) => InNone(t, m)
  BY DEF Refilled
<1>1. Len(s) \in Nat /\ Len(t) \in Nat \ {0} /\ (Len(t) = Len(s) \/ Len(t) = Len(s) + 1)
  BY DEF Grown
<1>2. \A q \in 1 .. Len(t) : RowsIn(t[q], m) = IF q \in 1 .. Len(s) THEN RowsIn(s[q], m) ELSE {}
  <2> TAKE q \in 1 .. Len(t)
  <2>1. CASE q = Len(t)
    BY <1>1, <2>1 DEF Grown
  <2>2. CASE q # Len(t)
    <3>1. q \in 1 .. Len(t) - 1 /\ q \in 1 .. Len(s)
      BY <1>1, <2>2
    <3> QED
      BY <3>1 DEF Grown
  <2> QED
    BY <2>1, <2>2
<1>3. 1 .. Len(s) \subseteq 1 .. Len(t)
  BY <1>1
<1>4. ASSUME NEW rows, InOne(s, m, rows) PROVE InOne(t, m, rows)
  <2>1. PICK p \in 1 .. Len(s) :
          RowsIn(s[p], m) = rows /\ \A q \in 1 .. Len(s) : q # p => RowsIn(s[q], m) = {}
    BY <1>4 DEF InOne
  <2>2. p \in 1 .. Len(t) /\ RowsIn(t[p], m) = rows
    BY <1>2, <1>3, <2>1
  <2>3. \A q \in 1 .. Len(t) : q # p => RowsIn(t[q], m) = {}
    BY <1>2, <2>1
  <2> QED
    BY <2>2, <2>3 DEF InOne
<1>5. InNone(s, m) => InNone(t, m)
  BY <1>2 DEF InNone
<1> QED
  BY <1>4, <1>5

LEMMA FilesKept ==
  ASSUME NEW native, NEW spools, NEW markdown, NEW native2, NEW spools2, NEW markdown2, NEW n, NEW m, m # n,
         Refilled(native, native2, n), Refilled(spools, spools2, n),
         MarkdownOf(markdown2, m) = MarkdownOf(markdown, m)
  PROVE  /\ \A kind : Staged(native, spools, markdown, m, kind) => Staged(native2, spools2, markdown2, m, kind)
         /\ Unstaged(native, spools, markdown, m) => Unstaged(native2, spools2, markdown2, m)
<1>1. /\ \A rows : InOne(native, m, rows) => InOne(native2, m, rows)
      /\ InNone(native, m) => InNone(native2, m)
  BY OthersKept
<1>2. /\ \A rows : InOne(spools, m, rows) => InOne(spools2, m, rows)
      /\ InNone(spools, m) => InNone(spools2, m)
  BY OthersKept
<1>3. ASSUME NEW kind, Staged(native, spools, markdown, m, kind) PROVE Staged(native2, spools2, markdown2, m, kind)
  <2>1. PICK read \in ReadsOf(m) :
          /\ InOne(native, m, {read, RowOfFile(m, read)})
          /\ IF kind = "source" THEN InOne(spools, m, {read}) ELSE InNone(spools, m)
          /\ MarkdownOf(markdown, m) = IF kind = "markdown" /\ read[1] = "facts" THEN {<<m, read[3]>>} ELSE {}
    BY <1>3 DEF Staged
  <2> QED
    BY <1>1, <1>2, <2>1 DEF Staged
<1> QED
  BY <1>1, <1>2, <1>3 DEF Unstaged

(* The next file is taken into the open batch or into a new one.             *)
TakenInto(done, open, bytes, n, rows, b, done2) ==
  LET s == BatchesOf(done, open)
      t == BatchesOf(done2, b)
  IN  /\ b \in StagedBatch /\ b # None /\ done2 \in Seq(StagedBatch)
      /\ Grown(s, t, n) /\ t[Len(t)] = b /\ t # <<>>
      /\ InNone(s, n) => /\ RowsIn(b, n) = rows
                         /\ \A q \in 1 .. Len(t) - 1 : RowsIn(t[q], n) = {}
      /\ \A p \in 1 .. Len(done2) :
           \/ p \in 1 .. Len(done) /\ done2[p] = done[p]
           \/ open # None /\ done2[p] = open
      /\ \/ /\ b.files = 1 /\ b.bytes = bytes /\ FactsIn(b) = {row \in rows : row[1] = "facts"}
         \/ /\ open # None /\ open.files < BatchFileLimit /\ open.bytes + bytes <= BatchByteLimit
            /\ b.files = open.files + 1 /\ b.bytes = open.bytes + bytes
            /\ FactsIn(b) = FactsIn(open) \cup {row \in rows : row[1] = "facts"}
            /\ InNone(s, n) => RowsIn(open, n) = {}

LEMMA FileTaken ==
  ASSUME NEW done \in Seq(StagedBatch), NEW open \in StagedBatch \cup {None}, NEW bytes \in Nat, NEW n,
         NEW rows, rows \in SUBSET StagedRows, IsFiniteSet(rows), \A row \in rows : row[2] = n
  PROVE  TakenInto(done, open, bytes, n, rows, AddFile(Opened(open, bytes), bytes, rows),
                   Finished(done, open, bytes))
<1> DEFINE b == AddFile(Opened(open, bytes), bytes, rows)
           done2 == Finished(done, open, bytes)
           s == BatchesOf(done, open)
           t == BatchesOf(done2, b)
<1>1. \A x : x \in StagedBatch => x # None
  BY NoneIsNoBatch
<1>2. EmptyBatch \in StagedBatch /\ EmptyBatch.rows = {} /\ EmptyBatch.files = 0 /\ EmptyBatch.bytes = 0
  BY FS_EmptySet DEF EmptyBatch, StagedBatch
<1>3. ASSUME NEW x \in StagedBatch
      PROVE  /\ AddFile(x, bytes, rows) \in StagedBatch
             /\ AddFile(x, bytes, rows).files = x.files + 1 /\ AddFile(x, bytes, rows).bytes = x.bytes + bytes
             /\ AddFile(x, bytes, rows).rows = x.rows \cup rows
  <2>1. x.files \in Nat /\ x.bytes \in Nat /\ x.rows \in SUBSET StagedRows /\ IsFiniteSet(x.rows)
    BY DEF StagedBatch
  <2>2. IsFiniteSet(x.rows \cup rows) /\ x.rows \cup rows \in SUBSET StagedRows
    BY <2>1, FS_Union
  <2> QED
    BY <2>1, <2>2 DEF AddFile, StagedBatch
<1>4. \A x \in StagedBatch :
        /\ FactsIn(AddFile(x, bytes, rows)) = FactsIn(x) \cup {row \in rows : row[1] = "facts"}
        /\ RowsIn(AddFile(x, bytes, rows), n) = RowsIn(x, n) \cup rows
        /\ \A m : m # n => RowsIn(AddFile(x, bytes, rows), m) = RowsIn(x, m)
  BY <1>3 DEF FactsIn, RowsIn
<1>5. CASE open = None
  <2>1. b = AddFile(EmptyBatch, bytes, rows) /\ done2 = done /\ s = done
    BY <1>5 DEF Opened, Finished, Rotated, BatchesOf
  <2> HIDE DEF b, s, done2
  <2>2. b \in StagedBatch /\ b # None
    BY <1>1, <1>2, <1>3, <2>1
  <2>3. t = Append(done, b)
    BY <2>1, <2>2 DEF BatchesOf
  <2> HIDE DEF t
  <2>4. /\ b.files = 1 /\ b.bytes = bytes /\ FactsIn(b) = {row \in rows : row[1] = "facts"}
        /\ RowsIn(b, n) = rows /\ \A m : m # n => RowsIn(b, m) = {}
    <3>1. FactsIn(EmptyBatch) = {} /\ \A m : RowsIn(EmptyBatch, m) = {}
      BY <1>2 DEF FactsIn, RowsIn
    <3>2. b.files = 0 + 1 /\ b.bytes = 0 + bytes
      BY <1>2, <1>3, <2>1
    <3>3. FactsIn(b) = {} \cup {row \in rows : row[1] = "facts"}
      BY <1>2, <1>4, <2>1, <3>1
    <3>4. RowsIn(b, n) = {} \cup rows /\ \A m : m # n => RowsIn(b, m) = {}
      BY <1>2, <1>4, <2>1, <3>1
    <3> QED
      BY <3>2, <3>3, <3>4
  <2>5. Len(t) = Len(done) + 1 /\ t[Len(t)] = b /\ \A q \in 1 .. Len(done) : t[q] = done[q]
    BY <2>2, <2>3
  <2>6. Len(done) \in Nat
    OBVIOUS
  <2>7. Grown(s, t, n) /\ t # <<>>
    BY <2>1, <2>3, <2>4, <2>5, <2>6 DEF Grown
  <2>8. InNone(s, n) => \A q \in 1 .. Len(t) - 1 : RowsIn(t[q], n) = {}
    <3>1. Len(t) - 1 = Len(done)
      BY <2>5, <2>6
    <3> QED
      BY <2>1, <2>5, <3>1, Zenon DEF InNone
  <2> QED
    BY <2>1, <2>2, <2>4, <2>5, <2>7, <2>8 DEF TakenInto, b, t, s, done2
<1>6. CASE open # None /\ IsFull(open, bytes)
  <2>1. b = AddFile(EmptyBatch, bytes, rows) /\ done2 = Append(done, open) /\ s = Append(done, open)
    BY <1>6 DEF Opened, Finished, Rotated, BatchesOf
  <2> HIDE DEF b, s, done2
  <2>2. b \in StagedBatch /\ b # None /\ open \in StagedBatch /\ done2 \in Seq(StagedBatch)
    BY <1>1, <1>2, <1>3, <1>6, <2>1
  <2>3. t = Append(done2, b)
    BY <2>1, <2>2 DEF BatchesOf
  <2> HIDE DEF t
  <2>4. /\ b.files = 1 /\ b.bytes = bytes /\ FactsIn(b) = {row \in rows : row[1] = "facts"}
        /\ RowsIn(b, n) = rows /\ \A m : m # n => RowsIn(b, m) = {}
    <3>1. FactsIn(EmptyBatch) = {} /\ \A m : RowsIn(EmptyBatch, m) = {}
      BY <1>2 DEF FactsIn, RowsIn
    <3>2. b.files = 0 + 1 /\ b.bytes = 0 + bytes
      BY <1>2, <1>3, <2>1
    <3>3. FactsIn(b) = {} \cup {row \in rows : row[1] = "facts"}
      BY <1>2, <1>4, <2>1, <3>1
    <3>4. RowsIn(b, n) = {} \cup rows /\ \A m : m # n => RowsIn(b, m) = {}
      BY <1>2, <1>4, <2>1, <3>1
    <3> QED
      BY <3>2, <3>3, <3>4
  <2>5. Len(t) = Len(done2) + 1 /\ t[Len(t)] = b /\ \A q \in 1 .. Len(done2) : t[q] = done2[q]
    BY <2>2, <2>3
  <2>6. Len(done2) \in Nat /\ s = done2
    BY <2>1, <2>2
  <2>7. Grown(s, t, n) /\ t # <<>>
    BY <2>3, <2>4, <2>5, <2>6 DEF Grown
  <2>8. InNone(s, n) => \A q \in 1 .. Len(t) - 1 : RowsIn(t[q], n) = {}
    <3>1. Len(t) - 1 = Len(s)
      BY <2>5, <2>6
    <3> QED
      BY <2>5, <2>6, <3>1, Zenon DEF InNone
  <2>9. \A p \in 1 .. Len(done2) :
          \/ p \in 1 .. Len(done) /\ done2[p] = done[p]
          \/ open # None /\ done2[p] = open
    BY <1>6, <2>1, <2>2
  <2> QED
    BY <2>2, <2>4, <2>5, <2>7, <2>8, <2>9 DEF TakenInto, b, t, s, done2
<1>7. CASE open # None /\ ~IsFull(open, bytes)
  <2>1. b = AddFile(open, bytes, rows) /\ done2 = done /\ s = Append(done, open) /\ open \in StagedBatch
    BY <1>7 DEF Opened, Finished, Rotated, BatchesOf
  <2> HIDE DEF b, s, done2
  <2>2. b \in StagedBatch /\ b # None
    BY <1>1, <1>3, <2>1
  <2>3. t = Append(done, b)
    BY <2>1, <2>2 DEF BatchesOf
  <2> HIDE DEF t
  <2>4. /\ b.files = open.files + 1 /\ b.bytes = open.bytes + bytes
        /\ FactsIn(b) = FactsIn(open) \cup {row \in rows : row[1] = "facts"}
        /\ RowsIn(b, n) = RowsIn(open, n) \cup rows /\ \A m : m # n => RowsIn(b, m) = RowsIn(open, m)
    BY <1>3, <1>4, <2>1
  <2>5. open.files < BatchFileLimit /\ open.bytes + bytes <= BatchByteLimit
    BY <1>7, <2>1, StagingAssumption DEF IsFull, StagedBatch
  <2>6. /\ Len(t) = Len(done) + 1 /\ t[Len(t)] = b /\ \A q \in 1 .. Len(done) : t[q] = done[q]
        /\ Len(s) = Len(done) + 1 /\ s[Len(s)] = open /\ \A q \in 1 .. Len(done) : s[q] = done[q]
        /\ Len(done) \in Nat
    BY <2>1, <2>2, <2>3
  <2>7. Grown(s, t, n) /\ t # <<>>
    BY <2>3, <2>4, <2>6 DEF Grown
  <2>8. InNone(s, n) => RowsIn(open, n) = {} /\ \A q \in 1 .. Len(t) - 1 : RowsIn(t[q], n) = {}
    <3>1. Len(t) - 1 = Len(done) /\ Len(s) \in 1 .. Len(s) /\ \A q \in 1 .. Len(done) : q \in 1 .. Len(s)
      BY <2>6
    <3> QED
      BY <2>6, <3>1, Zenon DEF InNone
  <2> QED
    BY <1>7, <2>1, <2>2, <2>4, <2>5, <2>6, <2>7, <2>8 DEF TakenInto, b, t, s, done2
<1> QED
  BY <1>5, <1>6, <1>7

(* The file at hand is finished in the open batch.                           *)
LEMMA FileFinished ==
  ASSUME NEW done \in Seq(StagedBatch), NEW open \in StagedBatch, NEW n, NEW bytes \in Nat,
         NEW estimate \in Nat, estimate <= open.bytes,
         NEW rows, rows \in SUBSET StagedRows, IsFiniteSet(rows), \A row \in rows : row[2] = n
  PROVE  LET b == FileRead(open, n, estimate, bytes, rows)
         IN  /\ b \in StagedBatch /\ b.files = open.files /\ b.bytes = open.bytes + bytes - estimate
             /\ FactsIn(b) = FactsIn(open) \cup {row \in rows : row[1] = "facts"}
             /\ RowsIn(b, n) = (RowsIn(open, n) \ {<<"files", n, 0>>}) \cup rows
             /\ Grown(Append(done, open), Append(done, b), n)
<1> DEFINE left == open.rows \ {<<"files", n, 0>>}
           b == FileRead(open, n, estimate, bytes, rows)
<1>1. /\ open = [files |-> open.files, bytes |-> open.bytes, rows |-> open.rows]
      /\ open.files \in Nat /\ open.bytes \in Nat /\ open.rows \in SUBSET StagedRows /\ IsFiniteSet(open.rows)
  BY DEF StagedBatch
<1>2. b = [files |-> open.files, bytes |-> open.bytes + bytes - estimate, rows |-> left \cup rows]
  <2> DEFINE c == FinishFile(open, estimate, bytes)
  <2>1. c = [files |-> open.files, bytes |-> open.bytes + bytes - estimate, rows |-> open.rows]
    BY <1>1 DEF FinishFile
  <2> HIDE DEF c
  <2>2. b = [c EXCEPT !.rows = left \cup rows]
    <3>1. c.rows = open.rows
      BY <2>1
    <3>2. b = [c EXCEPT !.rows = (c.rows \ {<<"files", n, 0>>}) \cup rows]
      BY DEF c, FileRead
    <3> QED
      BY <3>1, <3>2
  <2> HIDE DEF left, b
  <2> QED
    BY <2>1, <2>2
<1> HIDE DEF b
<1>3. b.files = open.files /\ b.bytes = open.bytes + bytes - estimate /\ b.rows = left \cup rows
  BY <1>2
<1>4. IsFiniteSet(left \cup rows) /\ left \cup rows \in SUBSET StagedRows
  BY <1>1, FS_Union, FS_RemoveElement
<1>5. open.bytes + bytes - estimate \in Nat
  BY <1>1
<1>6. b \in StagedBatch
  BY <1>1, <1>2, <1>4, <1>5 DEF StagedBatch
<1>7. FactsIn(b) = FactsIn(open) \cup {row \in rows : row[1] = "facts"}
  BY <1>3 DEF FactsIn
<1>8. RowsIn(b, n) = (RowsIn(open, n) \ {<<"files", n, 0>>}) \cup rows
  BY <1>3 DEF RowsIn
<1>9. \A m : m # n => RowsIn(b, m) = RowsIn(open, m)
  BY <1>3 DEF RowsIn
<1>10. /\ Len(done) \in Nat /\ Len(Append(done, open)) = Len(done) + 1 /\ Len(Append(done, b)) = Len(done) + 1
       /\ Append(done, open)[Len(done) + 1] = open /\ Append(done, b)[Len(done) + 1] = b
       /\ \A q \in 1 .. Len(done) : Append(done, open)[q] = done[q] /\ Append(done, b)[q] = done[q]
  BY <1>6
<1>11. Grown(Append(done, open), Append(done, b), n)
  BY <1>9, <1>10 DEF Grown
<1> QED
  BY <1>3, <1>6, <1>7, <1>8, <1>11 DEF b

(* A read: the row of what was read of a file, and its number of bytes.      *)
IsRead(n, bytes, row) ==
  \/ bytes \in FileSizes /\ bytes <= MaxFileBytes /\ row = <<"facts", n, bytes>>
  \/ bytes = 0 /\ row \in {<<"diagnostics", n, "file_too_large">>, <<"diagnostics", n, "unreadable_file">>}

LEMMA ReadIs ==
  ASSUME NEW n \in Nat, NEW bytes, NEW row, IsRead(n, bytes, row)
  PROVE  /\ row \in ReadsOf(n) /\ row \in StagedRows /\ RowOfFile(n, row) \in StagedRows
         /\ row[2] = n /\ RowOfFile(n, row)[2] = n /\ RowOfFile(n, row)[1] = "files"
         /\ bytes \in Nat /\ bytes <= MaxFileBytes
         /\ row[1] = "facts" => row[3] = bytes
         /\ row[1] # "facts" => bytes = 0
         /\ RowOfFile(n, row) = <<"files", n, bytes>>
<1>1. CASE bytes \in FileSizes /\ bytes <= MaxFileBytes /\ row = <<"facts", n, bytes>>
  <2>1. row[1] = "facts" /\ row[2] = n /\ row[3] = bytes
    BY <1>1
  <2>2. RowOfFile(n, row) = <<"files", n, bytes>>
    BY <2>1 DEF RowOfFile
  <2> QED
    BY <1>1, <2>1, <2>2, StagingAssumption DEF ReadsOf, StagedRows
<1>2. CASE bytes = 0 /\ row \in {<<"diagnostics", n, "file_too_large">>, <<"diagnostics", n, "unreadable_file">>}
  <2>1. row[1] = "diagnostics" /\ row[2] = n
    BY <1>2
  <2>2. RowOfFile(n, row) = <<"files", n, bytes>>
    BY <1>2, <2>1 DEF RowOfFile
  <2> QED
    BY <1>2, <2>1, <2>2, StagingAssumption DEF ReadsOf, StagedRows
<1> QED
  BY <1>1, <1>2 DEF IsRead

(* What a batch has read grows by what the read gave.                        *)
LEMMA ReadCounts ==
  ASSUME NEW b \in StagedBatch, NEW c \in StagedBatch, NEW n \in Nat, NEW bytes, NEW row, IsRead(n, bytes, row),
         FactsIn(c) = FactsIn(b) \cup {r \in {row} : r[1] = "facts"}, row \notin FactsIn(b)
  PROVE  BytesRead(c) = BytesRead(b) + bytes
<1>1. CASE row[1] = "facts"
  <2>1. FactsIn(c) = FactsIn(b) \cup {row} /\ row[3] = bytes
    BY <1>1, ReadIs
  <2> QED
    BY <2>1, BytesGrow
<1>2. CASE row[1] # "facts"
  <2>1. FactsIn(c) = FactsIn(b) /\ bytes = 0 /\ BytesRead(b) \in Nat
    BY <1>2, ReadIs, FactsWeighed
  <2> QED
    BY <2>1, BytesGrow
<1> QED
  BY <1>1, <1>2

(* The importer's batch after the read.                                      *)
ImporterAfter(native, importer, n, row, b) ==
  /\ b \in StagedBatch /\ OpenImporterInv(b, "staging.start", 0)
  /\ Grown(Append(native, importer), Append(native, b), n)
  /\ InOne(Append(native, b), n, {row, RowOfFile(n, row)})

LEMMA ImporterReads ==
  ASSUME NEW native \in Seq(StagedBatch), NEW importer \in StagedBatch, NEW n \in Nat, NEW bytes, NEW row,
         NEW estimate \in Nat, IsRead(n, bytes, row), OpenImporterInv(importer, "staging.read", estimate),
         RowsIn(importer, n) = {<<"files", n, 0>>}, \A q \in 1 .. Len(native) : RowsIn(native[q], n) = {}
  PROVE  ImporterAfter(native, importer, n, row,
                       FileRead(importer, n, estimate, bytes, {row, RowOfFile(n, row)}))
<1>0. /\ row \in ReadsOf(n) /\ row \in StagedRows /\ RowOfFile(n, row) \in StagedRows
      /\ row[2] = n /\ RowOfFile(n, row)[2] = n /\ RowOfFile(n, row)[1] = "files"
      /\ bytes \in Nat /\ bytes <= MaxFileBytes
  BY ReadIs
<1> DEFINE rows == {row, RowOfFile(n, row)}
           b == FileRead(importer, n, estimate, bytes, rows)
<1>1. /\ row \in StagedRows /\ RowOfFile(n, row) \in StagedRows /\ RowOfFile(n, row)[1] = "files"
      /\ row[2] = n /\ RowOfFile(n, row)[2] = n /\ bytes \in Nat /\ bytes <= MaxFileBytes
  BY <1>0
<1>2. rows \in SUBSET StagedRows /\ IsFiniteSet(rows) /\ \A r \in rows : r[2] = n
  <2>1. IsFiniteSet({row} \cup {RowOfFile(n, row)})
    BY FS_Singleton, FS_AddElement
  <2>2. rows = {row} \cup {RowOfFile(n, row)}
    OBVIOUS
  <2> QED
    BY <1>1, <2>1, <2>2
<1>3. /\ NativeWithin(importer) /\ importer.bytes = BytesRead(importer) + estimate
      /\ BytesRead(importer) <= BatchByteLimit /\ BytesRead(importer) \in Nat
  BY NoneIsNoBatch, FactsWeighed DEF OpenImporterInv
<1>4. estimate <= importer.bytes
  BY <1>3
<1> HIDE DEF rows
<1>5. /\ b \in StagedBatch /\ b.files = importer.files /\ b.bytes = importer.bytes + bytes - estimate
      /\ FactsIn(b) = FactsIn(importer) \cup {r \in rows : r[1] = "facts"}
      /\ RowsIn(b, n) = (RowsIn(importer, n) \ {<<"files", n, 0>>}) \cup rows
      /\ Grown(Append(native, importer), Append(native, b), n)
  BY <1>1, <1>2, <1>4, FileFinished
<1> HIDE DEF b
<1>6. RowsIn(b, n) = rows
  BY <1>5
<1>7. {r \in rows : r[1] = "facts"} = {r \in {row} : r[1] = "facts"}
  BY <1>1 DEF rows
<1>8. row \notin FactsIn(importer)
  BY <1>1 DEF FactsIn, RowsIn
<1>9. BytesRead(b) = BytesRead(importer) + bytes
  BY <1>5, <1>7, <1>8, ReadCounts
<1>10. b.files <= BatchFileLimit /\ BytesRead(b) <= BatchByteLimit + MaxFileBytes
  BY <1>1, <1>3, <1>5, <1>9, StagingAssumption DEF NativeWithin
<1>11. b.bytes = BytesRead(b)
  BY <1>1, <1>3, <1>5, <1>9
<1>12. OpenImporterInv(b, "staging.start", 0)
  BY <1>10, <1>11 DEF OpenImporterInv, NativeWithin
<1>13. InOne(Append(native, b), n, rows)
  <2>1. /\ Len(native) \in Nat /\ Len(Append(native, b)) = Len(native) + 1
        /\ Append(native, b)[Len(native) + 1] = b
        /\ \A q \in 1 .. Len(native) : Append(native, b)[q] = native[q]
    BY <1>5
  <2> DEFINE t == Append(native, b)
  <2>2. \A q \in 1 .. Len(t) : q # Len(native) + 1 => RowsIn(t[q], n) = {}
    <3> SUFFICES ASSUME NEW q \in 1 .. Len(t), q # Len(native) + 1 PROVE RowsIn(t[q], n) = {}
      OBVIOUS
    <3>1. q \in 1 .. Len(native)
      BY <2>1
    <3> QED
      BY <2>1, <3>1
  <2>3. Len(native) + 1 \in 1 .. Len(t) /\ RowsIn(t[Len(native) + 1], n) = rows
    BY <1>6, <2>1
  <2> HIDE DEF t
  <2>4. InOne(t, n, rows)
    BY <2>2, <2>3 DEF InOne
  <2> QED
    BY <2>4 DEF t
<1> QED
  BY <1>5, <1>12, <1>13 DEF ImporterAfter, b, rows

(* The spool that takes the read of an ordinary source.                      *)
SpoolAfter(spools, spool, n, row, spools2, b) ==
  /\ b \in StagedBatch /\ spools2 \in Seq(StagedBatch) /\ OpenSpoolInv(b)
  /\ \A p \in 1 .. Len(spools2) : SpoolWithin(spools2[p])
  /\ Grown(BatchesOf(spools, spool), BatchesOf(spools2, b), n)
  /\ InOne(BatchesOf(spools2, b), n, {row})

LEMMA SpoolTakes ==
  ASSUME NEW spools \in Seq(StagedBatch), NEW spool \in StagedBatch \cup {None}, NEW n \in Nat, NEW bytes, NEW row,
         IsRead(n, bytes, row), OpenSpoolInv(spool), InNone(BatchesOf(spools, spool), n),
         \A p \in 1 .. Len(spools) : SpoolWithin(spools[p])
  PROVE  SpoolAfter(spools, spool, n, row, Finished(spools, spool, bytes),
                    AddFile(Opened(spool, bytes), bytes, {row}))
<1> DEFINE b == AddFile(Opened(spool, bytes), bytes, {row})
           spools2 == Finished(spools, spool, bytes)
           s == BatchesOf(spools, spool)
           t == BatchesOf(spools2, b)
<1>1. row \in StagedRows /\ row[2] = n /\ bytes \in Nat /\ bytes <= MaxFileBytes
  BY ReadIs
<1>2. {row} \in SUBSET StagedRows /\ IsFiniteSet({row}) /\ \A r \in {row} : r[2] = n
  BY <1>1, FS_Singleton
<1>9. TakenInto(spools, spool, bytes, n, {row}, b, spools2)
  <2> DEFINE rows == {row}
  <2>1. rows \in SUBSET StagedRows /\ IsFiniteSet(rows) /\ \A r \in rows : r[2] = n
    BY <1>2
  <2> HIDE DEF rows
  <2>2. TakenInto(spools, spool, bytes, n, rows, AddFile(Opened(spool, bytes), bytes, rows),
                  Finished(spools, spool, bytes))
    BY <1>1, <2>1, FileTaken
  <2> QED
    BY <2>2 DEF rows
<1> HIDE DEF b, spools2
<1>3. /\ b \in StagedBatch /\ b # None /\ spools2 \in Seq(StagedBatch)
      /\ Grown(s, t, n) /\ t[Len(t)] = b /\ t # <<>>
      /\ InNone(s, n) => /\ RowsIn(b, n) = {row}
                         /\ \A q \in 1 .. Len(t) - 1 : RowsIn(t[q], n) = {}
      /\ \A p \in 1 .. Len(spools2) :
           \/ p \in 1 .. Len(spools) /\ spools2[p] = spools[p]
           \/ spool # None /\ spools2[p] = spool
      /\ \/ /\ b.files = 1 /\ b.bytes = bytes /\ FactsIn(b) = {r \in {row} : r[1] = "facts"}
         \/ /\ spool # None /\ spool.files < BatchFileLimit /\ spool.bytes + bytes <= BatchByteLimit
            /\ b.files = spool.files + 1 /\ b.bytes = spool.bytes + bytes
            /\ FactsIn(b) = FactsIn(spool) \cup {r \in {row} : r[1] = "facts"}
            /\ InNone(s, n) => RowsIn(spool, n) = {}
  BY <1>9 DEF TakenInto
<1> HIDE DEF s, t
<1>4. InNone(s, n)
  BY DEF s
<1>5. \A p \in 1 .. Len(spools2) : SpoolWithin(spools2[p])
  BY <1>3 DEF OpenSpoolInv
<1>6. SpoolWithin(b) /\ b.bytes = BytesRead(b)
  <2>1. CASE b.files = 1 /\ b.bytes = bytes /\ FactsIn(b) = {r \in {row} : r[1] = "facts"}
    <3>1. EmptyBatch \in StagedBatch /\ FactsIn(EmptyBatch) = {}
      BY FS_EmptySet DEF EmptyBatch, StagedBatch, FactsIn
    <3>2. BytesRead(EmptyBatch) = 0
      BY <3>1, BytesGrow
    <3>3. BytesRead(b) = 0 + bytes
      BY <1>3, <2>1, <3>1, <3>2, ReadCounts
    <3>4. CASE row[1] = "facts"
      <4>1. FactsIn(b) = {row}
        BY <2>1, <3>4
      <4>2. Cardinality(FactsIn(b)) = 1
        BY <4>1, FS_Singleton
      <4> QED
        BY <1>1, <2>1, <3>3, <4>2, StagingAssumption DEF SpoolWithin
    <3>5. CASE row[1] # "facts"
      <4>1. bytes = 0
        BY <3>5, ReadIs
      <4> QED
        BY <2>1, <3>3, <4>1, StagingAssumption DEF SpoolWithin
    <3> QED
      BY <3>4, <3>5
  <2>2. CASE /\ spool # None /\ spool.files < BatchFileLimit /\ spool.bytes + bytes <= BatchByteLimit
             /\ b.files = spool.files + 1 /\ b.bytes = spool.bytes + bytes
             /\ FactsIn(b) = FactsIn(spool) \cup {r \in {row} : r[1] = "facts"}
             /\ RowsIn(spool, n) = {}
    <3>1. spool \in StagedBatch /\ spool.bytes = BytesRead(spool) /\ spool.files \in Nat
      BY <2>2 DEF OpenSpoolInv, StagedBatch
    <3>2. row \notin FactsIn(spool)
      BY <1>1, <2>2 DEF FactsIn, RowsIn
    <3>3. BytesRead(b) = BytesRead(spool) + bytes
      BY <1>3, <2>2, <3>1, <3>2, ReadCounts
    <3>4. BytesRead(b) <= BatchByteLimit /\ b.files <= BatchFileLimit
      BY <2>2, <3>1, <3>3, StagingAssumption
    <3> QED
      BY <2>2, <3>1, <3>3, <3>4 DEF SpoolWithin
  <2> QED
    BY <1>3, <1>4, <2>1, <2>2
<1>7. InOne(t, n, {row})
  <2>1. Len(t) \in Nat \ {0}
    BY <1>3 DEF Grown
  <2>2. \A q \in 1 .. Len(t) : q # Len(t) => q \in 1 .. Len(t) - 1
    BY <2>1
  <2>3. Len(t) \in 1 .. Len(t) /\ RowsIn(t[Len(t)], n) = {row}
    BY <1>3, <1>4, <2>1
  <2> QED
    BY <1>3, <1>4, <2>2, <2>3 DEF InOne
<1> QED
  BY <1>3, <1>5, <1>6, <1>7 DEF SpoolAfter, OpenSpoolInv, b, spools2, s, t

-----------------------------------------------------------------------------
(* The steps of staging.                                                     *)
LEMMA StagingTypes ==
  ASSUME StagingTypeOK, progress.pc \in StagingPcs
  PROVE  /\ progress # Idle
         /\ request.native \in Seq(StagedBatch) /\ request.spools \in Seq(StagedBatch)
         /\ progress.file \in Nat \ {0} /\ progress.estimate \in Nat /\ progress.estimate <= MaxFileBytes
         /\ progress.importer \in StagedBatch \cup {None} /\ progress.spool \in StagedBatch \cup {None}
         /\ request.files \in Seq({"source", "markdown", "native"}) /\ Len(request.files) \in Nat
<1>1. progress # Idle
  BY DEF Idle, StagingPcs
<1>2. request.files \in Seq({"source", "markdown", "native"})
  BY StagingAssumption DEF StagingTypeOK
<1> QED
  BY <1>1, <1>2 DEF StagingTypeOK

LEMMA StagingBegins ==
  ASSUME StagingInv, BeginExtraction
  PROVE  StagingInv'
<1>1. /\ request' = request /\ progress = Idle /\ request.status = "new"
      /\ progress' = [pc |-> "staging.start", file |-> 1, importer |-> None, spool |-> None, estimate |-> 0]
  <2>1. progress.pc = "idle"
    BY DEF BeginExtraction, Asked
  <2>2. progress = Idle
    BY <2>1 DEF StagingInv, StagingTypeOK, StagingPcs
  <2> QED
    BY <2>2 DEF BeginExtraction, Asked
<1>2. request.native = <<>> /\ request.spools = <<>> /\ request.markdown = {}
  BY <1>1 DEF StagingInv
<1>3. progress' # Idle
  BY <1>1 DEF Idle
<1>4. StagingTypeOK'
  <2>1. 0 <= MaxFileBytes
    BY StagingAssumption
  <2> QED
    BY <1>1, <2>1 DEF StagingInv, StagingTypeOK, StagingPcs
<1>5. LimitsInv'
  BY <1>1 DEF StagingInv, LimitsInv
<1>6. OpenImporterInv(progress.importer, progress.pc, progress.estimate)' /\ OpenSpoolInv(progress.spool)'
  BY <1>1 DEF OpenImporterInv, OpenSpoolInv
<1>7. StagedInv(progress.pc, progress.file, BatchesOf(request.native, progress.importer),
               BatchesOf(request.spools, progress.spool))'
  <2>1. BatchesOf(request.native, progress.importer)' = <<>> /\ BatchesOf(request.spools, progress.spool)' = <<>>
    BY <1>1, <1>2 DEF BatchesOf
  <2>2. \A m : Unstaged(<<>>, <<>>, {}, m)
    BY DEF Unstaged, InNone, MarkdownOf
  <2>3. /\ progress'.pc = "staging.start" /\ progress'.file = 1 /\ request'.markdown = {}
        /\ ~ \E m \in 1 .. 1 - 1 : TRUE
    BY <1>1, <1>2
  <2> QED
    BY <2>1, <2>2, <2>3 DEF StagedInv
<1> QED
  BY <1>1, <1>3, <1>4, <1>5, <1>6, <1>7 DEF StagingInv

LEMMA SourceStarts ==
  ASSUME StagingInv, StartSource
  PROVE  StagingInv'
<1> DEFINE n == progress.file
           importer == progress.importer
           native == request.native
           row == <<"files", n, 0>>
           rows == {row}
<1>1. progress.pc = "staging.start" /\ progress.pc \in StagingPcs /\ n <= Len(request.files)
  BY DEF StartSource, StagingPcs
<1>2. /\ progress # Idle /\ native \in Seq(StagedBatch) /\ n \in Nat \ {0}
      /\ importer \in StagedBatch \cup {None} /\ Len(request.files) \in Nat
  BY <1>1, StagingTypes DEF StagingInv
<1>3. PICK estimate \in {Estimate(size) : size \in FileSizes \cup {None}} :
        /\ request' = [request EXCEPT !.native = Finished(@, importer, estimate)]
        /\ progress' = [progress EXCEPT !.pc = "staging.read", !.estimate = estimate,
                          !.importer = AddFile(Opened(@, estimate), estimate, {row})]
  BY DEF StartSource
<1>4. estimate \in Nat /\ estimate <= MaxFileBytes
  <2>1. PICK size \in FileSizes \cup {None} : estimate = Estimate(size)
    BY <1>3
  <2>2. CASE size = None \/ size > MaxFileBytes
    BY <2>1, <2>2, StagingAssumption DEF Estimate
  <2>3. CASE ~(size = None \/ size > MaxFileBytes)
    BY <2>1, <2>3, StagingAssumption DEF Estimate
  <2> QED
    BY <2>2, <2>3
<1> DEFINE b == AddFile(Opened(importer, estimate), estimate, rows)
           native2 == Finished(native, importer, estimate)
<1>5. /\ request' = [tool |-> "staging", files |-> request.files, native |-> native2, spools |-> request.spools,
                     markdown |-> request.markdown, status |-> request.status]
      /\ progress' = [pc |-> "staging.read", file |-> n, importer |-> b, spool |-> progress.spool,
                      estimate |-> estimate]
  <2>1. /\ request = [tool |-> "staging", files |-> request.files, native |-> request.native,
                      spools |-> request.spools, markdown |-> request.markdown, status |-> request.status]
        /\ progress = [pc |-> progress.pc, file |-> progress.file, importer |-> progress.importer,
                       spool |-> progress.spool, estimate |-> progress.estimate]
    BY <1>2 DEF StagingInv, StagingTypeOK
  <2> DEFINE c == [progress EXCEPT !.pc = "staging.read", !.estimate = estimate]
  <2> HIDE DEF b, native2
  <2>2. request' = [request EXCEPT !.native = native2]
    BY <1>3 DEF native2
  <2>3. progress' = [c EXCEPT !.importer = b]
    BY <1>3 DEF b
  <2>4. c = [pc |-> "staging.read", file |-> progress.file, importer |-> progress.importer,
             spool |-> progress.spool, estimate |-> estimate]
    <3> DEFINE a == [progress EXCEPT !.pc = "staging.read"]
    <3>1. a = [pc |-> "staging.read", file |-> progress.file, importer |-> progress.importer,
               spool |-> progress.spool, estimate |-> progress.estimate]
      BY <2>1
    <3>2. c = [a EXCEPT !.estimate = estimate]
      OBVIOUS
    <3> HIDE DEF a, c
    <3> QED
      BY <3>1, <3>2
  <2> HIDE DEF c
  <2>5. progress' = [pc |-> "staging.read", file |-> n, importer |-> b, spool |-> progress.spool,
                     estimate |-> estimate]
    BY <2>3, <2>4
  <2>6. request' = [tool |-> "staging", files |-> request.files, native |-> native2, spools |-> request.spools,
                    markdown |-> request.markdown, status |-> request.status]
    <3> HIDE DEF native, n, importer
    <3> QED
      BY <2>1, <2>2
  <2> QED
    BY <2>5, <2>6
<1>6. TakenInto(native, importer, estimate, n, rows, b, native2)
  <2>1. rows \in SUBSET StagedRows /\ IsFiniteSet(rows) /\ \A r \in rows : r[2] = n
    <3>1. row \in StagedRows
      BY <1>2 DEF StagedRows
    <3>2. row[2] = n
      OBVIOUS
    <3> HIDE DEF row, n
    <3> QED
      BY <3>1, <3>2, FS_Singleton
  <2> HIDE DEF rows, native, importer
  <2> QED
    BY <1>2, <1>4, <2>1, FileTaken
<1>7. {r \in rows : r[1] = "facts"} = {}
  OBVIOUS
<1> HIDE DEF b, native2, rows
<1> DEFINE s == BatchesOf(native, importer)
           t == BatchesOf(native2, b)
<1>8. /\ b \in StagedBatch /\ b # None /\ native2 \in Seq(StagedBatch)
      /\ Grown(s, t, n) /\ t[Len(t)] = b /\ t # <<>>
      /\ InNone(s, n) => /\ RowsIn(b, n) = rows
                         /\ \A q \in 1 .. Len(t) - 1 : RowsIn(t[q], n) = {}
      /\ \A p \in 1 .. Len(native2) :
           \/ p \in 1 .. Len(native) /\ native2[p] = native[p]
           \/ importer # None /\ native2[p] = importer
      /\ \/ /\ b.files = 1 /\ b.bytes = estimate /\ FactsIn(b) = {}
         \/ /\ importer # None /\ importer.files < BatchFileLimit /\ importer.bytes + estimate <= BatchByteLimit
            /\ b.files = importer.files + 1 /\ b.bytes = importer.bytes + estimate
            /\ FactsIn(b) = FactsIn(importer)
  BY <1>6, <1>7 DEF TakenInto
<1> HIDE DEF s, t
<1>9. StagingTypeOK'
  <2>1. "staging.read" \in StagingPcs
    BY DEF StagingPcs
  <2> QED
    BY <1>2, <1>4, <1>5, <1>8, <2>1 DEF StagingInv, StagingTypeOK
<1>10. LimitsInv'
  BY <1>2, <1>5, <1>8 DEF StagingInv, LimitsInv, OpenImporterInv
<1>11. OpenImporterInv(b, "staging.read", estimate)
  <2>1. BytesRead(b) \in Nat
    BY <1>8, FactsWeighed
  <2>2. CASE b.files = 1 /\ b.bytes = estimate /\ FactsIn(b) = {}
    <3>1. BytesRead(b) = 0
      BY <1>8, <2>2, BytesGrow
    <3> QED
      BY <1>4, <2>2, <3>1, StagingAssumption DEF OpenImporterInv, NativeWithin
  <2>3. CASE /\ importer # None /\ importer.files < BatchFileLimit /\ importer.bytes + estimate <= BatchByteLimit
             /\ b.files = importer.files + 1 /\ b.bytes = importer.bytes + estimate
             /\ FactsIn(b) = FactsIn(importer)
    <3>1. importer \in StagedBatch /\ importer.files \in Nat /\ importer.bytes = BytesRead(importer)
      BY <1>1, <1>2, <2>3 DEF StagingInv, OpenImporterInv, StagedBatch
    <3>2. BytesRead(b) = BytesRead(importer)
      BY <1>8, <2>3, <3>1, BytesGrow
    <3>3. BytesRead(b) <= BatchByteLimit /\ BytesRead(b) <= BatchByteLimit + MaxFileBytes
      BY <1>4, <2>1, <2>3, <3>1, <3>2, StagingAssumption
    <3> QED
      BY <2>3, <3>1, <3>2, <3>3, StagingAssumption DEF OpenImporterInv, NativeWithin
  <2> QED
    BY <1>8, <2>2, <2>3
<1>12. StagedInv("staging.start", n, s, BatchesOf(request.spools, progress.spool))
  BY <1>1, <1>2 DEF StagingInv, s
<1>13. StagedInv(progress.pc, progress.file, BatchesOf(request.native, progress.importer),
                BatchesOf(request.spools, progress.spool))'
  <2> DEFINE u == BatchesOf(request.spools, progress.spool)
  <2>1. /\ BatchesOf(request.native, progress.importer)' = t /\ u' = u /\ progress'.pc = "staging.read"
        /\ progress'.file = n /\ progress'.importer = b /\ request'.files = request.files
        /\ request'.markdown = request.markdown
    BY <1>5 DEF t
  <2> HIDE DEF u
  <2>2. \A m \in 1 .. n - 1 : m \in 1 .. Len(request.files) /\ Staged(t, u, request.markdown, m, request.files[m])
    <3> TAKE m \in 1 .. n - 1
    <3>1. m # n /\ m \in 1 .. Len(request.files) /\ Staged(s, u, request.markdown, m, request.files[m])
      BY <1>2, <1>12 DEF StagedInv, u
    <3>2. \A kind : Staged(s, u, request.markdown, m, kind) => Staged(t, u, request.markdown, m, kind)
      BY <1>8, <3>1, FilesKept DEF Refilled
    <3> QED
      BY <3>1, <3>2
  <2>3. n \in 1 .. Len(request.files) /\ Unstaged(s, u, request.markdown, n)
    BY <1>1, <1>2, <1>12 DEF StagedInv, u
  <2>4. Begun(t, u, request.markdown, n)
    <3>1. Len(t) - 1 \in Int /\ RowsIn(t[Len(t)], n) = {<<"files", n, 0>>}
      BY <1>8, <2>3 DEF Unstaged, Grown, rows
    <3> QED
      BY <1>8, <2>3, <3>1 DEF Unstaged, Begun
  <2>5. \A m \in n + 1 .. Len(request.files) : Unstaged(t, u, request.markdown, m)
    <3> TAKE m \in n + 1 .. Len(request.files)
    <3>1. m # n /\ Unstaged(s, u, request.markdown, m)
      BY <1>2, <1>12 DEF StagedInv, u
    <3> QED
      BY <1>8, <3>1, FilesKept DEF Refilled
  <2> HIDE DEF n
  <2> QED
    BY <1>8, <2>1, <2>2, <2>3, <2>4, <2>5 DEF StagedInv, u
<1> QED
  <2>1. progress' # Idle /\ request'.status = "new"
    BY <1>2, <1>5 DEF Idle, StagingInv
  <2>2. OpenSpoolInv(progress.spool)' /\ OpenImporterInv(progress.importer, progress.pc, progress.estimate)'
    BY <1>2, <1>5, <1>11 DEF StagingInv
  <2> QED
    BY <1>9, <1>10, <1>13, <2>1, <2>2 DEF StagingInv

LEMMA SourceRead ==
  ASSUME StagingInv, ReadSource
  PROVE  StagingInv'
<1> DEFINE n == progress.file
           importer == progress.importer
           native == request.native
           spool == progress.spool
           spools == request.spools
           estimate == progress.estimate
           kind == request.files[n]
<1>1. progress.pc = "staging.read" /\ progress.pc \in StagingPcs
  BY DEF ReadSource, StagingPcs
<1>2. /\ progress # Idle /\ native \in Seq(StagedBatch) /\ n \in Nat \ {0} /\ spools \in Seq(StagedBatch)
      /\ importer \in StagedBatch \cup {None} /\ spool \in StagedBatch \cup {None}
      /\ estimate \in Nat /\ Len(request.files) \in Nat
  BY <1>1, StagingTypes DEF StagingInv
<1>3. PICK bytes, row :
        IsRead(n, bytes, row) /\ EndSource(kind, n, bytes, {row, RowOfFile(n, row)}, row)
  <2>1. ASSUME NEW size \in {x \in FileSizes : x <= MaxFileBytes},
               EndSource(kind, n, size, ReadRows(n, size), <<"facts", n, size>>)
        PROVE  \E bytes, row : IsRead(n, bytes, row) /\ EndSource(kind, n, bytes, {row, RowOfFile(n, row)}, row)
    <3> DEFINE read == <<"facts", n, size>>
    <3>1. IsRead(n, size, read)
      BY DEF IsRead
    <3>2. ReadRows(n, size) = {read, RowOfFile(n, read)}
      BY DEF ReadRows, RowOfFile
    <3>3. EndSource(kind, n, size, {read, RowOfFile(n, read)}, read)
      BY <2>1, <3>2
    <3> HIDE DEF read
    <3> QED
      BY <3>1, <3>3
  <2>2. ASSUME NEW category \in {"file_too_large", "unreadable_file"},
               EndSource(kind, n, 0, Unread(n, category), <<"diagnostics", n, category>>)
        PROVE  \E bytes, row : IsRead(n, bytes, row) /\ EndSource(kind, n, bytes, {row, RowOfFile(n, row)}, row)
    <3> DEFINE read == <<"diagnostics", n, category>>
    <3>1. IsRead(n, 0, read)
      BY DEF IsRead
    <3>2. Unread(n, category) = {read, RowOfFile(n, read)}
      BY DEF Unread, RowOfFile
    <3>3. EndSource(kind, n, 0, {read, RowOfFile(n, read)}, read)
      BY <2>2, <3>2
    <3> HIDE DEF read
    <3> QED
      BY <3>1, <3>3
  <2> QED
    BY <2>1, <2>2 DEF ReadSource
<1> DEFINE rows == {row, RowOfFile(n, row)}
           b == FileRead(importer, n, estimate, bytes, rows)
           spool2 == SpoolNow(kind, bytes, row)
           spools2 == SpoolsNow(kind, bytes)
           added == IF kind = "markdown" /\ row[1] = "facts" THEN {<<n, bytes>>} ELSE {}
           markdown2 == request.markdown \cup added
<1>4. /\ request' = [tool |-> "staging", files |-> request.files, native |-> native, spools |-> spools2,
                     markdown |-> markdown2, status |-> request.status]
      /\ progress' = [pc |-> "staging.start", file |-> n + 1, importer |-> b, spool |-> spool2, estimate |-> 0]
  <2>1. /\ request = [tool |-> "staging", files |-> request.files, native |-> request.native,
                      spools |-> request.spools, markdown |-> request.markdown, status |-> request.status]
        /\ progress = [pc |-> progress.pc, file |-> progress.file, importer |-> progress.importer,
                       spool |-> progress.spool, estimate |-> progress.estimate]
    BY <1>2 DEF StagingInv, StagingTypeOK
  <2> DEFINE one == [progress EXCEPT !.pc = "staging.start"]
             two == [one EXCEPT !.file = @ + 1]
             three == [two EXCEPT !.estimate = 0]
             four == [three EXCEPT !.spool = spool2]
             asked == [request EXCEPT !.spools = spools2]
  <2>2. /\ progress' = [four EXCEPT !.importer = FileRead(@, n, estimate, bytes, rows)]
        /\ request' = [asked EXCEPT !.markdown = @ \cup added]
    BY <1>3 DEF EndSource
  <2> HIDE DEF spool2, spools2, added
  <2>3. asked = [tool |-> "staging", files |-> request.files, native |-> request.native,
                 spools |-> spools2, markdown |-> request.markdown, status |-> request.status]
    BY <2>1
  <2> HIDE DEF asked
  <2>4. request' = [tool |-> "staging", files |-> request.files, native |-> native, spools |-> spools2,
                    markdown |-> markdown2, status |-> request.status]
    BY <2>2, <2>3
  <2>5. one = [pc |-> "staging.start", file |-> n, importer |-> importer, spool |-> spool, estimate |-> estimate]
    BY <2>1
  <2> HIDE DEF one, n, importer, spool, estimate
  <2>6. two = [pc |-> "staging.start", file |-> n + 1, importer |-> importer, spool |-> spool, estimate |-> estimate]
    BY <2>5
  <2> HIDE DEF two
  <2>7. three = [pc |-> "staging.start", file |-> n + 1, importer |-> importer, spool |-> spool, estimate |-> 0]
    BY <2>6
  <2> HIDE DEF three
  <2>8. four = [pc |-> "staging.start", file |-> n + 1, importer |-> importer, spool |-> spool2, estimate |-> 0]
    BY <2>7
  <2> HIDE DEF four
  <2>9. progress' = [four EXCEPT !.importer = b]
    <3>1. four.importer = importer
      BY <2>8
    <3> HIDE DEF rows
    <3> QED
      BY <2>2, <3>1
  <2> HIDE DEF b
  <2> QED
    BY <2>4, <2>8, <2>9
<1> DEFINE s == BatchesOf(native, importer)
           u == BatchesOf(spools, spool)
           t == BatchesOf(native, b)
           v == BatchesOf(spools2, spool2)
<1>5. StagedInv("staging.read", n, s, u)
  BY <1>1, <1>2 DEF StagingInv
<1>6. /\ n \in 1 .. Len(request.files) /\ importer \in StagedBatch /\ s = Append(native, importer)
      /\ InNone(u, n) /\ MarkdownOf(request.markdown, n) = {}
      /\ RowsIn(importer, n) = {<<"files", n, 0>>} /\ \A q \in 1 .. Len(native) : RowsIn(native[q], n) = {}
  <2> HIDE DEF u, n
  <2>1. importer \in StagedBatch /\ s = Append(native, importer) /\ n \in 1 .. Len(request.files)
    BY <1>2, <1>5 DEF StagedInv, BatchesOf
  <2>2. Begun(s, u, request.markdown, n)
    BY <1>5 DEF StagedInv
  <2> HIDE DEF s, native, importer
  <2>3. /\ Len(s) = Len(native) + 1 /\ s[Len(s)] = importer /\ Len(native) \in Nat
        /\ \A q \in 1 .. Len(native) : s[q] = native[q]
    BY <1>2, <2>1
  <2>4. \A q \in 1 .. Len(native) : RowsIn(s[q], n) = {}
    <3>1. Len(s) - 1 = Len(native)
      BY <2>3
    <3> QED
      BY <2>2, <2>3, <3>1 DEF Begun
  <2> QED
    BY <2>1, <2>2, <2>3, <2>4 DEF Begun
<1>7. /\ b \in StagedBatch /\ OpenImporterInv(b, "staging.start", 0) /\ t = Append(native, b)
      /\ Grown(s, t, n) /\ InOne(t, n, rows)
  <2>1. OpenImporterInv(importer, "staging.read", estimate)
    BY <1>1, <1>2 DEF StagingInv
  <2>2. ImporterAfter(native, importer, n, row, b)
    <3> HIDE DEF native, importer, n, estimate
    <3> QED
      BY <1>2, <1>3, <1>6, <2>1, ImporterReads
  <2>3. b \in StagedBatch /\ t = Append(native, b)
    <3> HIDE DEF b
    <3> QED
      BY <2>2, NoneIsNoBatch DEF ImporterAfter, BatchesOf
  <2> HIDE DEF b, t, s, native, importer, n
  <2> QED
    BY <1>6, <2>2, <2>3 DEF ImporterAfter
<1>8. /\ spool2 \in StagedBatch \cup {None} /\ spools2 \in Seq(StagedBatch) /\ OpenSpoolInv(spool2)
      /\ \A p \in 1 .. Len(spools2) : SpoolWithin(spools2[p])
      /\ Grown(u, v, n) \/ v = u
      /\ IF kind = "source" THEN InOne(v, n, {row}) ELSE InNone(v, n)
  <2>1. OpenSpoolInv(spool) /\ \A p \in 1 .. Len(spools) : SpoolWithin(spools[p])
    BY <1>2 DEF StagingInv, LimitsInv
  <2>2. CASE kind = "source"
    <3>1. spool2 = AddFile(Opened(spool, bytes), bytes, {row}) /\ spools2 = Finished(spools, spool, bytes)
      BY <2>2 DEF SpoolNow, SpoolsNow
    <3> HIDE DEF spool2, spools2, spool, spools, n, kind
    <3>2. SpoolAfter(spools, spool, n, row, spools2, spool2)
      BY <1>2, <1>3, <1>6, <2>1, <3>1, SpoolTakes DEF u
    <3> QED
      BY <2>2, <3>2 DEF SpoolAfter, u, v
  <2>3. CASE kind # "source"
    <3>1. spool2 = spool /\ spools2 = spools
      BY <2>3 DEF SpoolNow, SpoolsNow
    <3> HIDE DEF spool2, spools2, spool, spools, n, kind
    <3> QED
      BY <1>2, <1>6, <2>1, <2>3, <3>1 DEF u, v
  <2> QED
    BY <2>2, <2>3
<1>9. /\ MarkdownOf(markdown2, n) = added
      /\ \A m : m # n => MarkdownOf(markdown2, m) = MarkdownOf(request.markdown, m)
  <2>1. \A z \in added : z[1] = n
    OBVIOUS
  <2> HIDE DEF added, n
  <2> QED
    BY <1>6, <2>1 DEF MarkdownOf
<1>10. Staged(t, v, markdown2, n, kind)
  <2>1. row \in ReadsOf(n) /\ (row[1] = "facts" => row[3] = bytes)
    BY <1>2, <1>3, ReadIs
  <2>2. added = IF kind = "markdown" /\ row[1] = "facts" THEN {<<n, row[3]>>} ELSE {}
    BY <2>1
  <2> HIDE DEF added, markdown2, n, kind, t, v
  <2> QED
    BY <1>7, <1>8, <1>9, <2>1, <2>2 DEF Staged
<1>11. StagingTypeOK'
  <2>1. "staging.start" \in StagingPcs /\ 0 <= MaxFileBytes
    BY StagingAssumption DEF StagingPcs
  <2> HIDE DEF b, spool2, spools2, markdown2
  <2> QED
    BY <1>2, <1>4, <1>7, <1>8, <2>1 DEF StagingInv, StagingTypeOK
<1>12. LimitsInv'
  <2> HIDE DEF b, spool2, spools2, markdown2
  <2> QED
    BY <1>4, <1>8 DEF StagingInv, LimitsInv
<1>13. StagedInv(progress.pc, progress.file, BatchesOf(request.native, progress.importer),
                BatchesOf(request.spools, progress.spool))'
  <2>1. /\ BatchesOf(request.native, progress.importer)' = t /\ BatchesOf(request.spools, progress.spool)' = v
        /\ progress'.pc = "staging.start" /\ progress'.file = n + 1 /\ request'.files = request.files
        /\ request'.markdown = markdown2
    <3> HIDE DEF b, spool2, spools2, markdown2
    <3> QED
      BY <1>4 DEF t, v
  <2> HIDE DEF s, t, u, v, markdown2
  <2>2. ASSUME NEW m, m # n
        PROVE  /\ \A k : Staged(s, u, request.markdown, m, k) => Staged(t, v, markdown2, m, k)
               /\ Unstaged(s, u, request.markdown, m) => Unstaged(t, v, markdown2, m)
    <3>1. Refilled(s, t, n) /\ Refilled(u, v, n)
      BY <1>7, <1>8 DEF Refilled
    <3>2. MarkdownOf(markdown2, m) = MarkdownOf(request.markdown, m)
      BY <1>9, <2>2
    <3> HIDE DEF n
    <3> QED
      BY <2>2, <3>1, <3>2, FilesKept
  <2>3. \A m \in 1 .. (n + 1) - 1 : m \in 1 .. Len(request.files) /\ Staged(t, v, markdown2, m, request.files[m])
    <3> TAKE m \in 1 .. (n + 1) - 1
    <3>1. CASE m = n
      BY <1>6, <1>10, <3>1
    <3>2. CASE m # n
      <4>1. m \in 1 .. n - 1
        BY <1>2, <3>2
      <4>2. m \in 1 .. Len(request.files) /\ Staged(s, u, request.markdown, m, request.files[m])
        BY <1>5, <4>1 DEF StagedInv
      <4> QED
        BY <2>2, <3>2, <4>2
    <3> QED
      BY <3>1, <3>2
  <2>4. \A m \in n + 1 .. Len(request.files) : Unstaged(t, v, markdown2, m)
    <3> TAKE m \in n + 1 .. Len(request.files)
    <3>1. m # n /\ Unstaged(s, u, request.markdown, m)
      BY <1>2, <1>5 DEF StagedInv
    <3> QED
      BY <2>2, <3>1
  <2> HIDE DEF n
  <2> QED
    BY <2>1, <2>3, <2>4 DEF StagedInv
<1> QED
  <2> HIDE DEF b, spool2, spools2, markdown2
  <2>1. progress' # Idle /\ request'.status = "new"
    BY <1>2, <1>4 DEF Idle, StagingInv
  <2>2. OpenSpoolInv(progress.spool)' /\ OpenImporterInv(progress.importer, progress.pc, progress.estimate)'
    BY <1>4, <1>7, <1>8
  <2> QED
    BY <1>11, <1>12, <1>13, <2>1, <2>2 DEF StagingInv

LEMMA ExtractionEnds ==
  ASSUME StagingInv, EndExtraction
  PROVE  StagingInv'
<1> DEFINE n == progress.file
           importer == progress.importer
           native == request.native
           native2 == BatchesOf(native, importer)
<1>1. progress.pc = "staging.start" /\ progress.pc \in StagingPcs /\ n > Len(request.files)
  BY DEF EndExtraction, StagingPcs
<1>2. /\ progress # Idle /\ native \in Seq(StagedBatch) /\ n \in Nat \ {0}
      /\ importer \in StagedBatch \cup {None} /\ Len(request.files) \in Nat
  BY <1>1, StagingTypes DEF StagingInv
<1>3. /\ request' = [tool |-> "staging", files |-> request.files, native |-> native2, spools |-> request.spools,
                     markdown |-> request.markdown, status |-> request.status]
      /\ progress' = [pc |-> "staging.spools", file |-> n, importer |-> None, spool |-> progress.spool,
                      estimate |-> progress.estimate]
  <2>1. /\ request = [tool |-> "staging", files |-> request.files, native |-> request.native,
                      spools |-> request.spools, markdown |-> request.markdown, status |-> request.status]
        /\ progress = [pc |-> progress.pc, file |-> progress.file, importer |-> progress.importer,
                       spool |-> progress.spool, estimate |-> progress.estimate]
    BY <1>2 DEF StagingInv, StagingTypeOK
  <2> DEFINE one == [progress EXCEPT !.pc = "staging.spools"]
  <2>2. request' = [request EXCEPT !.native = native2] /\ progress' = [one EXCEPT !.importer = None]
    BY DEF EndExtraction, BatchesOf
  <2>3. one = [pc |-> "staging.spools", file |-> n, importer |-> importer, spool |-> progress.spool,
               estimate |-> progress.estimate]
    BY <2>1
  <2> HIDE DEF one, native2
  <2> QED
    BY <2>1, <2>2, <2>3
<1>4. native2 \in Seq(StagedBatch) /\ \A p \in 1 .. Len(native2) : NativeWithin(native2[p])
  <2>1. CASE importer = None
    BY <1>2, <2>1 DEF BatchesOf, StagingInv, LimitsInv
  <2>2. CASE importer # None
    <3>1. NativeWithin(importer) /\ native2 = Append(native, importer) /\ importer \in StagedBatch
      BY <1>2, <2>2 DEF BatchesOf, StagingInv, OpenImporterInv
    <3>2. \A p \in 1 .. Len(native2) : (p \in 1 .. Len(native) /\ native2[p] = native[p]) \/ native2[p] = importer
      BY <1>2, <3>1
    <3>3. \A p \in 1 .. Len(native) : NativeWithin(native[p])
      BY DEF StagingInv, LimitsInv
    <3> QED
      BY <1>2, <3>1, <3>2, <3>3
  <2> QED
    BY <2>1, <2>2
<1> DEFINE u == BatchesOf(request.spools, progress.spool)
<1>5. StagedInv("staging.start", n, native2, u)
  BY <1>1, <1>2 DEF StagingInv
<1> HIDE DEF native2
<1>6. StagingTypeOK' /\ LimitsInv'
  <2>1. "staging.spools" \in StagingPcs
    BY DEF StagingPcs
  <2> QED
    BY <1>2, <1>3, <1>4, <2>1 DEF StagingInv, StagingTypeOK, LimitsInv
<1>7. StagedInv(progress.pc, progress.file, BatchesOf(request.native, progress.importer),
               BatchesOf(request.spools, progress.spool))'
  <2>1. /\ BatchesOf(request.native, progress.importer)' = native2 /\ u' = u
        /\ progress'.pc = "staging.spools" /\ progress'.file = n /\ request'.files = request.files
        /\ progress'.importer = None /\ request'.markdown = request.markdown
    BY <1>3 DEF BatchesOf
  <2> HIDE DEF n
  <2> QED
    BY <1>1, <1>5, <2>1 DEF StagedInv
<1> QED
  <2>1. progress' # Idle /\ request'.status = "new"
    BY <1>2, <1>3 DEF Idle, StagingInv
  <2>2. OpenSpoolInv(progress.spool)' /\ OpenImporterInv(progress.importer, progress.pc, progress.estimate)'
    BY <1>2, <1>3 DEF StagingInv, OpenImporterInv
  <2> QED
    BY <1>6, <1>7, <2>1, <2>2 DEF StagingInv

LEMMA SpoolsEnd ==
  ASSUME StagingInv, EndSpools
  PROVE  StagingInv'
<1> DEFINE spool == progress.spool
           spools == request.spools
           spools2 == BatchesOf(spools, spool)
<1>1. progress.pc = "staging.spools" /\ progress.pc \in StagingPcs
  BY DEF EndSpools, StagingPcs
<1>2. /\ progress # Idle /\ spools \in Seq(StagedBatch) /\ request.native \in Seq(StagedBatch)
      /\ spool \in StagedBatch \cup {None} /\ Len(request.files) \in Nat /\ progress.file \in Nat
  BY <1>1, StagingTypes DEF StagingInv
<1>3. /\ request' = [tool |-> "staging", files |-> request.files, native |-> request.native, spools |-> spools2,
                     markdown |-> request.markdown, status |-> "staged"]
      /\ progress' = Idle
  <2>1. request = [tool |-> "staging", files |-> request.files, native |-> request.native,
                   spools |-> request.spools, markdown |-> request.markdown, status |-> request.status]
    BY <1>2 DEF StagingInv, StagingTypeOK
  <2> DEFINE one == [request EXCEPT !.status = "staged"]
  <2>2. request' = [one EXCEPT !.spools = spools2] /\ progress' = Idle
    BY <2>1 DEF EndSpools, BatchesOf
  <2>3. one = [tool |-> "staging", files |-> request.files, native |-> request.native,
               spools |-> request.spools, markdown |-> request.markdown, status |-> "staged"]
    BY <2>1
  <2> HIDE DEF one, spools2
  <2> QED
    BY <2>2, <2>3
<1>4. spools2 \in Seq(StagedBatch) /\ \A p \in 1 .. Len(spools2) : SpoolWithin(spools2[p])
  <2>1. CASE spool = None
    BY <1>2, <2>1 DEF BatchesOf, StagingInv, LimitsInv
  <2>2. CASE spool # None
    <3>1. SpoolWithin(spool) /\ spools2 = Append(spools, spool) /\ spool \in StagedBatch
      BY <1>2, <2>2 DEF BatchesOf, StagingInv, OpenSpoolInv
    <3>2. \A p \in 1 .. Len(spools2) : (p \in 1 .. Len(spools) /\ spools2[p] = spools[p]) \/ spools2[p] = spool
      BY <1>2, <3>1
    <3>3. \A p \in 1 .. Len(spools) : SpoolWithin(spools[p])
      BY DEF StagingInv, LimitsInv
    <3> QED
      BY <1>2, <3>1, <3>2, <3>3
  <2> QED
    BY <2>1, <2>2
<1>5. StagedInv("staging.spools", progress.file, BatchesOf(request.native, progress.importer), spools2)
  BY <1>1, <1>2 DEF StagingInv
<1> HIDE DEF spools2
<1>6. BatchesOf(request.native, progress.importer) = request.native /\ progress.file > Len(request.files)
  BY <1>5 DEF StagedInv, BatchesOf
<1>7. \A m \in 1 .. Len(request.files) :
        Staged(request.native, spools2, request.markdown, m, request.files[m])
  <2> TAKE m \in 1 .. Len(request.files)
  <2>1. m \in 1 .. progress.file - 1
    BY <1>2, <1>6
  <2> QED
    BY <1>5, <1>6, <2>1 DEF StagedInv
<1>8. StagingTypeOK' /\ LimitsInv'
  BY <1>2, <1>3, <1>4 DEF StagingInv, StagingTypeOK, LimitsInv
<1> QED
  BY <1>3, <1>7, <1>8 DEF StagingInv

LEMMA StagingGivesUp ==
  ASSUME StagingInv, StagingFails
  PROVE  StagingInv'
<1>1. progress.pc \in StagingPcs
  BY DEF StagingFails, StagingPcs
<1>2. progress # Idle
  BY <1>1, StagingTypes DEF StagingInv
<1>3. /\ request' = [tool |-> "staging", files |-> request.files, native |-> <<>>, spools |-> <<>>,
                     markdown |-> {}, status |-> "failed"]
      /\ progress' = Idle
  <2>1. request = [tool |-> "staging", files |-> request.files, native |-> request.native,
                   spools |-> request.spools, markdown |-> request.markdown, status |-> request.status]
    BY <1>2 DEF StagingInv, StagingTypeOK
  <2> DEFINE one == [request EXCEPT !.status = "failed"]
             two == [one EXCEPT !.native = <<>>]
             three == [two EXCEPT !.spools = <<>>]
  <2>2. request' = [three EXCEPT !.markdown = {}] /\ progress' = Idle
    BY DEF StagingFails
  <2>3. one = [tool |-> "staging", files |-> request.files, native |-> request.native,
               spools |-> request.spools, markdown |-> request.markdown, status |-> "failed"]
    BY <2>1
  <2> HIDE DEF one
  <2>4. two = [tool |-> "staging", files |-> request.files, native |-> <<>>,
               spools |-> request.spools, markdown |-> request.markdown, status |-> "failed"]
    BY <2>3
  <2> HIDE DEF two
  <2>5. three = [tool |-> "staging", files |-> request.files, native |-> <<>>, spools |-> <<>>,
                 markdown |-> request.markdown, status |-> "failed"]
    BY <2>4
  <2> HIDE DEF three
  <2> QED
    BY <2>2, <2>5
<1> QED
  BY <1>3 DEF StagingInv, StagingTypeOK, LimitsInv

LEMMA StagingKept == StagingInv /\ [StagingNext]_vars => StagingInv'
<1> SUFFICES ASSUME StagingInv, [StagingNext]_vars PROVE StagingInv'
  OBVIOUS
<1>1. CASE UNCHANGED vars
  <2>1. request' = request /\ progress' = progress
    BY <1>1 DEF vars
  <2>2. StagingTypeOK' /\ LimitsInv'
    BY <2>1 DEF StagingInv, StagingTypeOK, LimitsInv
  <2> QED
    BY <2>1, <2>2 DEF StagingInv, StagedInv, OpenImporterInv, OpenSpoolInv
<1> QED
  BY <1>1, StagingBegins, SourceStarts, SourceRead, ExtractionEnds, SpoolsEnd, StagingGivesUp DEF StagingNext

LEMMA StagingStarts == StagingInit => StagingInv
<1> SUFFICES ASSUME StagingInit PROVE StagingInv
  OBVIOUS
<1>1. PICK s \in Selections : request = [tool |-> "staging", files |-> s, native |-> <<>>, spools |-> <<>>,
                                         markdown |-> {}, status |-> "new"]
  BY DEF StagingInit
<1>2. progress = Idle
  BY DEF StagingInit
<1> QED
  BY <1>1, <1>2 DEF StagingInv, StagingTypeOK, LimitsInv

-----------------------------------------------------------------------------
(* The property, from the invariant.                                         *)
LEMMA RowsOfBatches == \A s, n : RowsOf({s}, n) = RowsIn(s, n)
BY DEF RowsOf, RowsIn

LEMMA RowsInOne ==
  ASSUME NEW s \in Seq(StagedBatch), NEW n, NEW rows, InOne(s, n, rows), rows # {}
  PROVE  /\ RowsOf({s[p] : p \in DOMAIN s}, n) = rows
         /\ Cardinality({m \in DOMAIN s : RowsOf({s[m]}, n) # {}}) = 1
<1>1. PICK p \in 1 .. Len(s) :
        RowsIn(s[p], n) = rows /\ \A q \in 1 .. Len(s) : q # p => RowsIn(s[q], n) = {}
  BY DEF InOne
<1>2. DOMAIN s = 1 .. Len(s)
  OBVIOUS
<1>3. {m \in DOMAIN s : RowsOf({s[m]}, n) # {}} = {p}
  BY <1>1, <1>2, RowsOfBatches
<1>4. RowsOf({s[q] : q \in DOMAIN s}, n) = rows
  <2>1. ASSUME NEW row, row \in RowsOf({s[q] : q \in DOMAIN s}, n) PROVE row \in rows
    <3>1. PICK q \in 1 .. Len(s) : row \in s[q].rows
      BY <1>2, <2>1 DEF RowsOf
    <3>2. row \in RowsIn(s[q], n)
      BY <2>1, <3>1 DEF RowsOf, RowsIn
    <3> QED
      BY <1>1, <3>2
  <2>2. ASSUME NEW row \in rows PROVE row \in RowsOf({s[q] : q \in DOMAIN s}, n)
    <3>1. row \in s[p].rows /\ row[2] = n
      BY <1>1, <2>2 DEF RowsIn
    <3> QED
      BY <1>2, <3>1 DEF RowsOf
  <2> QED
    BY <2>1, <2>2
<1> QED
  BY <1>3, <1>4, FS_Singleton

LEMMA RowsInNone ==
  ASSUME NEW s \in Seq(StagedBatch), NEW n, InNone(s, n)
  PROVE  /\ RowsOf({s[p] : p \in DOMAIN s}, n) = {}
         /\ Cardinality({m \in DOMAIN s : RowsOf({s[m]}, n) # {}}) = 0
<1>1. DOMAIN s = 1 .. Len(s)
  OBVIOUS
<1>2. {m \in DOMAIN s : RowsOf({s[m]}, n) # {}} = {}
  BY <1>1, RowsOfBatches DEF InNone
<1>3. \A row : row \notin RowsOf({s[q] : q \in DOMAIN s}, n)
  BY <1>1 DEF RowsOf, InNone, RowsIn
<1> QED
  BY <1>2, <1>3, FS_EmptySet

LEMMA StagedFile ==
  ASSUME StagingInv, NEW n, NEW kind, Staged(request.native, request.spools, request.markdown, n, kind)
  PROVE  FileStaged(n, kind)
<1>1. PICK read \in ReadsOf(n) :
        /\ InOne(request.native, n, {read, RowOfFile(n, read)})
        /\ IF kind = "source" THEN InOne(request.spools, n, {read}) ELSE InNone(request.spools, n)
        /\ MarkdownOf(request.markdown, n) =
             IF kind = "markdown" /\ read[1] = "facts" THEN {<<n, read[3]>>} ELSE {}
  BY DEF Staged
<1>2. request.native \in Seq(StagedBatch) /\ request.spools \in Seq(StagedBatch)
  BY DEF StagingInv, StagingTypeOK
<1>3. /\ RowsOf(Native, n) = {read, RowOfFile(n, read)}
      /\ Cardinality({m \in DOMAIN request.native : RowsOf({request.native[m]}, n) # {}}) = 1
  BY <1>1, <1>2, RowsInOne DEF Native
<1>4. /\ RowsOf(Spools, n) = IF kind = "source" THEN {read} ELSE {}
      /\ Cardinality({m \in DOMAIN request.spools : RowsOf({request.spools[m]}, n) # {}}) <= 1
  <2>1. CASE kind = "source"
    <3>1. RowsOf({request.spools[p] : p \in DOMAIN request.spools}, n) = {read}
      BY <1>1, <1>2, <2>1, RowsInOne
    <3>2. Cardinality({m \in DOMAIN request.spools : RowsOf({request.spools[m]}, n) # {}}) = 1
      BY <1>1, <1>2, <2>1, RowsInOne
    <3> QED
      BY <2>1, <3>1, <3>2 DEF Spools
  <2>2. CASE kind # "source"
    <3>1. RowsOf({request.spools[p] : p \in DOMAIN request.spools}, n) = {}
      BY <1>1, <1>2, <2>2, RowsInNone
    <3>2. Cardinality({m \in DOMAIN request.spools : RowsOf({request.spools[m]}, n) # {}}) = 0
      BY <1>1, <1>2, <2>2, RowsInNone
    <3> QED
      BY <2>2, <3>1, <3>2 DEF Spools
  <2> QED
    BY <2>1, <2>2
<1> QED
  BY <1>1, <1>3, <1>4 DEF FileStaged, ReadsOf, RowOfFile, MarkdownOf

LEMMA StagingBounds == StagingInv => StagingBounded
<1> SUFFICES ASSUME StagingInv PROVE StagingBounded
  OBVIOUS
<1>1. /\ Native = {request.native[p] : p \in 1 .. Len(request.native)}
      /\ Spools = {request.spools[p] : p \in 1 .. Len(request.spools)}
  BY DEF Native, Spools, StagingInv, StagingTypeOK
<1>2. (\A b \in Native : NativeWithin(b)) /\ (\A b \in Spools : SpoolWithin(b))
  BY <1>1 DEF StagingInv, LimitsInv
<1>3. \A b \in OpenBatches("importer") : NativeWithin(b)
  BY DEF OpenBatches, StagingInv, OpenImporterInv, Idle
<1>4. \A b \in OpenBatches("spool") : SpoolWithin(b)
  BY DEF OpenBatches, StagingInv, OpenSpoolInv, Idle
<1>5. ASSUME request.status = "staged" PROVE \A n \in DOMAIN request.files : FileStaged(n, request.files[n])
  <2>1. progress = Idle
    BY <1>5 DEF StagingInv
  <2>2. DOMAIN request.files = 1 .. Len(request.files)
    BY StagingAssumption DEF StagingInv, StagingTypeOK
  <2>3. \A m \in 1 .. Len(request.files) :
          Staged(request.native, request.spools, request.markdown, m, request.files[m])
    BY <1>5, <2>1 DEF StagingInv
  <2> QED
    BY <2>2, <2>3, StagedFile
<1> QED
  BY <1>2, <1>3, <1>4, <1>5 DEF StagingBounded, NativeWithin, SpoolWithin, FactsIn

(* Whatever sizes the files have whenever they are looked at, and whichever of
   the calls fails: the batches and spools of a staging keep their limits, and
   what ends as staged has each selected file in one batch and, if it is an
   ordinary source, in one spool, from the same read (corpus_registry.py:42-90,
   919-1071; bulk_export.py:215-318).                                        *)
THEOREM StagingWithinLimits == StagingSpec => []StagingBounded
<1>1. StagingInit => StagingInv
  BY StagingStarts
<1>2. StagingInv /\ [StagingNext]_vars => StagingInv'
  BY StagingKept
<1>3. StagingInv => StagingBounded
  BY StagingBounds
<1> QED
  BY <1>1, <1>2, <1>3, PTL DEF StagingSpec
=============================================================================
