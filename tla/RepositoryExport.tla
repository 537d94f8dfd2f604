--------------------------- MODULE RepositoryExport ---------------------------
(***************************************************************************)
(* codekg bulk-export into one output directory, by processes that may     *)
(* overlap, fail and be killed.                                            *)
(*                                                                         *)
(* A single-root export (export_repository_path,                           *)
(* src/src/codekg/bulk_export.py:78-213) works in a generation directory   *)
(* of its own: a pool of processes extracts batches of files into spools,  *)
(* the spools make the registry, the search stage is built, a pool         *)
(* projects the partitions, and the top manifest is replaced.  An export   *)
(* of several roots (export_repositories, 560-657) writes its files into   *)
(* the output directory itself.                                            *)
(*                                                                         *)
(* A future of a pool is "queued", "done", "failed", or "lost" when a      *)
(* process of the pool died.  An open file stays what it is when its name   *)
(* changes: the temporary manifest is a file, named by the export that      *)
(* created it, with the export it describes.                                *)
(***************************************************************************)
EXTENDS Integers, FiniteSets

CONSTANTS
  Exports,   \* the exports, each a process
  Batches,   \* batches of source files
  Workers,   \* processes of a pool
  Absent, Torn \* no file; what is between opening and writing a file

VARIABLES
  exporter,  \* of each export: [pc, mode, next, futures, file]
  generation,\* of each export: the spools, shards and stages in its directory
  flat,      \* the export whose files are in the output directory, or Torn
  content,   \* of each temporary file: the export its manifest describes, or Torn
  temporary, \* the file named .manifest.json.tmp
  top,       \* the file named manifest.json
  alone      \* exports do not overlap

ASSUME ExportAssumption ==
  /\ Batches \in Nat /\ Workers \in Nat
  /\ Absent \notin Exports /\ Torn \notin Exports /\ Absent \notin {Torn, "single", "several"}

exportVars == <<exporter, generation, flat, content, temporary, top, alone>>

Parts ==
  LET least == IF 2 * Workers < Batches THEN 2 * Workers ELSE Batches
  IN  IF least = 0 THEN 1 ELSE least
Work(pc) == IF pc = "extract" THEN 1..Batches ELSE 1..Parts
Running == {e \in Exports : exporter[e].pc \notin {"idle", "done", "failed", "killed"}}

Goto(e, pc) == exporter' = [exporter EXCEPT ![e].pc = pc]
Fail(e) == Goto(e, "failed")
SameFiles == UNCHANGED <<flat, content, temporary, top, alone>>
ToPool(e, pc) == exporter' = [exporter EXCEPT ![e].pc = pc, ![e].next = 1, ![e].futures = <<>>]

NoExporter == [pc |-> "idle", mode |-> Absent, next |-> 1, futures |-> <<>>, file |-> Absent]
Empty == [spools |-> {}, registry |-> {}, staged |-> FALSE, shards |-> {}, manifest |-> FALSE]
ExportInit ==
  /\ exporter = [e \in Exports |-> NoExporter]
  /\ generation = [e \in Exports |-> Empty]
  /\ flat = Absent /\ content = [e \in Exports |-> Absent] /\ temporary = Absent /\ top = Absent
  /\ alone \in BOOLEAN

BeginExport(e) ==
  /\ exporter[e].pc = "idle" /\ (alone => Running = {})
  /\ \E mode \in {"single", "several"} :
       exporter' = [exporter EXCEPT ![e].mode = mode,
                                    ![e].pc = IF mode = "single" THEN "extract" ELSE "files"]
  /\ UNCHANGED generation /\ SameFiles

(***************************************************************************)
(* A pool: the coordinator keeps at most twice as many futures as there    *)
(* are processes, and takes the result of each.                            *)
(***************************************************************************)
Futures(e) == exporter[e].futures
Queued(e) == {b \in DOMAIN Futures(e) : Futures(e)[b] = "queued"}
Without(e, done) == [b \in DOMAIN Futures(e) \ done |-> Futures(e)[b]]
Failed(e, done) == \E b \in done : Futures(e)[b] \in {"failed", "lost"}
Broken(e) == \E b \in DOMAIN Futures(e) : Futures(e)[b] = "lost"
InPool(e) == exporter[e].pc \in {"extract", "project"}

WindowFull(e) == Cardinality(DOMAIN Futures(e)) >= 2 * Workers
Submit(e) ==
  /\ InPool(e) /\ exporter[e].next \in Work(exporter[e].pc) /\ ~WindowFull(e) /\ ~Broken(e)
  /\ exporter' = [exporter EXCEPT ![e].next = @ + 1,
                    ![e].futures = [b \in DOMAIN @ \cup {exporter[e].next} |->
                                      IF b \in DOMAIN @ THEN @[b] ELSE "queued"]]
  /\ UNCHANGED generation /\ SameFiles

(* A pool that lost a process takes no more.                                 *)
SubmitRefused(e) ==
  /\ InPool(e) /\ exporter[e].next \in Work(exporter[e].pc) /\ ~WindowFull(e) /\ Broken(e)
  /\ Goto(e, "drain")
  /\ UNCHANGED generation /\ SameFiles

(* Faulty variant: futures that are done are dropped unread.                 *)
TakeUnread(e, done) == exporter' = [exporter EXCEPT ![e].futures = Without(e, done)]

Take(e, done) ==
  exporter' = [exporter EXCEPT ![e].futures = IF Failed(e, done) THEN @ ELSE Without(e, done),
                               ![e].pc = IF Failed(e, done) THEN "drain" ELSE @]
Wait(e) ==
  /\ InPool(e) /\ exporter[e].next \in Work(exporter[e].pc) /\ WindowFull(e)
  /\ DOMAIN Futures(e) \ Queued(e) # {}
  /\ Take(e, DOMAIN Futures(e) \ Queued(e))
  /\ UNCHANGED generation /\ SameFiles
(* The results of the last futures, in any order.                            *)
TakeLast(e) ==
  /\ InPool(e) /\ exporter[e].next \notin Work(exporter[e].pc)
  /\ \E b \in DOMAIN Futures(e) \ Queued(e) : Take(e, {b})
  /\ UNCHANGED generation /\ SameFiles
EndPool(e) ==
  /\ InPool(e) /\ exporter[e].next \notin Work(exporter[e].pc) /\ DOMAIN Futures(e) = {}
  /\ Goto(e, IF exporter[e].pc = "extract" THEN "registry" ELSE "merge")
  /\ UNCHANGED generation /\ SameFiles
(* Faulty variant: leaving the pool waits for results that nobody takes.     *)
DrainTaken(e) ==
  /\ exporter[e].pc = "drain" /\ DOMAIN Futures(e) = {} /\ Fail(e)
  /\ UNCHANGED generation /\ SameFiles

(* Leaving the pool waits for what was submitted.                            *)
Drain(e) ==
  /\ exporter[e].pc = "drain" /\ Queued(e) = {} /\ Fail(e)
  /\ UNCHANGED generation /\ SameFiles

(* A worker takes the oldest; the pool of a killed export finishes what it
   runs, or not.                                                             *)
Oldest(e) == {b \in Queued(e) : Cardinality({c \in Queued(e) : c < b}) < Workers}
Produced(e, b) ==
  generation' = IF ~generation[e].staged THEN [generation EXCEPT ![e].spools = @ \cup {b}]
                ELSE [generation EXCEPT ![e].shards = @ \cup {b}]
WorkerDone(e) ==
  \E b \in Oldest(e) :
    /\ exporter' = [exporter EXCEPT ![e].futures[b] = "done"]
    /\ Produced(e, b) /\ SameFiles
WorkerFails(e) ==
  \E b \in Oldest(e) :
    /\ exporter' = [exporter EXCEPT ![e].futures[b] = "failed"]
    /\ UNCHANGED generation /\ SameFiles
(* A process dies: the pool loses every future that is not done.             *)
WorkerDies(e) ==
  /\ Queued(e) # {}
  /\ exporter' = [exporter EXCEPT ![e].futures =
                    [b \in DOMAIN @ |-> IF @[b] = "queued" THEN "lost" ELSE @[b]]]
  /\ UNCHANGED generation /\ SameFiles

(***************************************************************************)
(* The coordinator.                                                        *)
(***************************************************************************)
BuildRegistry(e) ==
  /\ exporter[e].pc = "registry"
  /\ generation' = [generation EXCEPT ![e].registry = generation[e].spools]
  /\ Goto(e, "stage") /\ SameFiles
StageSearch(e) ==
  /\ exporter[e].pc = "stage"
  /\ generation' = [generation EXCEPT ![e].staged = TRUE]
  /\ ToPool(e, "project") /\ SameFiles
MergeProjection(e) ==
  /\ exporter[e].pc = "merge"
  /\ generation' = [generation EXCEPT ![e].manifest = TRUE]
  /\ Goto(e, "open") /\ SameFiles

(* .manifest.json.tmp is opened, which empties it, written, and renamed.     *)
OpenTemporary(e) ==
  /\ exporter[e].pc = "open"
  /\ LET file == IF temporary = Absent THEN e ELSE temporary
     IN  /\ temporary' = file /\ content' = [content EXCEPT ![file] = Torn]
         /\ exporter' = [exporter EXCEPT ![e].pc = "write", ![e].file = file]
  /\ UNCHANGED <<generation, flat, top, alone>>
WriteTemporary(e) ==
  /\ exporter[e].pc = "write"
  /\ content' = [content EXCEPT ![exporter[e].file] = e]
  /\ Goto(e, "rename") /\ UNCHANGED <<generation, flat, temporary, top, alone>>
RenameTemporary(e) ==
  /\ exporter[e].pc = "rename"
  /\ IF temporary = Absent THEN Fail(e) /\ UNCHANGED <<temporary, top>>
     ELSE Goto(e, "load") /\ top' = temporary /\ temporary' = Absent
  /\ UNCHANGED <<generation, flat, content, alone>>
LoadManifest(e) ==
  /\ exporter[e].pc = "load"
  /\ Goto(e, IF content[top] = Torn THEN "failed" ELSE "done")
  /\ UNCHANGED generation /\ SameFiles

(* Several roots: the files are written over those of the last export, the
   manifest through a temporary file of its own.                             *)
WriteFiles(e) ==
  /\ exporter[e].pc = "files" /\ flat' = Torn /\ Goto(e, "written")
  /\ UNCHANGED <<generation, content, temporary, top, alone>>
FilesWritten(e) ==
  /\ exporter[e].pc = "written" /\ flat' = e /\ Goto(e, "publish")
  /\ UNCHANGED <<generation, content, temporary, top, alone>>
PublishFiles(e) ==
  /\ exporter[e].pc = "publish" /\ top' = e /\ content' = [content EXCEPT ![e] = e]
  /\ Goto(e, "done") /\ UNCHANGED <<generation, flat, temporary, alone>>

(* A failure inside a pool, of the listing of the batches, of the catalog or
   of a submission, leaves it as a failed future does.                       *)
ExportFails(e) ==
  /\ e \in Running /\ exporter[e].pc # "drain"
  /\ Goto(e, IF InPool(e) THEN "drain" ELSE "failed")
  /\ UNCHANGED generation /\ SameFiles
KillExport(e) ==
  /\ e \in Running /\ Goto(e, "killed")
  /\ UNCHANGED generation /\ SameFiles

Coordinate(e) ==
  Submit(e) \/ SubmitRefused(e) \/ Wait(e) \/ TakeLast(e) \/ EndPool(e) \/ Drain(e)
  \/ BuildRegistry(e) \/ StageSearch(e) \/ MergeProjection(e) \/ OpenTemporary(e) \/ WriteTemporary(e)
  \/ RenameTemporary(e) \/ LoadManifest(e) \/ WriteFiles(e) \/ FilesWritten(e) \/ PublishFiles(e)
WorkPool(e) == WorkerDone(e) \/ WorkerFails(e) \/ WorkerDies(e)
ExportNext ==
  \E e \in Exports : BeginExport(e) \/ Coordinate(e) \/ WorkPool(e) \/ ExportFails(e) \/ KillExport(e)
(* The exports of one output directory, and nothing else.                    *)
ExportSpec == ExportInit /\ [][ExportNext]_exportVars
ExportFairness == \A e \in Exports : WF_exportVars(Coordinate(e)) /\ WF_exportVars(WorkPool(e))

-----------------------------------------------------------------------------
Whole(e) ==
  /\ generation[e].spools = 1..Batches /\ generation[e].registry = 1..Batches
  /\ generation[e].staged /\ generation[e].shards = 1..Parts /\ generation[e].manifest

(* The manifest, once it names a single-root export, names a whole one:
   every batch was extracted before the registry was made and every partition
   projected, whatever fails, dies, is killed or overlaps
   (bulk-export-sharded-implementation-state.md:30-31).  And without overlap
   no reader ever meets a torn manifest, a manifest of several roots goes only
   when their files are written over, and an export that has ended well is the
   one that the manifest names until the next one publishes
   (bulk_export.py:203-213, 632-642).                                        *)
ManifestRight ==
  /\ top # Absent /\ content[top] # Torn /\ exporter[content[top]].mode = "single" => Whole(content[top])
  /\ alone => /\ top # Absent => content[top] # Torn
              /\ \A e \in Exports : exporter[e].pc = "load" => content[top] = e
              /\ top # Absent /\ exporter[content[top]].mode = "several" =>
                   flat = content[top] \/ \E e \in Exports \ {content[top]} : exporter[e].mode = "several"

(* An export that began ends: no failed worker leaves the coordinator
   waiting (bulk_export.py:126-141, bulk_projection.py:409-434).             *)
ExportsEnd ==
  \A e \in Exports : e \in Running ~> exporter[e].pc \in {"done", "failed", "killed"}
=============================================================================
