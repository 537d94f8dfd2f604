------------------------- MODULE CorpusPublication -------------------------
(***************************************************************************)
(* `codekg bulk corpus export` (src/src/codekg/corpus_export.py:43-299)    *)
(* and `codekg graph freeze` (src/src/codekg/graph_artifacts.py:40-104).   *)
(*                                                                         *)
(* An export reads the working trees of several snapshots, which people go *)
(* on editing, builds a generation directory of its own from what it read, *)
(* and makes it current by replacing the root manifest.  A freeze copies   *)
(* the root manifest to a descriptor that must never change again.         *)
(* Exports and freezes are separate processes without a lock.              *)
(*                                                                         *)
(* Source files are numbered in the order they are walked; the files of a  *)
(* snapshot are consecutive.  A content is a version number and an edit    *)
(* never brings an old content back.  What is derived from the facts read  *)
(* (resolution, projection, CSV files) follows them.                       *)
(***************************************************************************)
EXTENDS Integers

CONSTANTS
  Exporters,         \* concurrent exports into the same output directory
  Freezers,          \* concurrent freezes to the same descriptor
  FileCount,         \* source files selected over all snapshots
  FirstOf, LastOf,   \* the first and the last file of the snapshot of a file
  MaxVersion,        \* bound: how often a file is edited
  Generations,       \* bound: generation directories, named by time_ns()
  NoGeneration,
  LateInterrupt      \* may an exception arrive once the manifest is replaced?

Files    == 1..FileCount
Versions == 0..MaxVersion
Unread   == -1
Tree     == [Files -> Versions]
Reading  == [Files -> Versions \cup {Unread}]
Nothing  == [f \in Files |-> Unread]

ASSUME PublicationAssumption ==
  /\ FileCount \in Nat \ {0}
  /\ MaxVersion \in Nat
  /\ FirstOf \in [Files -> Files] /\ LastOf \in [Files -> Files]
  /\ \A f \in Files :
       /\ f \in FirstOf[f]..LastOf[f]
       /\ \A g \in FirstOf[f]..LastOf[f] :
            FirstOf[g] = FirstOf[f] /\ LastOf[g] = LastOf[f]
  /\ NoGeneration \notin Generations
  /\ LateInterrupt \in BOOLEAN

VARIABLES
  source,      \* the working trees
  generation,  \* the generation directories
  manifest,    \* the generation the root manifest names
  export,      \* the export each exporter runs
  frozen,      \* the generation the frozen descriptor names
  freeze       \* the freeze each freezer runs

vars == <<source, generation, manifest, export, frozen, freeze>>

-----------------------------------------------------------------------------
(* facts: the contents the facts come from.  digest: the contents in the
   recorded revisions.  moment: history, the trees when the final check of
   the sources began.                                                       *)
Generation == [status : {"absent", "building", "complete", "removed"},
               facts : Reading, digest : Reading, moment : Reading]

(* before: the identities computed first.  next: the file to be read next.  *)
Export == [pc : {"idle", "before", "create", "extract", "after", "resolve",
                 "check", "compose", "replace", "published"},
           dir : Generations \cup {NoGeneration},
           before : Reading, next : Files]

Freeze == [pc : {"idle", "check", "replace"}, document : Generations \cup {NoGeneration}]

NewGeneration == [status |-> "absent", facts |-> Nothing, digest |-> Nothing,
                  moment |-> Nothing]
NoExport == [pc |-> "idle", dir |-> NoGeneration, before |-> Nothing, next |-> 1]
NoFreeze == [pc |-> "idle", document |-> NoGeneration]

Init ==
  /\ source = [f \in Files |-> 0]
  /\ generation = [g \in Generations |-> NewGeneration]
  /\ manifest = NoGeneration
  /\ export = [e \in Exporters |-> NoExport]
  /\ frozen = NoGeneration
  /\ freeze = [z \in Freezers |-> NoFreeze]

-----------------------------------------------------------------------------
(* Somebody edits, adds or removes a source file.                           *)
Edit(f) ==
  /\ \E v \in Versions : v > source[f] /\ source' = [source EXCEPT ![f] = v]
  /\ UNCHANGED <<generation, manifest, export, frozen, freeze>>

At(e, pc)          == export[e].pc = pc
Goto(e, pc, next)  == export' = [export EXCEPT ![e] = [@ EXCEPT !.pc = pc, !.next = next]]
File(e)            == export[e].next
Dir(e)             == export[e].dir
Quiet              == UNCHANGED <<source, manifest, frozen, freeze>>

BeginExport(e) ==
  /\ At(e, "idle")
  /\ Goto(e, "before", 1)
  /\ UNCHANGED generation /\ Quiet

(* _corpus_identities: every file of every snapshot is read and hashed.     *)
ReadBefore(e) ==
  /\ At(e, "before")
  /\ LET f == File(e)
         last == f = FileCount
     IN  export' = [export EXCEPT ![e] =
                      [@ EXCEPT !.before[f] = source[f],
                                !.pc        = IF last THEN "create" ELSE "before",
                                !.next      = IF last THEN 1 ELSE f + 1]]
  /\ UNCHANGED generation /\ Quiet

(* Faulty variant: mkdir(exist_ok=True).                                    *)
CreateAnyway(e, g) ==
  /\ At(e, "create")
  /\ generation' = [generation EXCEPT ![g] = [NewGeneration EXCEPT !.status = "building"]]
  /\ export' = [export EXCEPT ![e] = [@ EXCEPT !.pc = "extract", !.dir = g]]
  /\ Quiet

(* generation.mkdir(): refuses a name that exists.                          *)
CreateGeneration(e, g) ==
  /\ At(e, "create")
  /\ generation[g].status = "absent"
  /\ generation' = [generation EXCEPT ![g] = [NewGeneration EXCEPT !.status = "building"]]
  /\ export' = [export EXCEPT ![e] = [@ EXCEPT !.pc = "extract", !.dir = g]]
  /\ Quiet

(* extract_snapshot_facts: one read serves both parsers; after the last file
   of a snapshot its identity is computed again.                            *)
Extract(e) ==
  /\ At(e, "extract")
  /\ LET f == File(e) IN
       /\ generation' = [generation EXCEPT ![Dir(e)].facts[f] = source[f]]
       /\ IF f = LastOf[f] THEN Goto(e, "after", FirstOf[f])
                           ELSE Goto(e, "extract", f + 1)
  /\ Quiet

AfterDigest(e, f) ==
  /\ generation' = [generation EXCEPT ![Dir(e)].digest[f] = source[f]]
  /\ IF f = FileCount THEN Goto(e, "resolve", 1)
     ELSE Goto(e, IF f = LastOf[f] THEN "extract" ELSE "after", f + 1)

(* Faulty variant: identity_after is recorded without a comparison.         *)
ReadAfterUncompared(e) ==
  /\ At(e, "after")
  /\ AfterDigest(e, File(e))
  /\ Quiet

(* snapshot_identity again; "source identity changed during extraction" ends
   the export.  The record, and the registry's metadata, take identity_after. *)
ReadAfter(e) ==
  /\ At(e, "after")
  /\ source[File(e)] = export[e].before[File(e)]
  /\ AfterDigest(e, File(e))
  /\ Quiet

(* resolve_corpus_facts and _write_supplemental_graph read the registry
   only; _compose_and_publish then starts over the sources.                 *)
Resolve(e) ==
  /\ At(e, "resolve")
  /\ generation' = [generation EXCEPT ![Dir(e)].moment = source]
  /\ Goto(e, "check", 1)
  /\ Quiet

(* Faulty variant: the sources are not compared a last time.                *)
CheckNothing(e) ==
  /\ At(e, "check")
  /\ Goto(e, "compose", 1)
  /\ UNCHANGED generation /\ Quiet

(* "source identity changed during export" ends the export.                 *)
CheckSource(e) ==
  /\ At(e, "check")
  /\ source[File(e)] = generation[Dir(e)].digest[File(e)]
  /\ IF File(e) = FileCount THEN Goto(e, "compose", 1) ELSE Goto(e, "check", File(e) + 1)
  /\ UNCHANGED generation /\ Quiet

(* _compose_graph: from here on the directory is whole.                     *)
Compose(e) ==
  /\ At(e, "compose")
  /\ generation' = [generation EXCEPT ![Dir(e)].status = "complete"]
  /\ Goto(e, "replace", 1)
  /\ Quiet

(* os.replace(temporary, manifest.json).                                    *)
Publish(e) ==
  /\ At(e, "replace")
  /\ manifest' = Dir(e)
  /\ Goto(e, "published", 1)
  /\ UNCHANGED <<source, generation, frozen, freeze>>

Return(e) ==
  /\ At(e, "published")
  /\ export' = [export EXCEPT ![e] = NoExport]
  /\ UNCHANGED generation /\ Quiet

(* An error, or Ctrl-C: "except BaseException" removes the directory.       *)
Fail(e) ==
  /\ ~At(e, "idle")
  /\ At(e, "published") => LateInterrupt
  /\ generation' = [g \in Generations |->
                      IF g = Dir(e) THEN [generation[g] EXCEPT !.status = "removed"]
                                    ELSE generation[g]]
  /\ export' = [export EXCEPT ![e] = NoExport]
  /\ Quiet

(* Killed: the directory stays as it is.                                    *)
Kill(e) ==
  /\ ~At(e, "idle")
  /\ export' = [export EXCEPT ![e] = NoExport]
  /\ UNCHANGED generation /\ Quiet

-----------------------------------------------------------------------------
(* freeze_generation_manifest.                                              *)
ReadManifest(z) ==
  /\ freeze[z].pc = "idle"
  /\ manifest # NoGeneration
  /\ freeze' = [freeze EXCEPT ![z] = [pc |-> "check", document |-> manifest]]
  /\ UNCHANGED <<source, generation, manifest, export, frozen>>

(* Faulty variant: an existing descriptor is not looked at.                 *)
CheckNoTarget(z) ==
  /\ freeze[z].pc = "check"
  /\ freeze' = [freeze EXCEPT ![z].pc = "replace"]
  /\ UNCHANGED <<source, generation, manifest, export, frozen>>

(* An existing descriptor ends the command, with success if it is identical. *)
CheckTarget(z) ==
  /\ freeze[z].pc = "check"
  /\ freeze' = [freeze EXCEPT ![z] = IF frozen = NoGeneration
                                     THEN [@ EXCEPT !.pc = "replace"] ELSE NoFreeze]
  /\ UNCHANGED <<source, generation, manifest, export, frozen>>

ReplaceTarget(z) ==
  /\ freeze[z].pc = "replace"
  /\ frozen' = freeze[z].document
  /\ freeze' = [freeze EXCEPT ![z] = NoFreeze]
  /\ UNCHANGED <<source, generation, manifest, export>>

AbortFreeze(z) ==
  /\ freeze[z].pc # "idle"
  /\ freeze' = [freeze EXCEPT ![z] = NoFreeze]
  /\ UNCHANGED <<source, generation, manifest, export, frozen>>

ExportStep(e) ==
  \/ BeginExport(e) \/ ReadBefore(e)
  \/ \E g \in Generations : CreateGeneration(e, g)
  \/ Extract(e) \/ ReadAfter(e) \/ Resolve(e) \/ CheckSource(e)
  \/ Compose(e) \/ Publish(e) \/ Return(e) \/ Fail(e) \/ Kill(e)

FreezeStep(z) ==
  ReadManifest(z) \/ CheckTarget(z) \/ ReplaceTarget(z) \/ AbortFreeze(z)

Next ==
  \/ \E f \in Files : Edit(f)
  \/ \E e \in Exporters : ExportStep(e)
  \/ \E z \in Freezers : FreezeStep(z)

Spec == Init /\ [][Next]_vars

-----------------------------------------------------------------------------
TypeOK ==
  /\ source \in Tree
  /\ generation \in [Generations -> Generation]
  /\ manifest \in Generations \cup {NoGeneration}
  /\ export \in [Exporters -> Export]
  /\ \A e \in Exporters : At(e, "idle") <=> export[e] = NoExport
  /\ frozen \in Generations \cup {NoGeneration}
  /\ freeze \in [Freezers -> Freeze]

(* Whoever follows the root manifest, or the frozen descriptor, arrives in a
   whole generation, whatever export is building, failing or being killed
   next to it (corpus_export.py:161-167, 213-216, 277).                     *)
ManifestComplete ==
  \A g \in {manifest, frozen} \ {NoGeneration} : generation[g].status = "complete"

(* The revisions recorded in a whole generation are those of the contents its
   facts were extracted from, although the files were read three times while
   being edited (corpus_export.py:115-126).                                 *)
DigestDescribesFacts ==
  \A g \in Generations : generation[g].status = "complete" =>
    generation[g].digest = generation[g].facts

(* The facts of a whole generation, over all its snapshots, are those of the
   working trees at one moment after the last extraction
   (corpus_export.py:237-244).                                              *)
FactsOfOneMoment ==
  \A g \in Generations : generation[g].status = "complete" =>
    generation[g].facts = generation[g].moment

(* "Existing destinations are immutable ... conflicting content is rejected"
   (graph_artifacts.py:48-49).  Freezes that overlap may each find no
   descriptor, and the later one then replaces what the earlier one froze; but
   once there is a descriptor they only become fewer, each replaces it once,
   and when none is left it is final, however many freezes are still to come. *)
Replacing == {z \in Freezers : freeze[z].pc = "replace"}
FrozenSettles ==
  [][frozen # NoGeneration =>
       /\ Replacing' \subseteq Replacing
       /\ frozen' = frozen \/ (frozen' # NoGeneration /\ Replacing' # Replacing)]_vars
=============================================================================
