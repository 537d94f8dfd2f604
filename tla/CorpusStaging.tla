--------------------------- MODULE CorpusStaging ---------------------------
(***************************************************************************)
(* The files of a snapshot are read once and staged twice: their native    *)
(* facts in batches of the registry's importer (_NativeImporterBatches and *)
(* extract_snapshot_facts of src/src/codekg/corpus_registry.py), and the   *)
(* ordinary sources among them in spools (stage_corpus_source_file and     *)
(* CorpusSpoolBatcher of src/src/codekg/bulk_export.py).  A file may have  *)
(* another size whenever it is looked at, and any call may fail.           *)
(*                                                                         *)
(* A batch is a record [files, bytes, rows]: how many files it has, how    *)
(* many bytes the code has counted, and its rows <<table, file, value>>.   *)
(* What was read of a file is abstracted to its number of bytes.           *)
(***************************************************************************)
EXTENDS FiniteSetsExt, Requests

CONSTANTS
  Selections,     \* sequences of kinds of files: "source", "markdown" or "native"
  FileSizes,      \* sizes a file may have
  MaxFileBytes,   \* max_file_bytes
  BatchFileLimit, \* _MAX_NATIVE_BATCH_FILES, MAX_FILES
  BatchByteLimit  \* _MAX_NATIVE_BATCH_SOURCE_BYTES, MAX_SOURCE_BYTES

StagedRows ==
  ({"files"} \X Nat \X (FileSizes \cup {0})) \cup ({"facts"} \X Nat \X FileSizes) \cup
  ({"diagnostics"} \X Nat \X {"file_too_large", "unreadable_file"})

(* A batch is never taken for the absence of one.                            *)
ASSUME StagingAssumption ==
  /\ FileSizes \subseteq Nat /\ MaxFileBytes \in Nat
  /\ BatchFileLimit \in Nat \ {0} /\ BatchByteLimit \in Nat
  /\ \A s \in Selections : s \in Seq({"source", "markdown", "native"})
  /\ None \notin [files : Nat, bytes : Nat, rows : SUBSET StagedRows]

EmptyBatch == [files |-> 0, bytes |-> 0, rows |-> {}]
IsFull(batch, bytes) == batch.files >= BatchFileLimit \/ batch.bytes + bytes > BatchByteLimit
(* The batch that takes the next bytes, and those that are finished for it.  *)
Rotated(batch, bytes) == batch # None /\ IsFull(batch, bytes)
Opened(batch, bytes) == IF batch = None \/ Rotated(batch, bytes) THEN EmptyBatch ELSE batch
Finished(done, batch, bytes) == IF Rotated(batch, bytes) THEN Append(done, batch) ELSE done
AddFile(batch, bytes, rows) == [files |-> batch.files + 1, bytes |-> batch.bytes + bytes, rows |-> batch.rows \cup rows]

StagingInit ==
  /\ \E s \in Selections : request = [tool |-> "staging", files |-> s, native |-> <<>>, spools |-> <<>>,
                                      markdown |-> {}, status |-> "new"]
  /\ progress = Idle

BeginExtraction ==
  /\ Asked("staging")
  /\ progress' = [pc |-> "staging.start", file |-> 1, importer |-> None, spool |-> None, estimate |-> 0]
  /\ UNCHANGED request

(* start_file: the first look at the size, which may fail.                   *)
Estimate(size) == IF size = None \/ size > MaxFileBytes THEN 0 ELSE size
StartSource ==
  /\ progress.pc = "staging.start" /\ progress.file <= Len(request.files)
  /\ \E estimate \in {Estimate(size) : size \in FileSizes \cup {None}} :
       /\ request' = [request EXCEPT !.native = Finished(@, progress.importer, estimate)]
       /\ progress' = [progress EXCEPT !.pc = "staging.read", !.estimate = estimate,
                         !.importer = AddFile(Opened(@, estimate), estimate, {<<"files", progress.file, 0>>})]

(* Faulty variant: what the file really had is not counted.                  *)
KeepEstimate(batch, estimate, bytes) == batch

FinishFile(batch, estimate, bytes) == [batch EXCEPT !.bytes = @ + bytes - estimate]
FileRead(batch, n, estimate, bytes, rows) ==
  [FinishFile(batch, estimate, bytes) EXCEPT !.rows = (@ \ {<<"files", n, 0>>}) \cup rows]
(* The file is read, or it is too large or cannot be read.  If it is an
   ordinary source it goes to the spool, and Markdown is kept for the search.*)
ReadRows(n, bytes) == {<<"files", n, bytes>>, <<"facts", n, bytes>>}
Unread(n, category) == {<<"files", n, 0>>, <<"diagnostics", n, category>>}
SpoolNow(kind, bytes, row) ==
  IF kind = "source" THEN AddFile(Opened(progress.spool, bytes), bytes, {row}) ELSE progress.spool
SpoolsNow(kind, bytes) ==
  IF kind = "source" THEN Finished(request.spools, progress.spool, bytes) ELSE request.spools
EndSource(kind, n, bytes, rows, row) ==
  /\ request' = [request EXCEPT !.spools = SpoolsNow(kind, bytes),
                   !.markdown = @ \cup IF kind = "markdown" /\ row[1] = "facts" THEN {<<n, bytes>>} ELSE {}]
  /\ progress' = [progress EXCEPT !.pc = "staging.start", !.file = @ + 1, !.estimate = 0,
                    !.spool = SpoolNow(kind, bytes, row),
                    !.importer = FileRead(@, n, progress.estimate, bytes, rows)]
ReadSource ==
  /\ progress.pc = "staging.read"
  /\ LET n == progress.file
         kind == request.files[n]
     IN  \/ \E size \in {x \in FileSizes : x <= MaxFileBytes} :
              EndSource(kind, n, size, ReadRows(n, size), <<"facts", n, size>>)
         \/ \E category \in {"file_too_large", "unreadable_file"} :
              EndSource(kind, n, 0, Unread(n, category), <<"diagnostics", n, category>>)

(* The last batch, and then the last spool, are finished.                    *)
EndExtraction ==
  /\ progress.pc = "staging.start" /\ progress.file > Len(request.files)
  /\ request' = [request EXCEPT !.native = IF progress.importer = None THEN @ ELSE Append(@, progress.importer)]
  /\ progress' = [progress EXCEPT !.pc = "staging.spools", !.importer = None]
EndSpools ==
  /\ progress.pc = "staging.spools"
  /\ request' = [request EXCEPT !.status = "staged",
                   !.spools = IF progress.spool = None THEN @ ELSE Append(@, progress.spool)]
  /\ progress' = Idle
(* Any call fails: batches and spools are aborted and the generation removed.*)
StagingFails ==
  /\ progress.pc \in {"staging.start", "staging.read", "staging.spools"}
  /\ request' = [request EXCEPT !.status = "failed", !.native = <<>>, !.spools = <<>>, !.markdown = {}]
  /\ progress' = Idle

StagingNext == BeginExtraction \/ StartSource \/ ReadSource \/ EndExtraction \/ EndSpools \/ StagingFails

(* One selection is staged, and nothing else is done.                        *)
StagingSpec == StagingInit /\ [][StagingNext]_vars

-----------------------------------------------------------------------------
RowsOf(batches, n) == {row \in UNION {b.rows : b \in batches} : row[2] = n}
BytesRead(batch) ==
  MapThenSumSet(LAMBDA row : row[3], {row \in batch.rows : row[1] = "facts"})
Native == {request.native[n] : n \in DOMAIN request.native}
Spools == {request.spools[n] : n \in DOMAIN request.spools}
OpenBatches(which) == IF progress.pc = "idle" THEN {} ELSE {progress[which]} \ {None}
(* What is staged of a file: its row in files and either what was read of it
   or why it was not, the same in the one batch and in the one spool.        *)
FileStaged(n, kind) ==
  \E read \in {<<"facts", n, size>> : size \in FileSizes} \cup
             {<<"diagnostics", n, c>> : c \in {"file_too_large", "unreadable_file"}} :
    /\ RowsOf(Native, n) = {read, <<"files", n, IF read[1] = "facts" THEN read[3] ELSE 0>>}
    /\ RowsOf(Spools, n) = IF kind = "source" THEN {read} ELSE {}
    /\ Cardinality({m \in DOMAIN request.native : RowsOf({request.native[m]}, n) # {}}) = 1
    /\ Cardinality({m \in DOMAIN request.spools : RowsOf({request.spools[m]}, n) # {}}) <= 1
    /\ {m \in request.markdown : m[1] = n} = IF kind = "markdown" /\ read[1] = "facts" THEN {<<n, read[3]>>} ELSE {}

(* Whatever sizes the files take on between the looks at them, a batch of the
   importer holds at most the files and bytes of its limit and one file more,
   a spool at most its limit or one file; and once all is staged, every file
   that was selected has its row and its facts or one diagnostic, in one batch
   and, if it is an ordinary source, from the same read in one spool
   (corpus_registry.py:42-90, 919-1071; bulk_export.py:215-318).             *)
StagingBounded ==
  request.tool = "staging" =>
    /\ \A b \in Native \cup OpenBatches("importer") :
         b.files <= BatchFileLimit /\ BytesRead(b) <= BatchByteLimit + MaxFileBytes
    /\ \A b \in Spools \cup OpenBatches("spool") :
         b.files <= BatchFileLimit /\ (BytesRead(b) <= BatchByteLimit \/ Cardinality({r \in b.rows : r[1] = "facts"}) = 1)
    /\ request.status = "staged" => \A n \in DOMAIN request.files : FileStaged(n, request.files[n])
=============================================================================
