--------------------------- MODULE RepositoryIndex ---------------------------
(***************************************************************************)
(* index_repository (src/src/codekg/ingest.py:652-739): one snapshot is    *)
(* loaded into the graph, a batch of rows at a time, each a transaction    *)
(* (src/src/codekg/loader.py:83-640), and its callables into the lexical   *)
(* index (zvec_store.py), and the two are compared (search_index.py:49-85).*)
(* Any call of either store may fail; the repository is then indexed       *)
(* again, perhaps at another revision.                                     *)
(*                                                                         *)
(* The graph store holds the repository's node (repository: its commit, or *)
(* None) and, of each commit, the nodes and relationships whose keys have  *)
(* the commit's prefix; docs are the [commit, key] of the lexical index.   *)
(* The batches of the labels of SQL are written one label after another,   *)
(* where the code writes a label's batch whenever it is full.              *)
(***************************************************************************)
EXTENDS GraphProjection

CONSTANTS
  Sources,    \* records [snapshot, commit]: what may be indexed
  BatchRows,  \* batch_size
  MaxIndexed  \* bound: the times the repository is indexed

(* What the parsers hand over of a file are lists and finite sets; the calls
   are numbered, those in SQL are no calls of Python; a path is of one file.  *)
IsList(s) == s \in Seq(ToSet(s))
Simple == {"set", "create", "create namespace", "create temporary", "create index", "alter", "drop",
           "drop routine", "select", "insert", "update", "call", "execute"}
IsSimple(st) == st.do \in Simple /\ IsList(st.arg) /\ IsList(st.body)
IsScript(script) ==
  /\ IsList(script.statements)
  /\ \A st \in ToSet(script.statements) :
       \/ IsSimple(st)
       \/ st.do = "create routine" /\ IsList(st.body) /\ \A x \in ToSet(st.body) : IsSimple(x)
IsParsed(f) ==
  /\ IsFiniteSet(f.symbols) /\ IsFiniteSet(f.calls) /\ f.diagnostics \in Nat
  /\ IsList(f.imports) /\ IsList(f.bases)
  /\ f.rank \in Nat /\ \A c, d \in f.calls : c.at = d.at => c = d
  /\ f.sql # None => IsScript(f.sql) /\ f.calls = {}
ASSUME IndexAssumption ==
  /\ BatchRows \in Nat \ {0}
  /\ \A x \in Sources : /\ IsList(x.snapshot) /\ \A f \in ToSet(x.snapshot) : IsParsed(f)
                        /\ \A f, g \in ToSet(x.snapshot) : f.path = g.path => f = g
                        /\ x.commit # None

Commits == {x.commit : x \in Sources}

(* A row of a batch: what it merges.                                         *)
Row(nodes, rels) == [nodes |-> nodes, rels |-> rels]
FileRow(f) ==
  Row({Node("File", FileKey(f), Plain), Node("Module", ModuleKey(f.module), Plain)},
      {Rel("CONTAINS", RepositoryKey, FileKey(f), Plain),
       Rel("DEFINES", FileKey(f), ModuleKey(f.module), Plain)})
DiagnosticRow(f, n) ==
  Row({Node("ParseDiagnostic", Diagnostic(f, n), Plain)},
      {Rel("HAS_DIAGNOSTIC", FileKey(f), Diagnostic(f, n), Plain)})
InitRow(f) ==
  Row({Node("ModuleInit", InitKey(f), Plain)},
      {Rel("CONTAINS", FileKey(f), InitKey(f), Plain),
       Rel("INITIALIZES", ModuleKey(f.module), InitKey(f), Plain)})
SymbolRow(f, y) ==
  Row({SymbolNode(f, y)}, {Rel("CONTAINS", FileKey(f), Ref(f, y).key, Plain)})
Symbols(s, label) ==
  UNION {{SymbolRow(f, y) : y \in {z \in f.symbols : Label(z) = label}} : f \in ToSet(s)}
Links(rels) == {Row({}, {r}) : r \in rels}
Derived == {"RESOLVES_TO", "CALLS", "EXACT_CALLS", "CONSTRUCTS"}

(* The batches' rows, one set for each operation, in the order of the loader;
   those from Clear on follow the clearing of the derived relationships.     *)
Clear == 10
Operations(s, ix, calls) ==
  LET files == ToSet(s)
      constructs == UNION {ConstructRels(c.f, c.call, c.r) : c \in calls}
      called(kind) == Links({e \in UNION {CalledRels(c.f, c.call, c.r) : c \in calls} : e.kind = kind})
  IN  << {FileRow(f) : f \in files},
         UNION {{DiagnosticRow(f, n) : n \in 1..f.diagnostics} : f \in files},
         {InitRow(f) : f \in {g \in files : g.sql = None}},
         Symbols(s, "Type"), Symbols(s, "Function"), Symbols(s, "Method"),
         Links(UNION {MethodRels(ix, f) : f \in files}),
         {Row({Node("Module", r.end, Plain)}, {r}) : r \in UNION {ImportRels(f) : f \in files}},
         Links(UNION {Inherits(ix, f) : f \in files}),
         {Row({CallNode(c.f, c.call, c.r)}, {}) : c \in calls},
         Links(UNION {CallOwnerRel(c.f, c.call, c.r) : c \in calls}),
         called("CALLS"), called("EXACT_CALLS"), called("RESOLVES_TO"),
         Links({e \in constructs : e.start = e.of}), Links({e \in constructs : e.start # e.of}) >>

OperationsOf(s) ==
  LET ix == InMemoryIndex(s)
      listed(ops) == [n \in DOMAIN ops |-> SetToSeq(ops[n])]
  IN  listed(Operations(s, ix, UNION {Resolved(ix, f) : f \in ToSet(s)}))

(* The rows of SQL follow, in batches of one label or kind of relationship.   *)
SqlLabels == <<"Database", "SqlObject", "SqlArtifact", "SqlStatement", "Reference">>
SqlKinds == <<"HAS_DATABASE", "HAS_OBJECT", "CONTAINS_SQL", "HAS_REFERENCE", "REFERS_TO", "DEFINES",
              "READS_FROM", "WRITES_TO", "INVOKES_SQL", "ALTERS", "DROPS">>
SqlOperationsOf(s) ==
  LET part == SqlPart(s, SqlIndex(s))
      nodes(label) == {Row({n}, {}) : n \in {m \in part.nodes : m.label = label}}
      rels(kind) == Links({r \in part.rels : r.kind = kind})
  IN  [n \in DOMAIN SqlLabels |-> SetToSeq(nodes(SqlLabels[n]))]
      \o [n \in DOMAIN SqlKinds |-> SetToSeq(rels(SqlKinds[n]))]

(* MATCH the ends that the row does not merge; MERGE nodes, by label and key,
   and relationships.                                                        *)
KeysOf(g) == {n.key : n \in g.nodes} \cup {RepositoryKey}
Merge(g, row) ==
  IF \E r \in row.rels : {r.start, r.end} \ (KeysOf(g) \cup KeysOf(row)) # {} THEN g
  ELSE [nodes |-> {n \in g.nodes : \A m \in row.nodes : <<m.label, m.key>> # <<n.label, n.key>>} \cup row.nodes,
        rels |-> g.rels \cup row.rels]
MergeRows(g, rows) == FoldLeft(Merge, g, rows)
WithoutDerived(g) == [g EXCEPT !.rels = {r \in @ : r.kind \notin Derived}]

(* DETACH DELETE of every node of SQL.                                       *)
SqlOf(g) ==
  LET nodes == {n \in g.nodes : n.label \in ToSet(SqlLabels)}
      keys == {n.key : n \in nodes}
  IN  [nodes |-> nodes, rels |-> {r \in g.rels : {r.start, r.end} \cap keys # {}}]
WithoutSql(g) == [nodes |-> g.nodes \ SqlOf(g).nodes, rels |-> g.rels \ SqlOf(g).rels]

IsCallable(n) == n.label \in {"Function", "Method"}
CallablesOf(g) == {n.key : n \in {m \in g.nodes : IsCallable(m)}}
Docs(commit, keys) == {[commit |-> commit, key |-> k] : k \in keys}
LiveKeys(graph) == UNION {Docs(c, CallablesOf(graph[c])) : c \in Commits}
Expected(source) == Docs(source.commit, {r.key : r \in {y \in Refs(source.snapshot) : y.kind # "type"}})

IndexInit ==
  /\ request = [tool |-> "index", repository |-> None, graph |-> [c \in Commits |-> Nothing],
                docs |-> {}, source |-> None, replace |-> FALSE, times |-> 0, status |-> "new"]
  /\ progress = Idle

BeginIndex ==
  /\ progress.pc = "idle" /\ request.tool = "index" /\ request.times < MaxIndexed
  /\ \E source \in Sources, replace \in BOOLEAN :
       /\ request' = [request EXCEPT !.source = source, !.replace = replace, !.times = @ + 1,
                                     !.status = "indexing"]
       /\ progress' = [pc |-> IF replace THEN "index.docs" ELSE "index.repository",
                       replaced |-> IF replace THEN LiveKeys(request.graph) ELSE {}]

(* delete_repo: before the nodes disappear.                                  *)
(* Faulty variant: the stale descriptions are left to the end.               *)
KeepDocs == UNCHANGED request

DropDocs == request' = [request EXCEPT !.docs = {}]
DeleteDocs ==
  /\ progress.pc = "index.docs" /\ DropDocs
  /\ progress' = [progress EXCEPT !.pc = "index.delete"]
DeleteGraph ==
  /\ progress.pc = "index.delete"
  /\ request' = IF request.repository = None THEN request
                ELSE [request EXCEPT !.repository = None, !.graph = [c \in Commits |-> Nothing]]
  /\ progress' = [progress EXCEPT !.pc = "index.repository"]
MergeRepository ==
  /\ progress.pc = "index.repository"
  /\ request' = [request EXCEPT !.repository = request.source.commit]
  /\ progress' = [pc |-> "index.load", replaced |-> progress.replaced, operation |-> 1, rows |-> 0,
                  operations |-> OperationsOf(request.source.snapshot)]

Load(g) == request' = [request EXCEPT !.graph[request.source.commit] = g]
Loaded == request.graph[request.source.commit]
(* Faulty variant: the resolutions of an earlier load are left.              *)
ClearNothing(g) == g

ClearDerived(g) == WithoutDerived(g)
ClearResolutions ==
  /\ progress.pc = "index.load" /\ progress.operation = Clear
  /\ Load(ClearDerived(Loaded))
  /\ progress' = [progress EXCEPT !.pc = "index.write"]
ClearSql ==
  /\ progress.pc = "index.write" /\ progress.operation > Len(progress.operations)
  /\ Load(WithoutSql(Loaded))
  /\ progress' = [pc |-> "index.sql", replaced |-> progress.replaced, operation |-> 1, rows |-> 0,
                  operations |-> SqlOperationsOf(request.source.snapshot)]
WriteBatch ==
  /\ progress.pc \in {"index.load", "index.write", "index.sql"}
  /\ progress.operation <= Len(progress.operations)
  /\ progress.pc = "index.load" => progress.operation < Clear
  /\ LET rows == progress.operations[progress.operation]
         batch == Window(rows, progress.rows, BatchRows)
         done == progress.rows + BatchRows >= Len(rows)
     IN  /\ Load(MergeRows(Loaded, batch))
         /\ progress' = [progress EXCEPT !.operation = IF done THEN @ + 1 ELSE @,
                                         !.rows = IF done THEN 0 ELSE @ + BatchRows]
(* The descriptions, a batch at a time: here all that are not yet there.     *)
UpsertDocs ==
  /\ progress.pc = "index.sql" /\ progress.operation > Len(progress.operations)
  /\ \E keys \in {Expected(request.source)} \cup {{d} : d \in Expected(request.source)} :
       request' = [request EXCEPT !.docs = @ \cup keys]
  /\ IF Expected(request.source) \subseteq request'.docs
     THEN progress' = [pc |-> "index.validate", replaced |-> progress.replaced]
     ELSE UNCHANGED progress
Consistent(live) ==
  /\ live = Expected(request.source) /\ live \subseteq request.docs
  /\ (progress.replaced \ live) \cap request.docs = {}
ValidateIndex ==
  /\ progress.pc = "index.validate"
  /\ Answer(IF Consistent(LiveKeys(request.graph)) THEN "ok" ELSE "inconsistent")
IndexFails ==
  /\ progress.pc \in {"index.docs", "index.delete", "index.repository", "index.load",
                      "index.write", "index.sql", "index.validate"}
  /\ Answer("failed")

IndexNext == BeginIndex \/ DeleteDocs \/ DeleteGraph \/ MergeRepository \/ ClearResolutions \/ ClearSql
             \/ WriteBatch \/ UpsertDocs \/ ValidateIndex \/ IndexFails
IndexSpec == IndexInit /\ [][IndexNext]_vars

-----------------------------------------------------------------------------
CodeGraph(source) ==
  [BuildGraph(source.snapshot, InMemoryIndex(source.snapshot)) EXCEPT
     !.nodes = {n \in @ : n.label # "Repository"}]

(* Whatever an earlier run left behind, of this commit or another, whole or
   broken off anywhere: one that answers has put all of the snapshot into the
   graph and no resolution and no SQL but today's, and if it replaces, nothing else; and
   the lexical index has the callables of the graph (ingest.py:652-739,
   loader.py:304-316: "Re-loading the same snapshot must converge").         *)
IndexConverges ==
  request.tool = "index" /\ request.status = "ok" =>
    LET converged(wanted) ==
        /\ wanted.nodes \subseteq Loaded.nodes /\ wanted.rels \subseteq Loaded.rels
        /\ {r \in Loaded.rels : r.kind \in Derived} = {r \in wanted.rels : r.kind \in Derived}
        /\ SqlOf(Loaded) = SqlOf(wanted)
        /\ request.docs = LiveKeys(request.graph)
        /\ request.replace =>
             request.graph = [c \in Commits |-> IF c = request.source.commit THEN wanted ELSE Nothing]
    IN  converged(CodeGraph(request.source))

(* At no moment, not after a failure either, does the lexical index find a
   callable that the graph does not have (ingest.py:676-680: "Remove stale
   search hits before the corresponding graph nodes disappear").             *)
SearchHitsLive == request.tool = "index" => request.docs \subseteq LiveKeys(request.graph)
=============================================================================
