--------------------------- MODULE GraphProjection ---------------------------
(***************************************************************************)
(* The code graph of one snapshot, built in one pass                       *)
(* (src/src/codekg/bulk_export.py:705-968, from the rows of                *)
(* src/src/codekg/loader.py) and in shards                                 *)
(* (src/src/codekg/bulk_projection.py, bulk_spool.py): the files are cut   *)
(* into batches, each a spool; all spools make one registry; each          *)
(* partition projects its spools and validates what it wrote; the          *)
(* validations are merged.                                                 *)
(*                                                                         *)
(* A file is CallResolution's with `rank`, the place of its path in the    *)
(* order of paths, `size`, `diagnostics`, their number, and `sql`, None or *)
(* the SqlNames file it is; the files of a snapshot are in walk order.  A  *)
(* node is [label, key, of] and a relationship [kind, start, end, of], `of` *)
(* being the data that a resolution determines.                            *)
(***************************************************************************)
EXTENDS CallResolution, SqlGraph

CONSTANTS
  Snapshots,    \* the snapshots to build graphs of
  BatchFiles,   \* files of a batch
  BatchBytes,   \* bytes of a batch of more than one file
  WorkerCounts  \* the choices of workers

ModuleKey(q) == <<"module", q>>
ExternalKey(q) == <<"external", q>>
Diagnostic(f, n) == <<f.path, <<"diagnostic">>, n>>
Label(y) == CASE y.kind = "type" -> "Type" [] y.kind = "method" -> "Method" [] OTHER -> "Function"
SymbolNode(f, y) == Node(Label(y), Ref(f, y).key, Plain)

(* The initialization of a module, which a file in SQL does not have.        *)
ModuleInits(f) == IF f.sql = None THEN {InitKey(f)} ELSE {}

(* The rows of a file that need no other file.                               *)
FileNodes(f) ==
  {Node("File", FileKey(f), Plain)}
  \cup {Node("ModuleInit", key, Plain) : key \in ModuleInits(f)}
  \cup {Node("ParseDiagnostic", Diagnostic(f, n), Plain) : n \in 1..f.diagnostics}
  \cup {SymbolNode(f, y) : y \in f.symbols}
FileRels(f) ==
  {Rel("CONTAINS", RepositoryKey, FileKey(f), Plain),
   Rel("DEFINES", FileKey(f), ModuleKey(f.module), Plain)}
  \cup (UNION {{Rel("CONTAINS", FileKey(f), key, Plain), Rel("INITIALIZES", ModuleKey(f.module), key, Plain)} :
                 key \in ModuleInits(f)})
  \cup {Rel("HAS_DIAGNOSTIC", FileKey(f), Diagnostic(f, n), Plain) : n \in 1..f.diagnostics}
  \cup {Rel("CONTAINS", FileKey(f), Ref(f, y).key, Plain) : y \in f.symbols}
ImportRels(f) ==
  {Rel("IMPORTS", FileKey(f), ExternalKey(i.module), <<"import", i.name, i.alias>>) :
     i \in ToSet(f.imports)}
MethodRels(ix, f) ==
  {Rel("HAS_METHOD", The(Types(ix, {y.parent})).key, Ref(f, y).key, Plain) :
     y \in {m \in f.symbols : m.kind = "method" /\ Cardinality(Types(ix, {m.parent})) = 1}}

(* The names a base may stand for, the best first.                           *)
Alias(b, i) ==
  LET q == IF i.name = i.module THEN i.module ELSE i.module \o i.name
      named == IF i.alias = None /\ Len(i.name) > 1 THEN <<>>
               ELSE (IF i.alias = None THEN i.name[1] ELSE i.alias) :> q
  IN  named @@ b @@ (IF i.alias = None THEN i.module[1] :> i.module ELSE named)
Aliases(f) == FoldLeft(Alias, <<>>, f.imports)
CandidateNames(f, base) ==
  LET a == Aliases(f)
      through(raw) == SetToSeq(Through(a, raw))
  IN  (IF base.qname = None THEN <<>> ELSE <<base.qname>>)
      \o (IF base.qname # None /\ Len(base.qname) > 1 THEN through(base.qname) ELSE <<>>)
      \o through(<<base.name>>)
Single(ix, q) == Cardinality(Types(ix, {q})) = 1

(* The first of some names that a test of places chooses.                    *)
FirstOf(ix, names, chosen) == IF chosen = {} THEN None ELSE The(Types(ix, {names[Min(chosen)]})).key

(* In one pass, the first candidate that is one type ends the search.        *)
Inherits(ix, f) ==
  {r \in {LET names == CandidateNames(f, base)
          IN  Rel("INHERITS", The(Types(ix, {base.type})).key,
                  FirstOf(ix, names, {n \in DOMAIN names : Single(ix, names[n])}), Plain) :
            base \in {e \in ToSet(f.bases) : Single(ix, e.type)}} :
     r.end \notin {None, r.start}}
(* In a shard, a candidate that is the type itself is passed over.           *)
ShardInherits(ix, f) ==
  {r \in {LET child == The(Types(ix, {base.type})).key
              names == CandidateNames(f, base)
          IN  Rel("INHERITS", child,
                  FirstOf(ix, names, {n \in DOMAIN names : Single(ix, names[n])
                                                           /\ The(Types(ix, {names[n]})).key # child}), Plain) :
            base \in {e \in ToSet(f.bases) : Single(ix, e.type)}} : r.end # None}

(* A call site, what it resolves to, and the edges this gives.               *)
CallKey(f, call, r) == <<f.path, "call", IF r.owner = None THEN call.owner ELSE r.owner, call.at>>
CallNode(f, call, r) ==
  Node("CallSite", CallKey(f, call, r), <<r.status, r.candidates, r.initializer>>)
CallOwnerRel(f, call, r) ==
  IF r.owner = None THEN {} ELSE {Rel("HAS_CALLSITE", r.owner, CallKey(f, call, r), Plain)}
CalledRels(f, call, r) ==
  LET target == IF r.constructs # None THEN r.initializer ELSE r.target
      key == CallKey(f, call, r)
  IN  IF target = None \/ r.owner = None THEN {}
      ELSE {Rel("CALLS", r.owner, target, key), Rel("EXACT_CALLS", r.owner, target, key),
            Rel("RESOLVES_TO", key, target, key)}
ConstructRels(f, call, r) ==
  LET key == CallKey(f, call, r)
  IN  IF r.constructs = None \/ r.owner = None THEN {}
      ELSE {Rel("CONSTRUCTS", key, r.constructs, key), Rel("CONSTRUCTS", r.owner, r.constructs, key)}
CallRels(f, call, r) == CallOwnerRel(f, call, r) \cup CalledRels(f, call, r) \cup ConstructRels(f, call, r)

Resolved(ix, f) == {[f |-> f, call |-> c, r |-> Resolve(ix, f, c)] : c \in f.calls}

(* The SQL of a snapshot: what all files share of it, and the files' own.    *)
SqlPart(s, ix) ==
  LET ranks == {f.rank : f \in ToSet(s)}
  IN  [nodes |-> SqlGlobalNodes(ix, ranks) \cup UNION {SqlNodes(ix, f) : f \in SqlFiles(s)},
       rels |-> SqlGlobalRels(ix, ranks) \cup UNION {SqlRels(ix, f) : f \in SqlFiles(s)}]

(* The whole graph in one pass.                                              *)
BuildGraph(s, ix) ==
  LET files == ToSet(s)
      graph(calls) ==
       [nodes |-> {Node("Repository", RepositoryKey, Plain)}
                 \cup {Node("Module", ModuleKey(f.module), Plain) : f \in files}
                 \cup (UNION {FileNodes(f) : f \in files})
                 \cup (UNION {{Node("Module", r.end, Plain) : r \in ImportRels(f)} : f \in files})
                 \cup {CallNode(c.f, c.call, c.r) : c \in calls} \cup SqlPart(s, SqlIndex(s)).nodes,
        rels |-> SqlPart(s, SqlIndex(s)).rels
                 \cup (UNION {FileRels(f) \cup MethodRels(ix, f) \cup ImportRels(f) \cup Inherits(ix, f) : f \in files})
                 \cup UNION {CallRels(c.f, c.call, c.r) : c \in calls}]
  IN  graph(UNION {Resolved(ix, f) : f \in files})

(***************************************************************************)
(* Shards: batches of files, the partition of each, and who owns what      *)
(* several files share.                                                    *)
(***************************************************************************)
(* The batch of each file, and the files and bytes of the last batch.        *)
Batched(s) ==
  FoldLeft(LAMBDA b, f :
             IF b.files > 0 /\ (b.files >= BatchFiles \/ b.bytes + f.size > BatchBytes)
             THEN [of |-> Append(b.of, b.last + 1), last |-> b.last + 1, files |-> 1, bytes |-> f.size]
             ELSE [of |-> Append(b.of, b.last), last |-> b.last, files |-> b.files + 1,
                   bytes |-> b.bytes + f.size],
           [of |-> <<>>, last |-> 0, files |-> 0, bytes |-> 0], s)
Partitions(s, workers) == Max({1, Min({2 * workers, Batched(s).last + 1})})
PartitionOf(s, workers) ==
  [n \in DOMAIN s |-> (Batched(s).of[n] % Partitions(s, workers)) + 1]

Owns(s, f, sharing) == \A g \in {h \in ToSet(s) : sharing[h]} : f.rank <= g.rank
OwnsModule(s, f) == Owns(s, f, [g \in ToSet(s) |-> g.module = f.module])
(* Faulty variant: every file that imports a module emits its node.          *)
AnyoneOwns(s, f, module) == TRUE

OwnsExternal(s, f, module) ==
  Owns(s, f, [g \in ToSet(s) |-> \E i \in ToSet(g.imports) : i.module = module])

ShardSql(ix, f) ==
  IF f.sql = None THEN [nodes |-> {}, rels |-> {}]
  ELSE [nodes |-> SqlGlobalNodes(ix, {f.rank}) \cup SqlNodes(ix, f),
        rels |-> SqlGlobalRels(ix, {f.rank}) \cup SqlRels(ix, f)]
ShardNodes(s, f, calls) ==
  FileNodes(f)
  \cup {Node("Module", ModuleKey(f.module), Plain) : m \in {n \in {1} : OwnsModule(s, f)}}
  \cup {Node("Module", ExternalKey(m), Plain) :
          m \in {i.module : i \in {j \in ToSet(f.imports) : OwnsExternal(s, f, j.module)}}}
  \cup {CallNode(f, c.call, c.r) : c \in calls}
ShardRels(ix, f, calls) ==
  FileRels(f) \cup MethodRels(ix, f) \cup ImportRels(f) \cup ShardInherits(ix, f)
  \cup UNION {CallRels(f, c.call, c.r) : c \in calls}

Nothing == [nodes |-> {}, rels |-> {}]
(* A partition may meet an imported module or a global of SQL again; an
   IMPORTS or INHERITS relationship may come twice; nothing else may.        *)
Known(part, n) == n.key[1] \in {"external", "sql"} /\ n \in part.nodes
Clashes(a, b) ==
  \/ \E x \in a.nodes, y \in b.nodes : x.key = y.key
  \/ \E r \in a.rels \cap b.rels : r.kind \notin {"IMPORTS", "INHERITS"}
Both(a, b) == [nodes |-> a.nodes \cup b.nodes, rels |-> a.rels \cup b.rels]
Dangles(g) == LET keys == {n.key : n \in g.nodes}
              IN  \E r \in g.rels : {r.start, r.end} \ keys # {}

ShardsInit ==
  /\ \E s \in Snapshots, w \in WorkerCounts :
       request = [tool |-> "shards", snapshot |-> s, workers |-> w, graph |-> Nothing, status |-> "new"]
  /\ progress = Idle

(* The registry is built from the spools, then the partitions are run.       *)
BeginShards ==
  /\ Asked("shards")
  /\ progress' = [pc |-> "shards.project", next |-> 1,
                  parts |-> [p \in 1..Partitions(request.snapshot, request.workers) |->
                               IF p = 1 THEN [Nothing EXCEPT !.nodes = {Node("Repository", RepositoryKey, Plain)}]
                               ELSE Nothing]]
  /\ UNCHANGED request

Written(p, new) ==
  IF Clashes(progress.parts[p], new) THEN Answer("duplicate")
  ELSE /\ progress' = [progress EXCEPT !.next = @ + 1, !.parts[p] = Both(@, new)]
       /\ UNCHANGED request
Projected(f, ix, p) ==
  LET sql == ShardSql(SqlIndex(request.snapshot), f)
      rows(calls) ==
        [nodes |-> {n \in ShardNodes(request.snapshot, f, calls) \cup sql.nodes : ~Known(progress.parts[p], n)},
         rels |-> ShardRels(ix, f, calls) \cup sql.rels]
  IN  Written(p, rows(Resolved(ix, f)))
ProjectFile ==
  /\ progress.pc = "shards.project" /\ progress.next <= Len(request.snapshot)
  /\ Projected(request.snapshot[progress.next], RegistryIndex(request.snapshot),
               PartitionOf(request.snapshot, request.workers)[progress.next])
EndProject ==
  /\ progress.pc = "shards.project" /\ progress.next > Len(request.snapshot)
  /\ progress' = [pc |-> "shards.merge", parts |-> progress.parts, merged |-> Nothing]
  /\ UNCHANGED request

MergePartition ==
  /\ progress.pc = "shards.merge" /\ progress.parts # <<>>
  /\ IF Clashes(progress.merged, Head(progress.parts)) THEN Answer("duplicate")
     ELSE /\ progress' = [progress EXCEPT !.parts = Tail(@),
                                          !.merged = Both(@, Head(progress.parts))]
          /\ UNCHANGED request
PublishShards ==
  /\ progress.pc = "shards.merge" /\ progress.parts = <<>>
  /\ IF Dangles(progress.merged) THEN Answer("dangling")
     ELSE /\ request' = [request EXCEPT !.graph = progress.merged, !.status = "published"]
          /\ progress' = Idle

ShardsNext == BeginShards \/ ProjectFile \/ EndProject \/ MergePartition \/ PublishShards

-----------------------------------------------------------------------------
(* However the files are cut into spools and partitions, the projection of a
   snapshot fails on nothing and gives the graph that one pass gives
   (bulk-export-sharded-implementation-state.md:38-42, the gates of parity
   with the one-pass graph and between worker counts).                       *)
ShardsEqualOnePass ==
  request.tool = "shards" /\ request.status # "new" =>
    /\ request.status = "published"
    /\ request.graph = BuildGraph(request.snapshot, InMemoryIndex(request.snapshot))

(* The two constructs the builders disagree on: a callable with the name of a
   type of its file, and a base that is called as the type itself.           *)
Disputed(s) ==
  \/ \E f \in ToSet(s) : \E x, y \in f.symbols : x.qname = y.qname /\ x.kind = "type" /\ y.kind # "type"
  \/ \E f \in ToSet(s) : \E b \in ToSet(f.bases) : b.type = b.qname
(* ... which holds of every snapshot without them (bulk_projection.py:39-201,
   307-465, 514-809).                                                        *)
ShardsAgree ==
  request.tool = "shards" /\ ~Disputed(request.snapshot) => ShardsEqualOnePass
=============================================================================
