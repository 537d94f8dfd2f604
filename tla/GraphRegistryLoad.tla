------------------------- MODULE GraphRegistryLoad -------------------------
(***************************************************************************)
(* GraphRegistry.load and _load_generation                                 *)
(* (src/src/codekg/graph_registry.py:170-432): a registry file names graphs *)
(* with their generation manifests, and bridge contexts that join an        *)
(* application graph to a database graph and some of its extensions.        *)
(*                                                                         *)
(* A registry is [graphs, contexts, default]: graphs is a sequence of       *)
(* [id, kind, snapshots, stored, readable, zvec], a snapshot is [alias,     *)
(* role, revision, dependencies], stored is the set of <<alias, revision>>  *)
(* in corpus.sqlite; a context is [id, app, db, extensions, searchPath].    *)
(***************************************************************************)
EXTENDS Integers, SequencesExt, Requests

CONSTANTS
  RegistryFiles,  \* the registry files tried
  NoDefault,
  GraphCap, ContextCap   \* 32 graphs, 256 contexts

ASSUME FilesAssumption ==
  /\ GraphCap \in Nat /\ ContextCap \in Nat
  /\ \A f \in RegistryFiles :
       /\ f.graphs \in Seq(ToSet(f.graphs)) /\ f.contexts \in Seq(ToSet(f.contexts))
       /\ \A g \in ToSet(f.graphs) : g.snapshots \in Seq(ToSet(g.snapshots))

File == request.file
NoRepeats(s) == \A m, n \in DOMAIN s : s[m] = s[n] => m = n

Aliases(g) == {g.snapshots[n].alias : n \in DOMAIN g.snapshots}
Roles(g) == {g.snapshots[n].role : n \in DOMAIN g.snapshots}
SnapshotOf(g, alias) == CHOOSE s \in ToSet(g.snapshots) : s.alias = alias
PostgresOf(g) == CHOOSE s \in ToSet(g.snapshots) : s.role = "postgres"
GraphNamed(id) == CHOOSE g \in ToSet(File.graphs) : g.id = id
IsGraph(id, kind) == \E g \in ToSet(File.graphs) : g.id = id /\ g.kind = kind

(* _load_generation up to the walk over the extensions' dependencies.        *)
ManifestOk(g) ==
  /\ g.readable /\ g.snapshots # <<>>
  /\ NoRepeats([n \in DOMAIN g.snapshots |-> g.snapshots[n].alias])
  /\ Roles(g) \subseteq {"application", "postgres", "extension"}
  /\ \A n \in DOMAIN g.snapshots : g.snapshots[n].dependencies \subseteq Aliases(g)
  /\ g.kind = "application" => Roles(g) = {"application"}
  /\ g.kind = "database" =>
       /\ Cardinality({n \in DOMAIN g.snapshots : g.snapshots[n].role = "postgres"}) = 1
       /\ "application" \notin Roles(g)
       /\ PostgresOf(g).dependencies = {}
(* ... and after it.                                                         *)
StoredOk(g) == g.stored = {<<g.snapshots[n].alias, g.snapshots[n].revision>> :
                             n \in DOMAIN g.snapshots}

LoadInit ==
  /\ \E f \in RegistryFiles : request = [tool |-> "load", file |-> f, status |-> "new"]
  /\ progress = Idle

BeginLoad ==
  /\ Asked("load")
  /\ IF File.graphs = <<>> \/ Len(File.graphs) > GraphCap \/ Len(File.contexts) > ContextCap
     THEN Answer("rejected")
     ELSE /\ progress' = [pc |-> "load.graph", n |-> 1, extension |-> 1, pending |-> {},
                          seen |-> {}]
          /\ UNCHANGED request

Graph == File.graphs[progress.n]

(* The next entry of [[graphs]]; then the default.                           *)
LoadGraph ==
  /\ progress.pc = "load.graph"
  /\ IF progress.n > Len(File.graphs)
     THEN IF /\ \E g \in ToSet(File.graphs) : g.kind = "application" \/ File.default # NoDefault
             /\ ~IsGraph(File.default, "application")
          THEN Answer("rejected")
          ELSE progress' = [progress EXCEPT !.pc = "load.context", !.n = 1] /\ UNCHANGED request
     ELSE IF \/ Graph.kind \notin {"application", "database"}
             \/ \E m \in 1 .. progress.n - 1 : File.graphs[m].id = Graph.id
             \/ ~ManifestOk(Graph) \/ (Graph.zvec /\ Graph.kind # "application")
     THEN Answer("rejected")
     ELSE progress' = [progress EXCEPT !.pc = "load.extension", !.extension = 1]
          /\ UNCHANGED request

(* The next snapshot of a database graph, if it is an extension.             *)
BeginExtension ==
  /\ progress.pc = "load.extension"
  /\ IF Graph.kind = "application" \/ progress.extension > Len(Graph.snapshots)
     THEN IF StoredOk(Graph)
          THEN progress' = [progress EXCEPT !.pc = "load.graph", !.n = @ + 1] /\ UNCHANGED request
          ELSE Answer("rejected")
     ELSE /\ progress' =
               IF Graph.snapshots[progress.extension].role # "extension"
               THEN [progress EXCEPT !.extension = @ + 1]
               ELSE [progress EXCEPT !.pc = "load.walk", !.seen = {},
                       !.pending = Graph.snapshots[progress.extension].dependencies]
          /\ UNCHANGED request

(* Its dependencies and theirs, each once; PostgreSQL must be among them.    *)
WalkDependency ==
  /\ progress.pc = "load.walk"
  /\ IF progress.pending = {}
     THEN IF PostgresOf(Graph).alias \in progress.seen
          THEN progress' = [progress EXCEPT !.pc = "load.extension", !.extension = @ + 1]
               /\ UNCHANGED request
          ELSE Answer("rejected")
     ELSE /\ \E d \in progress.pending :
               progress' = IF d \in progress.seen THEN [progress EXCEPT !.pending = @ \ {d}]
                           ELSE [progress EXCEPT
                                   !.seen = @ \cup {d},
                                   !.pending = (@ \ {d}) \cup
                                     (SnapshotOf(Graph, d).dependencies \ progress.seen)]
          /\ UNCHANGED request

(* The next entry of [[contexts]]: what it names is there ...                *)
ContextNamed(c) ==
  /\ IsGraph(c.app, "application") /\ IsGraph(c.db, "database")
  /\ NoRepeats(c.extensions) /\ NoRepeats(c.searchPath)
  /\ ToSet(c.extensions) \subseteq Aliases(GraphNamed(c.db))
  /\ \A x \in ToSet(c.extensions) : SnapshotOf(GraphNamed(c.db), x).role = "extension"
(* ... and of the selected extensions the direct dependencies are looked at. *)
ContextOk(c) ==
  /\ ContextNamed(c)
  /\ \A x \in ToSet(c.extensions) :
       SnapshotOf(GraphNamed(c.db), x).dependencies \subseteq
         ToSet(c.extensions) \cup {PostgresOf(GraphNamed(c.db)).alias}

LoadContext ==
  /\ progress.pc = "load.context"
  /\ IF progress.n > Len(File.contexts) THEN Answer("accepted")
     ELSE IF \/ \E m \in 1 .. progress.n - 1 : File.contexts[m].id = File.contexts[progress.n].id
             \/ ~ContextOk(File.contexts[progress.n])
     THEN Answer("rejected")
     ELSE progress' = [progress EXCEPT !.n = @ + 1] /\ UNCHANGED request

LoadNext == BeginLoad \/ LoadGraph \/ BeginExtension \/ WalkDependency \/ LoadContext

(* One registry is loaded, and nothing else is done.                         *)
LoadSpec == LoadInit /\ [][LoadNext]_vars

-----------------------------------------------------------------------------
(* Everything an extension needs, by any chain of dependencies: the least set
   that has its own and those of each of its members.                        *)
ClosedFor(g, alias, needed) ==
  /\ SnapshotOf(g, alias).dependencies \subseteq needed
  /\ \A d \in needed : SnapshotOf(g, d).dependencies \subseteq needed
Needs(g, alias) ==
  {d \in Aliases(g) : \A needed \in SUBSET Aliases(g) : ClosedFor(g, alias, needed) => d \in needed}

Materialized(c) ==
  \A x \in ToSet(c.extensions) :
    Needs(GraphNamed(c.db), x) \subseteq ToSet(c.extensions) \cup {PostgresOf(GraphNamed(c.db)).alias}

(* A registry that is accepted gives every context a closed choice of
   extensions over one PostgreSQL revision that all of them need, although the
   context check follows no chain of dependencies; and a registry whose parts
   are in order is refused only if some choice is not closed
   (graph_registry.py:237-300, 382-402).                                     *)
Extensions(g) == {s.alias : s \in {t \in ToSet(g.snapshots) : t.role = "extension"}}
DistinctIds(items) == NoRepeats([n \in DOMAIN items |-> items[n].id])
InOrder ==
  /\ Len(File.graphs) <= GraphCap /\ Len(File.contexts) <= ContextCap
  /\ DistinctIds(File.graphs) /\ DistinctIds(File.contexts) /\ IsGraph(File.default, "application")
  /\ \A g \in ToSet(File.graphs) :
       /\ g.kind \in {"application", "database"} /\ (g.zvec => g.kind = "application")
       /\ ManifestOk(g) /\ StoredOk(g)
  /\ \A c \in ToSet(File.contexts) : ContextNamed(c)
Databases == {g \in ToSet(File.graphs) : g.kind = "database"}
AcceptedContextsClosed ==
  request.tool = "load" =>
    /\ request.status = "accepted" =>
         /\ \A c \in ToSet(File.contexts) : Materialized(c)
         /\ \A g \in Databases : \A x \in Extensions(g) : PostgresOf(g).alias \in Needs(g, x)
    /\ request.status = "rejected" /\ InOrder =>
         \/ \E g \in Databases : \E x \in Extensions(g) : PostgresOf(g).alias \notin Needs(g, x)
         \/ \E c \in ToSet(File.contexts) : ~Materialized(c)
=============================================================================
