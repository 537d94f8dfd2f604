------------------------- MODULE FederationCatalog -------------------------
(***************************************************************************)
(* What a federated query reads: the facts in the corpus.sqlite of one     *)
(* generation (src/src/codekg/graph_catalog.py) and the resolution of one  *)
(* piece of application evidence to a routine under a bridge context       *)
(* (src/src/codekg/federation.py:806-970).                                 *)
(*                                                                         *)
(* A catalog is a record: generation, aliases of its snapshots, routines,  *)
(* intents (evidence rows) and edges, each a sequence in the order of the  *)
(* queries' ORDER BY; an application's catalog also holds calls, the       *)
(* EXACT_CALLS of its Neo4j graph.  Names, paths and keys are opaque; a    *)
(* routine's `semantic` stands for the columns that tell it from a         *)
(* duplicate declaration, an intent's `at` for (snapshot, path, ordinal).   *)
(* A deployment is one activated registry: a context and two generations.   *)
(***************************************************************************)
EXTENDS Integers, RowSelection, Requests

CONSTANTS
  CandidateLimit,  \* candidates returned per scope (32 in the code)
  PageSize,        \* rows per posting or adjacency page (100 in the code)
  Deployments,     \* the registries a server may be started with
  ContextOf,       \* ContextOf[d]: the bridge context: searchPath and visible
  AppOf, DbOf,     \* AppOf[d], DbOf[d]: the catalogs of its two generations
  VisitedCap,      \* nodes a walk may visit (1000 in the code)
  EdgeCap          \* edges a walk may read (10000 in the code)

App == AppOf[request.served]
Db  == DbOf[request.served]
Context == ContextOf[request.served]

-----------------------------------------------------------------------------
(* _read_rows and _page: at most limit rows, and whether there was another. *)
Page(rows, limit) ==
  [items |-> SubSeq(rows, 1, IF Len(rows) < limit THEN Len(rows) ELSE limit),
   truncated |-> Len(rows) > limit]

(* The postings of one name after a position, in catalog order.             *)
ReverseIntents(cat, name, after, limit) ==
  Page(Among(cat.intents, {i \in ToSet(cat.intents) : i.name = name /\ ~i.dynamic /\ i.at > after}), limit)

ListIntents(cat, path, limit) ==
  Page(Among(cat.intents, {i \in ToSet(cat.intents) : i.path = path}), limit)

IntentsForOwner(cat, owner, limit) ==
  Page(Among(cat.intents, {i \in ToSet(cat.intents) : i.owner = owner}), limit)

(* Only exact, unconditional edges are neighbours.                          *)
Outgoing(cat, key) == Page(Among(cat.edges, {e \in ToSet(cat.edges) : e.source = key /\ e.exact}), PageSize)
Incoming(cat, key) == Page(Among(cat.edges, {e \in ToSet(cat.edges) : e.target = key /\ e.exact}), PageSize)

IsRoutine(cat, key) == \E n \in DOMAIN cat.routines : cat.routines[n].key = key
IsEvidence(cat, key) == \E n \in DOMAIN cat.intents : cat.intents[n].key = key
RoutineAt(cat, key) == CHOOSE r \in ToSet(cat.routines) : r.key = key
IntentAt(cat, key) == CHOOSE i \in ToSet(cat.intents) : i.key = key
Known(cat, key) == IsRoutine(cat, key) \/ IsEvidence(cat, key) \/ key \in cat.natives

-----------------------------------------------------------------------------
TargetKinds(kind) == CASE kind = "function"  -> {"function", "aggregate", "window"}
                       [] kind = "procedure" -> {"procedure"}
                       [] OTHER              -> {}

(* A procedure's OUT arguments take part in a CALL.                          *)
CallArity(r) == r.arity + (IF r.kind = "procedure" /\ r.out # None THEN r.out ELSE 0)

(* The arity clause of routine_candidates' WHERE.                            *)
AcceptsArity(r, n) ==
  \/ CallArity(r) = n
  \/ r.defaults > 0 /\ n \in (CallArity(r) - r.defaults) .. CallArity(r)
  \/ r.variadic > 0 /\ n >= CallArity(r) - r.defaults - r.variadic

(* One routine per alias and meaning, the first in the catalog's order.      *)
OnePerMeaning(hits) ==
  LET Repeats(n) == \E m \in 1 .. n - 1 : /\ hits[m].alias = hits[n].alias
                                          /\ hits[m].semantic = hits[n].semantic
      firsts == Among([n \in DOMAIN hits |-> n], {n \in DOMAIN hits : ~Repeats(n)})
  IN  [n \in DOMAIN firsts |-> hits[firsts[n]]]

(* Candidates in the given snapshots and schema.                             *)
RoutineCandidates(cat, aliases, i, schema) ==
  Page(OnePerMeaning(Among(cat.routines, {r \in ToSet(cat.routines) :
         /\ r.alias \in aliases /\ r.name = i.name
         /\ schema # None => r.schema = schema
         /\ i.kind # None => r.kind \in TargetKinds(i.kind)
         /\ i.arity # None => AcceptsArity(r, i.arity)})), CandidateLimit)

(* Can the call be bound to this routine without looking at types?  A call
   whose evidence names argument types cannot, but no evidence that the export
   writes names any.                                                         *)
SignatureKnown(i, r) ==
  /\ i.arity # None /\ i.kind \in {"function", "procedure"}
  /\ r.kind \in TargetKinds(i.kind)
  /\ i.kind = "procedure" => r.out # None /\ ~(r.out > 0 /\ r.defaults > 0)
  /\ \/ CallArity(r) = i.arity
     \/ /\ CallArity(r) - r.defaults - r.variadic <= i.arity
        /\ r.variadic > 0 \/ i.arity <= CallArity(r)
  /\ ~r.condition

-----------------------------------------------------------------------------
(* _resolve.  The schemas of the search path are tried in turn, and in each
   the application's own routines hide the database's.                      *)
Scopes(i, context) == IF i.schema # None THEN <<i.schema>>
                      ELSE IF context.searchPath # <<>> THEN context.searchPath
                      ELSE <<None>>

Hide(own, other) == IF own.items # <<>> THEN [page |-> own, graph |-> "app"]
                                        ELSE [page |-> other, graph |-> "db"]
Scope(i, context, app, db, schema) ==
  Hide(RoutineCandidates(app, app.aliases, i, schema),
       RoutineCandidates(db, {db.postgres} \cup context.visible, i, schema))

Judge(i, page) ==
  CASE page.truncated -> "candidate_overflow"
    [] ~page.truncated /\ i.origin = "python_execute" /\ ~i.verified -> "receiver_unverified"
    [] OTHER ->
         IF i.condition \/ \E n \in DOMAIN page.items : page.items[n].condition
         THEN "conditional"
         ELSE IF Len(page.items) = 1 /\ SignatureKnown(i, page.items[1])
         THEN "exact" ELSE "ambiguous"

Unresolved(status) == [status |-> status, graph |-> "app", candidates |-> <<>>]
FirstHit(i, scopes) ==
  IF scopes = <<>> THEN Unresolved("unresolved")
  ELSE [status |-> Judge(i, Head(scopes).page), graph |-> Head(scopes).graph,
        candidates |-> Head(scopes).page.items]

Resolve(i, context, app, db) ==
  IF i.dynamic THEN Unresolved("dynamic")
  ELSE IF i.name = None THEN Unresolved("unresolved")
  ELSE IF i.origin = "markdown" THEN Unresolved("documentation")
  ELSE LET scopes == [n \in DOMAIN Scopes(i, context) |-> Scope(i, context, app, db, Scopes(i, context)[n])]
       IN  FirstHit(i, Among(scopes, {s \in ToSet(scopes) : s.page.items # <<>>}))

CandidateKeys(resolution) ==
  {resolution.candidates[n].key : n \in DOMAIN resolution.candidates}

(* _database_edge_allowed: a file's ownership of a statement is no execution;
   the body of a routine and the call it makes are.                         *)
Executes(kind, i, r) ==
  /\ i.origin = "routine_body" /\ ~i.dynamic /\ ~i.condition
  /\ i.arity # None /\ ~r.condition
  /\ IF kind = "INVOKES_ROUTINE" THEN SignatureKnown(i, r) ELSE i.owner = r.key

EdgeAllowed(db, e) ==
  \/ e.kind \in {"BINDS_TO_NATIVE", "CALLS_NATIVE"}
  \/ /\ e.kind = "HAS_EVIDENCE" /\ IsEvidence(db, e.target) /\ IsRoutine(db, e.source)
     /\ Executes(e.kind, IntentAt(db, e.target), RoutineAt(db, e.source))
  \/ /\ e.kind = "INVOKES_ROUTINE" /\ IsEvidence(db, e.source) /\ IsRoutine(db, e.target)
     /\ Executes(e.kind, IntentAt(db, e.source), RoutineAt(db, e.target))
=============================================================================
