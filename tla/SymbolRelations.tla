-------------------------- MODULE SymbolRelations --------------------------
(***************************************************************************)
(* The structural queries of src/src/codekg/queries/code.py:719-1257 behind *)
(* their MCP tools (src/src/codekg/mcp/server.py:783-1085): an identifier   *)
(* is resolved to one symbol, and callers, callees, call paths, ancestors   *)
(* and unreferenced functions are read for it.                             *)
(*                                                                         *)
(* A graph is [symbols, sites, exact, inherits].  A symbol is [key, repo,   *)
(* commit, qname, label]; a qname is a sequence of atoms, "." among them.   *)
(* A call site is [snapshot, caller, callee]; caller is None at module      *)
(* level.  exact is the set of EXACT_CALLS pairs.                          *)
(***************************************************************************)
EXTENDS Integers, SequencesExt, Requests

CONSTANTS
  CodeGraphs,       \* the graphs tried
  SymbolQuestions,  \* records [identifier, repo, commit, labels]
  CallDepths        \* depths asked for, already clamped to 1..10

(* The keys are unique constraints of the schema (schema/bootstrap.py:30-32). *)
ASSUME GraphsAssumption ==
  /\ CallDepths \subseteq Nat \ {0} /\ None \notin Nat
  /\ \A g \in CodeGraphs :
       /\ \A s, t \in g.symbols : s.key = t.key => s = t
       /\ \A e \in g.exact \cup g.inherits : e = <<e[1], e[2]>>

(* ENDS WITH, as the suffix query has it.                                    *)
EndsWith(qname, identifier) ==
  /\ Len(identifier) <= Len(qname)
  /\ SubSeq(qname, Len(qname) - Len(identifier) + 1, Len(qname)) = identifier

Snapshot(s) == <<s.repo, s.commit>>
Failed(status) == [status |-> status, symbol |-> None]
Unique(found, ambiguous) ==
  IF Cardinality(found) = 1 THEN [status |-> "ok", symbol |-> CHOOSE s \in found : TRUE]
  ELSE Failed(ambiguous)

InScope(g, q) == {s \in g.symbols : /\ s.label \in q.labels /\ s.repo = q.repo
                                    /\ q.commit \in {None, s.commit}}

(* The fallbacks of _resolve_symbol: the whole qualified name, then a suffix. *)
BySuffix(found) == IF found = {} THEN Failed("not_found") ELSE Unique(found, "ambiguous")
ByName(g, q, found) ==
  IF found # {} THEN Unique(found, "ambiguous")
  ELSE IF "." \notin ToSet(q.identifier) THEN Failed("not_found")
  ELSE BySuffix({s \in InScope(g, q) : EndsWith(s.qname, q.identifier)})

(* An exact key is looked up in every snapshot, and then has to agree.       *)
ByKey(s, q) ==
  IF (q.repo # None /\ s.repo # q.repo) \/ (q.commit # None /\ s.commit # q.commit)
  THEN Failed("mismatch") ELSE [status |-> "ok", symbol |-> s]

LooksExact(identifier) == Head(identifier) = "@"  \* a stable key

ResolveSymbol(g, q) ==
  LET exact == {s \in g.symbols : s.label \in q.labels /\ s.key = q.identifier}
  IN  IF exact # {} THEN ByKey(CHOOSE s \in exact : TRUE, q)
      ELSE IF LooksExact(q.identifier) THEN Failed("not_found")
      ELSE IF q.repo = None THEN Failed("repository_required")
      ELSE ByName(g, q, {s \in InScope(g, q) : s.qname = q.identifier})

-----------------------------------------------------------------------------
SymbolOf(g, key) == CHOOSE s \in g.symbols : s.key = key
Inside(g, key, snapshot) == \E s \in g.symbols : s.key = key /\ Snapshot(s) = snapshot

(* Faulty variant: paths may lead through other snapshots.                   *)
WithinAny(g, edges, start, depth) ==
  LET Next1(keys) == {e[2] : e \in {f \in edges : f[1] \in keys}}
      Level[n \in 1 .. depth] == IF n = 1 THEN Next1({start})
                                 ELSE Level[n - 1] \cup Next1(Level[n - 1])
  IN  Level[depth]

(* Keys at the ends of paths of 1..depth edges that stay in the snapshot.    *)
Within(g, edges, start, depth) ==
  LET snapshot == Snapshot(SymbolOf(g, start))
      Next1(keys) == {e[2] : e \in {f \in edges : f[1] \in keys /\ Inside(g, f[2], snapshot)}}
      Level[n \in 1 .. depth] == IF n = 1 THEN Next1({start})
                                 ELSE Level[n - 1] \cup Next1(Level[n - 1])
  IN  Level[depth]

Turned(edges) == {<<e[2], e[1]>> : e \in edges}

(* Call sites count at depth one, whatever the confidence of their target.   *)
SitesOf(g, snapshot) == {c \in g.sites : c.snapshot = snapshot}
Sited(g, key) == {<<c.caller, c.callee>> :
                    c \in {d \in SitesOf(g, Snapshot(SymbolOf(g, key))) : d.caller # None}}

Callers(g, key, depth) ==
  IF depth = 1 THEN Within(g, Turned(Sited(g, key)), key, 1) ELSE Within(g, Turned(g.exact), key, depth)
Callees(g, key, depth) ==
  IF depth = 1 THEN Within(g, Sited(g, key), key, 1) ELSE Within(g, g.exact, key, depth)

Hierarchy(g, key, direction, depth) ==
  Within(g, IF direction = "ancestors" THEN g.inherits ELSE Turned(g.inherits), key, depth)

(* trace_call_path between two symbols: a shortest path is read.             *)
PathLength(g, source, target, depth) ==
  LET lengths == {n \in 1 .. depth : target \in Within(g, g.exact, source, n)}
  IN  IF lengths = {} THEN None ELSE Min(lengths)

DeadCode(g, repo, commit) ==
  {s.key : s \in {t \in g.symbols : /\ t.repo = repo /\ commit \in {None, t.commit}
                                    /\ t.label \in {"Function", "Method"}
                                    /\ ~\E c \in SitesOf(g, Snapshot(t)) : c.callee = t.key}}

-----------------------------------------------------------------------------
(* request.selected is the resolved symbol, rows what was answered about it. *)
RelationsInit ==
  /\ \E g \in CodeGraphs, q \in SymbolQuestions, depth \in CallDepths :
       request = [tool |-> "relations", graph |-> g, question |-> q, depth |-> depth,
                  selected |-> None, rows |-> [callers |-> {}, callees |-> {},
                                               ancestors |-> {}, descendants |-> {}],
                  status |-> "new"]
  /\ progress = Idle

Relate(g, depth, found) ==
  request' = [request EXCEPT
    !.status = found.status, !.selected = found.symbol,
    !.rows = IF found.status # "ok" THEN @
             ELSE [callers     |-> Callers(g, found.symbol.key, depth),
                   callees     |-> Callees(g, found.symbol.key, depth),
                   ancestors   |-> Hierarchy(g, found.symbol.key, "ancestors", depth),
                   descendants |-> Hierarchy(g, found.symbol.key, "descendants", depth)]]

AskRelations ==
  /\ Asked("relations")
  /\ Relate(request.graph, request.depth, ResolveSymbol(request.graph, request.question))
  /\ UNCHANGED progress

RelationsNext == AskRelations

(* One question is put, and nothing else is done.                            *)
RelationsSpec == RelationsInit /\ [][RelationsNext]_vars

-----------------------------------------------------------------------------
(* The queries agree with each other, though each is a query of its own: what
   is listed lies in the snapshot of the selected symbol; a caller has the
   symbol among its callees, an ancestor among its descendants; a path is
   traced exactly when the target is listed within the depth, and never longer
   than it; and an unreferenced function has no callers
   (code.py:782-1046, "without ever crossing a graph snapshot").              *)
RelationsAgree ==
  request.tool = "relations" /\ request.status = "ok" =>
    LET g == request.graph  s == request.selected.key  d == request.depth
    IN  /\ \A f \in DOMAIN request.rows :
             \A k \in request.rows[f] : Snapshot(SymbolOf(g, k)) = Snapshot(request.selected)
        /\ \A k \in request.rows.callers : s \in Callees(g, k, d)
        /\ \A k \in request.rows.callees : s \in Callers(g, k, d)
        /\ \A k \in request.rows.ancestors : s \in Hierarchy(g, k, "descendants", d)
        /\ \A k \in {t.key : t \in g.symbols} \ {s} :
             d > 1 => ((PathLength(g, s, k, d) # None) <=> (k \in request.rows.callees))
        /\ s \in DeadCode(g, request.selected.repo, None) => Callers(g, s, 1) = {}
=============================================================================
