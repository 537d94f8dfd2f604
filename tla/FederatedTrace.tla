--------------------------- MODULE FederatedTrace ---------------------------
(***************************************************************************)
(* trace_application_database_path (src/src/codekg/federation.py:147-383): *)
(* from a piece of evidence, a file, or an entry function whose exact calls *)
(* are walked first, through exactly resolved calls, to a database object, *)
(* along database edges (_bounded_paths), under one budget of visited nodes *)
(* and read edges, a depth, a limit of paths and ten seconds that may end   *)
(* before any step.                                                        *)
(***************************************************************************)
EXTENDS FederationCatalog

CONSTANTS
  Questions,    \* records [evidence, path, entry, ref, target, depth, limit]
  EvidenceCap,  \* evidence read per file or owner (32 in the code)
  IntentCap,    \* evidence followed per request (128 in the code)
  PathCap       \* paths per database search (5 in the code)

(* The lists that are read are sequences, an intent is not the absence of one,
   and what is asked for has a depth and a limit.                            *)
ASSUME TraceAssumption ==
  /\ PageSize \in Nat /\ EvidenceCap \in Nat /\ IntentCap \in Nat /\ PathCap \in Nat
  /\ \A q \in Questions : q.depth \in Nat /\ q.limit \in Nat \ {0}
  /\ \A d \in Deployments :
       /\ AppOf[d].intents \in Seq(ToSet(AppOf[d].intents)) /\ None \notin ToSet(AppOf[d].intents)
       /\ \A i, j \in ToSet(AppOf[d].intents) : i.key = j.key => i = j
       /\ AppOf[d].calls \in Seq(ToSet(AppOf[d].calls))
       /\ DbOf[d].edges \in Seq(ToSet(DbOf[d].edges))

(* request.paths and request.truncated are what was answered.               *)
TraceInit ==
  /\ \E d \in Deployments, q \in Questions :
       request = [tool |-> "trace", served |-> d, question |-> q, status |-> "new", paths |-> <<>>,
                  truncated |-> FALSE]
  /\ progress = Idle

Given(q) == {f \in {"evidence", "path", "entry"} : q[f] # None}

(* The EXACT_CALLS of a function, by key, one more than a page.              *)
Calls(app, key) == Page(Among(app.calls, {c \in ToSet(app.calls) : c.source = key}), PageSize)

(* The arguments, and the evidence that is known at once.                    *)
AskTrace ==
  /\ Asked("trace")
  /\ LET q == request.question
         page == IF q.evidence # None
                 THEN Page(Among(App.intents, {i \in ToSet(App.intents) : i.key = q.evidence}), 1)
                 ELSE IF q.path # None THEN ListIntents(App, q.path, EvidenceCap)
                 ELSE Page(<<>>, 1)
     IN  IF Cardinality(Given(q)) # 1 THEN Answer("context_required")
         ELSE IF q.path = None /\ q.ref # App.generation THEN Answer("invalid_reference")
         ELSE IF q.entry # None /\ q.entry \notin App.owners \cup App.natives
         THEN Answer("not_found")
         ELSE /\ progress' = [pc |-> IF q.entry = None THEN "trace.target" ELSE "trace.reach",
                              late |-> FALSE, cut |-> page.truncated, visited |-> 0, edges |-> 0,
                              queue |-> <<[key |-> q.entry, chain |-> <<>>]>>, seen |-> {q.entry},
                              owners |-> <<>>,
                              intents |-> [n \in DOMAIN page.items |->
                                             [of |-> page.items[n], chain |-> <<>>]],
                              n |-> 1, bodies |-> <<>>, body |-> None,
                              depth |-> 0, found |-> <<>>, paths |-> <<>>]
              /\ UNCHANGED request

Spent == progress.late \/ progress.visited >= VisitedCap \/ progress.edges >= EdgeCap

(* One row of a frontier read: an unseen function is queued with the chain of
   calls that led to it.                                                    *)
Row(p, chain, call) ==
  IF Cardinality(p.seen) >= VisitedCap \/ p.edges >= EdgeCap THEN [p EXCEPT !.cut = TRUE]
  ELSE IF call.target \in p.seen THEN [p EXCEPT !.edges = @ + 1]
  ELSE [p EXCEPT !.edges = @ + 1, !.seen = @ \cup {call.target},
                 !.queue = Append(@, [key |-> call.target, chain |-> Append(chain, call.target)])]

TakeRows(p, chain, calls) == FoldLeft(LAMBDA r, call : Row(r, chain, call), p, calls)

(* Faulty variant: a function at the depth is dropped and not reported.      *)
FrontierUnreported(p, node, page) ==
  IF Len(node.chain) >= request.question.depth THEN p
  ELSE TakeRows([p EXCEPT !.cut = @ \/ page.truncated], node.chain, page.items)

(* _python_reachable: one function of the queue.                             *)
Frontier(p, node, page) ==
  IF Len(node.chain) >= request.question.depth THEN [p EXCEPT !.cut = TRUE]
  ELSE TakeRows([p EXCEPT !.cut = @ \/ page.truncated], node.chain, page.items)

ReachOne(node) ==
  Frontier([progress EXCEPT
              !.queue = Tail(@), !.visited = @ + 1,
              !.owners = IF node.key \in App.owners THEN Append(@, node) ELSE @],
           node, Calls(App, node.key))

ReachPython ==
  /\ progress.pc = "trace.reach"
  /\ progress' = IF progress.queue = <<>> THEN [progress EXCEPT !.pc = "trace.owned"]
                 ELSE IF Spent THEN [progress EXCEPT !.pc = "trace.owned", !.cut = TRUE]
                 ELSE ReachOne(progress.queue[1])
  /\ UNCHANGED request

(* The evidence of one reached owner.  An intent has one owner and an owner is
   reached once, so keeping unique keys changes nothing.                     *)
Collect(p, all, truncated) ==
  IF Len(all) >= IntentCap
  THEN [p EXCEPT !.owners = <<>>, !.cut = TRUE, !.intents = SubSeq(all, 1, IntentCap)]
  ELSE [p EXCEPT !.owners = Tail(@), !.intents = all, !.cut = @ \/ truncated]
OwnedBy(owner, page) ==
  Collect(progress,
          progress.intents \o [n \in DOMAIN page.items |->
                                 [of |-> page.items[n], chain |-> owner.chain]],
          page.truncated)

CollectOwned ==
  /\ progress.pc = "trace.owned"
  /\ progress' = IF progress.owners = <<>> THEN [progress EXCEPT !.pc = "trace.target"]
                 ELSE OwnedBy(progress.owners[1],
                              IntentsForOwner(App, progress.owners[1].key, EvidenceCap))
  /\ UNCHANGED request

CheckTarget ==
  /\ progress.pc = "trace.target"
  /\ IF request.question.target # None /\ ~Known(Db, request.question.target)
     THEN Answer("not_found")
     ELSE progress' = [progress EXCEPT !.pc = "trace.intents"] /\ UNCHANGED request

-----------------------------------------------------------------------------
Entry(q) == IF q.entry = None THEN 0 ELSE 1

(* A reported path: the calls to the evidence, the body evidence of an
   application routine between them (None if there is none), and the nodes
   from the database routine to the target.                                 *)
Path(chain, evidence, body, nodes) ==
  [chain |-> chain, evidence |-> evidence.key,
   body |-> IF body = None THEN None ELSE body.key, nodes |-> nodes]

(* _bounded_paths begins: at a routine, with what is left of the depth.      *)
Search(p, start, used) ==
  LET left == request.question.depth - used
  IN  IF left < 0 THEN [p EXCEPT !.cut = TRUE]
      ELSE [p EXCEPT !.pc = "trace.search", !.depth = left, !.queue = <<<<start>>>>,
                     !.found = <<>>]

(* The end of the round of one candidate that was not an application routine. *)
Full(p) == IF Len(p.paths) >= request.question.limit
           THEN [p EXCEPT !.cut = TRUE, !.pc = "trace.answer"] ELSE p

(* One piece of evidence.  An exact resolution has exactly one candidate; an
   application routine is entered for the evidence in its body.             *)
Enter(p, page) == [p EXCEPT !.pc = "trace.bodies", !.bodies = page.items,
                            !.cut = @ \/ page.truncated]
Follow(p, i, resolved) ==
  IF resolved.status # "exact" THEN p
  ELSE IF request.question.target = None
  THEN Full([p EXCEPT !.paths = Append(@, Path(i.chain, i.of, None,
                                               <<resolved.candidates[1].key>>))])
  ELSE IF resolved.graph = "db"
  THEN Search(p, resolved.candidates[1].key, Len(i.chain) + Entry(request.question) + 1)
  ELSE Enter(p, IntentsForOwner(App, resolved.candidates[1].key, PageSize))

ResolveEvidence ==
  /\ progress.pc = "trace.intents"
  /\ progress' =
       IF progress.n > Len(progress.intents) THEN [progress EXCEPT !.pc = "trace.answer"]
       ELSE IF progress.late THEN [progress EXCEPT !.pc = "trace.answer", !.cut = TRUE]
       ELSE Follow([progress EXCEPT !.n = @ + 1, !.body = None], progress.intents[progress.n],
                   Resolve(progress.intents[progress.n].of, Context, App, Db))
  /\ UNCHANGED request

(* One statement in the body of an application routine.  When they are done,
   the paths are counted, but the answer is not marked as cut.               *)
Cross(p, resolved) ==
  IF resolved.status = "exact" /\ resolved.graph = "db"
  THEN Search(p, resolved.candidates[1].key,
              Len(p.intents[p.n - 1].chain) + Entry(request.question) + 3)
  ELSE p

FollowBody ==
  /\ progress.pc = "trace.bodies"
  /\ progress' =
       IF progress.bodies = <<>>
       THEN [progress EXCEPT !.pc = IF Len(progress.paths) >= request.question.limit
                                    THEN "trace.answer" ELSE "trace.intents"]
       ELSE Cross([progress EXCEPT !.bodies = Tail(@), !.body = progress.bodies[1]],
                  Resolve(progress.bodies[1], Context, App, Db))
  /\ UNCHANGED request

(* _bounded_paths ends: its paths are joined to what led to the routine.     *)
Joined(p, i) == [p EXCEPT !.paths = @ \o [m \in DOMAIN p.found |->
                                            Path(i.chain, i.of, p.body, p.found[m])]]
Join(p) == IF p.body # None THEN [Joined(p, p.intents[p.n - 1]) EXCEPT !.pc = "trace.bodies"]
           ELSE Full([Joined(p, p.intents[p.n - 1]) EXCEPT !.pc = "trace.intents"])

(* _bounded_paths: one path of its queue.                                    *)
Neighbours(p, nodes, page) ==
  LET steps == Among(page.items, {e \in ToSet(page.items) : EdgeAllowed(Db, e) /\ e.target \notin ToSet(nodes)})
  IN  [p EXCEPT !.edges = @ + Len(page.items), !.cut = @ \/ page.truncated,
                !.queue = @ \o [m \in DOMAIN steps |-> Append(nodes, steps[m].target)]]
ExtendOne(p, nodes) ==
  IF Last(nodes) = request.question.target THEN [p EXCEPT !.found = Append(@, nodes)]
  ELSE IF Len(nodes) - 1 >= p.depth THEN [p EXCEPT !.cut = TRUE]
  ELSE Neighbours(p, nodes, Outgoing(Db, Last(nodes)))

ExtendPath ==
  /\ progress.pc = "trace.search"
  /\ progress' =
       IF progress.queue = <<>> \/ Len(progress.found) >= PathCap
       THEN Join([progress EXCEPT !.cut = @ \/ progress.queue # <<>>])
       ELSE IF Spent THEN Join([progress EXCEPT !.cut = TRUE])
       ELSE ExtendOne([progress EXCEPT !.queue = Tail(@), !.visited = @ + 1], progress.queue[1])
  /\ UNCHANGED request

ReportPaths ==
  /\ progress.pc = "trace.answer"
  /\ LET limit == request.question.limit
     IN  request' = [request EXCEPT
           !.status = IF progress.paths = <<>> THEN "unresolved" ELSE "ok",
           !.paths = SubSeq(progress.paths, 1, IF Len(progress.paths) < limit
                                               THEN Len(progress.paths) ELSE limit),
           !.truncated = progress.cut \/ Len(progress.intents) >= EvidenceCap]
  /\ progress' = Idle

TraceSteps == {"trace.reach", "trace.owned", "trace.target", "trace.intents", "trace.bodies",
               "trace.search"}
TraceExpire == Expire(TraceSteps)
TraceDeadline == Deadline(TraceSteps)

TraceNext == AskTrace \/ ReachPython \/ CollectOwned \/ CheckTarget \/ ResolveEvidence
             \/ FollowBody \/ ExtendPath \/ ReportPaths \/ TraceExpire \/ TraceDeadline

TraceSpec == TraceInit /\ [][TraceNext]_vars

-----------------------------------------------------------------------------
(* The reference: the evidence behind a question, whatever the budgets.      *)
Callable(app, entry) ==
  LET ends == {entry} \cup {c.target : c \in ToSet(app.calls)}
      Closed(keys) == entry \in keys /\ \A c \in ToSet(app.calls) : c.source \in keys => c.target \in keys
  IN  {k \in ends : \A keys \in SUBSET ends : Closed(keys) => k \in keys}

AskedFor(q, i) == IF q.evidence # None THEN i.key = q.evidence
                  ELSE IF q.path # None THEN i.path = q.path
                  ELSE i.owner \in Callable(App, q.entry) /\ i.owner \in App.owners

(* Every simple path of allowed edges from a routine to the target.          *)
SimplePaths(start, target) ==
  LET Steps(path) == {e \in ToSet(Db.edges) : /\ e.source = Last(path) /\ e.exact
                                              /\ EdgeAllowed(Db, e) /\ e.target \notin ToSet(path)}
      Level[n \in 0 .. Len(Db.edges)] ==
        IF n = 0 THEN {<<start>>}
        ELSE Level[n - 1] \cup UNION {{Append(path, e.target) : e \in Steps(path)} :
                                        path \in Level[n - 1]}
  IN  {path \in Level[Len(Db.edges)] : /\ Last(path) = target
                                       /\ target \notin ToSet(Front(path))}

Bodies(routine) == {i \in ToSet(App.intents) : i.owner = routine}

Crossing(i, body, r, target) ==
  IF r.status # "exact" \/ r.graph # "db" THEN {}
  ELSE {[evidence |-> i.key, body |-> body, nodes |-> path] :
          path \in SimplePaths(r.candidates[1].key, target)}
Resolved(i) == Resolve(i, Context, App, Db)
From(q, i, r) ==
  IF r.status # "exact" THEN {}
  ELSE IF q.target = None
  THEN {[evidence |-> i.key, body |-> None, nodes |-> <<r.candidates[1].key>>]}
  ELSE IF r.graph = "db" THEN Crossing(i, None, r, q.target)
  ELSE UNION {Crossing(i, b.key, Resolved(b), q.target) : b \in Bodies(r.candidates[1].key)}
AllPaths(q) == UNION {From(q, i, Resolved(i)) : i \in {j \in ToSet(App.intents) : AskedFor(q, j)}}

Reported == {[evidence |-> request.paths[n].evidence, body |-> request.paths[n].body,
              nodes |-> request.paths[n].nodes] : n \in DOMAIN request.paths}

(* The calls of a path lead from the entry to the evidence's owner.          *)
RealChain(q, path) ==
  LET hops == <<q.entry>> \o path.chain
  IN  /\ \A n \in 1 .. Len(hops) - 1 :
           \E m \in DOMAIN App.calls : /\ App.calls[m].source = hops[n]
                                       /\ App.calls[m].target = hops[n + 1]
      /\ q.entry # None => IntentAt(App, path.evidence).owner = Last(hops)

(* Every answered path is a real one, no longer than the caller's depth; and
   an answer that is not marked truncated, and not filled to the limit, holds
   every exact path there is, wherever the deadline and the budgets cut the
   walks (federation.py:249-357: `truncated` is set at every cut).           *)
Answered == request.tool = "trace" /\ request.status \in {"ok", "unresolved"}
TraceComplete ==
  Answered =>
    LET q == request.question
    IN  /\ Reported \subseteq AllPaths(q)
        /\ \A n \in DOMAIN request.paths :
             LET path == request.paths[n]
             IN  /\ RealChain(q, path)
                 /\ q.target # None =>
                      Len(path.chain) + Entry(q) + (IF path.body = None THEN 1 ELSE 3)
                        + Len(path.nodes) - 1 <= q.depth
        /\ ~request.truncated /\ Len(request.paths) < q.limit => Reported = AllPaths(q)

(* "Results report traversal truncation when the depth/fan-out/path budget is
   reached." (docs/federated-kg-demo.md:134-135): an answer that is not marked
   truncated holds every exact path (federation.py:249-348).                 *)
TruncationReported ==
  Answered /\ ~request.truncated => Reported = AllPaths(request.question)
=============================================================================
