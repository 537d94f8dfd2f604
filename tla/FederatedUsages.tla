-------------------------- MODULE FederatedUsages --------------------------
(***************************************************************************)
(* find_application_database_usages (src/src/codekg/federation.py:384-587) *)
(* behind its MCP tool (src/src/codekg/mcp/server.py:1494-1671): the        *)
(* routines that reach a database object are found by a breadth-first walk *)
(* over incoming edges, and the application's postings of their names are  *)
(* resolved again, a page at a time.  A client follows the continuation    *)
(* cursor over many requests, while the ten seconds of a request may pass  *)
(* at any point and the server may be restarted on other generations.      *)
(***************************************************************************)
EXTENDS FederationCatalog

CONSTANTS
  Targets,       \* database keys a client asks about
  Limits,        \* limits a client asks for
  MaxDepth,      \* the depth it asks for
  WorkCap,       \* MAX_REVERSE_POSTINGS
  ResponseCap    \* usages that fit into 64 KiB

-----------------------------------------------------------------------------
(* The catalogs: rows have an order, keys are primary keys, positions grow in
   the order of the rows, and a generation identifies its catalog.           *)
IsListing(rows) == rows \in Seq(ToSet(rows))
OneRowPerKey(rows) == \A m, n \in DOMAIN rows : rows[m].key = rows[n].key => m = n
ASSUME CatalogsAssumption ==
  /\ PageSize \in Nat /\ CandidateLimit \in Nat /\ WorkCap \in Nat
  /\ \A d \in Deployments :
       /\ IsListing(ContextOf[d].searchPath)
       /\ IsListing(DbOf[d].edges)
       /\ IsListing(DbOf[d].routines) /\ OneRowPerKey(DbOf[d].routines)
       /\ \A r \in ToSet(DbOf[d].routines) : r.name \in Int
       /\ IsListing(AppOf[d].intents) /\ OneRowPerKey(AppOf[d].intents)
       /\ \A i \in ToSet(AppOf[d].intents) : i.at \in Nat \ {0}
       /\ \A m, n \in DOMAIN AppOf[d].intents : m < n => AppOf[d].intents[m].at < AppOf[d].intents[n].at
  /\ \A d, e \in Deployments :
       /\ AppOf[d].generation = AppOf[e].generation => AppOf[d] = AppOf[e]
       /\ DbOf[d].generation = DbOf[e].generation => DbOf[d] = DbOf[e]

(* A continuation carries what it is bound to and is good for nothing else.  *)
Binding(d, target) ==
  <<ContextOf[d], AppOf[d].generation, DbOf[d].generation, target, MaxDepth>>
Cursor(d, target, name, after) ==
  [binding |-> Binding(d, target), name |-> name, after |-> after]
ASSUME ContinuationAssumption ==
  /\ None \notin [binding : {Binding(d, t) : d \in Deployments, t \in Targets}, name : Nat, after : Nat]
  /\ None \notin Nat \X Nat

(* target, ref: the question, and the generation its EntityRef names; cursor:
   the continuation the client holds; found: what the pages since the first
   reported; status: how the last page ended.                                *)
UsagesInit ==
  /\ \E d \in Deployments, t \in Targets :
       request = [tool |-> "usages", served |-> d, target |-> t, ref |-> DbOf[d].generation, cursor |-> None,
                  found |-> <<>>, status |-> "new"]
  /\ progress = Idle

(* The MCP tool unpacks the cursor and calls the federation: references and
   cursor are compared with the pinned generations before any work.         *)
AskUsages(limit) ==
  /\ progress.pc = "idle" /\ request.tool = "usages"
  /\ LET r == request
     IN  IF r.ref # Db.generation THEN Answer("invalid_reference")
         ELSE IF ~Known(Db, r.target) THEN Answer("not_found")
         ELSE IF r.cursor # None /\ r.cursor.binding # Binding(r.served, r.target)
         THEN Answer("invalid_cursor")
         ELSE /\ progress' = [pc |-> "usages.walk", limit |-> limit, late |-> FALSE,
                              queue |-> <<<<r.target, 0>>>>, visited |-> {r.target},
                              edges |-> 0, routines |-> {}, cut |-> FALSE,
                              index |-> IF r.cursor = None THEN 1 ELSE r.cursor.name,
                              after |-> IF r.cursor = None THEN 0 ELSE r.cursor.after,
                              examined |-> 0, seen |-> {}, usages |-> <<>>,
                              next |-> None, stopped |-> FALSE, more |-> FALSE]
              /\ request' = [r EXCEPT !.status = "asked",
                                      !.found = IF r.cursor = None THEN <<>> ELSE @]

(* One node of the walk: its incoming edges, unless the depth is used up.   *)
Enqueue(p, fresh, depth) ==
  [p EXCEPT !.queue = @ \o [n \in DOMAIN fresh |-> <<fresh[n], depth>>],
            !.visited = @ \cup ToSet(fresh)]

Expand(p, node, page) ==
  IF node[2] >= MaxDepth THEN [p EXCEPT !.cut = TRUE]
  ELSE Enqueue([p EXCEPT !.edges = @ + Len(page.items), !.cut = @ \/ page.truncated],
               SetToSeq({e.source : e \in {f \in ToSet(page.items) :
                           EdgeAllowed(Db, f) /\ f.source \notin p.visited}}),
               node[2] + 1)

MayWalk == /\ progress.queue # <<>> /\ ~progress.late
           /\ Cardinality(progress.visited) <= VisitedCap /\ progress.edges < EdgeCap

WalkIncoming ==
  /\ progress.pc = "usages.walk"
  /\ progress' = IF MayWalk
                 THEN Expand([progress EXCEPT
                                !.queue = Tail(@),
                                !.routines = @ \cup (IF IsRoutine(Db, progress.queue[1][1])
                                                     THEN {progress.queue[1][1]} ELSE {})],
                             progress.queue[1], Incoming(Db, progress.queue[1][1]))
                 ELSE [progress EXCEPT !.pc = "usages.names",
                                       !.cut = @ \/ progress.queue # <<>> \/ progress.late]
  /\ UNCHANGED request

(* The names of the routines found, in order; a name's place is what a cursor
   records.                                                                 *)
NamesOf(db, keys) ==
  LET names == {RoutineAt(db, k).name : k \in keys}
  IN  Ordered(names, {p \in names \X names : p[1] < p[2]})
Names == NamesOf(Db, progress.routines)

(* The head of the outer loop, and what is left when it stops.               *)
NextName ==
  /\ progress.pc = "usages.names"
  /\ progress' = IF /\ progress.index <= Len(Names) /\ progress.examined < WorkCap
                    /\ ~progress.late
                 THEN [progress EXCEPT !.pc = "usages.turn", !.more = TRUE]
                 ELSE [progress EXCEPT !.pc = "usages.answer",
                         !.next = IF progress.index <= Len(Names)
                                  THEN <<progress.index, progress.after>> ELSE None]
  /\ UNCHANGED request

(* A posting is a usage, or a candidate one, if it resolves to the target or
   to a routine that reaches it.                                            *)
Hits(found, keys) ==
  /\ found.status \in {"exact", "ambiguous", "conditional", "receiver_unverified"}
  /\ found.graph = "db"
  /\ CandidateKeys(found) \cap keys # {}
IsUsage(d, keys, i) == Hits(Resolve(i, ContextOf[d], AppOf[d], DbOf[d]), keys)

(* The items of one page of postings; the page ends early at the limit.      *)
AtLimit(p, i, page) ==
  [p EXCEPT !.stopped = TRUE,
            !.next = IF page.truncated \/ i # Last(page.items) \/ p.index < Len(Names)
                     THEN <<p.index, i.at>> ELSE @]
Counted(p, i, page) == IF Len(p.usages) >= p.limit THEN AtLimit(p, i, page) ELSE p

Posting(p, i, page) ==
  IF p.stopped THEN p
  ELSE IF i.key \in p.seen THEN [p EXCEPT !.examined = @ + 1, !.after = i.at]
  ELSE Counted([p EXCEPT !.examined = @ + 1, !.after = i.at, !.seen = @ \cup {i.key},
                         !.usages = IF IsUsage(request.served, p.routines \cup {request.target}, i)
                                    THEN Append(@, i.key) ELSE @], i, page)

Read(p, page) ==
  [FoldLeft(LAMBDA q, i : Posting(q, i, page), p, page.items)
     EXCEPT !.pc = "usages.turn", !.more = page.truncated]

ReadPostings ==
  /\ progress.pc = "usages.postings" /\ ~progress.late
  /\ LET room == WorkCap - progress.examined
     IN  progress' = Read(progress, ReverseIntents(App, Names[progress.index], progress.after,
                                                   IF PageSize < room THEN PageSize ELSE room))
  /\ UNCHANGED request

(* Faulty variant: the next name is begun at the position in the last one.   *)
EndPostingsStale ==
  /\ progress.pc = "usages.turn"
  /\ LET spent == progress.examined >= WorkCap \/ progress.late
     IN  progress' =
           IF progress.stopped THEN [progress EXCEPT !.pc = "usages.answer"]
           ELSE IF progress.more /\ ~spent THEN [progress EXCEPT !.pc = "usages.postings"]
           ELSE IF spent THEN [progress EXCEPT !.pc = "usages.answer",
                                               !.next = <<progress.index, progress.after>>]
           ELSE [progress EXCEPT !.pc = "usages.names", !.index = @ + 1]
  /\ UNCHANGED request

(* The inner loop goes on, or the name is done, or the work is.              *)
EndPostings ==
  /\ progress.pc = "usages.turn"
  /\ LET spent == progress.examined >= WorkCap \/ progress.late
     IN  progress' =
           IF progress.stopped THEN [progress EXCEPT !.pc = "usages.answer"]
           ELSE IF progress.more /\ ~spent THEN [progress EXCEPT !.pc = "usages.postings"]
           ELSE IF spent THEN [progress EXCEPT !.pc = "usages.answer",
                                               !.next = <<progress.index, progress.after>>]
           ELSE [progress EXCEPT !.pc = "usages.names", !.index = @ + 1, !.after = 0]
  /\ UNCHANGED request

(* A cut walk cannot be resumed: its answer has no continuation.             *)
Continuation == IF progress.cut \/ progress.next = None THEN None
                ELSE Cursor(request.served, request.target, progress.next[1], progress.next[2])

ReportUsages ==
  /\ progress.pc = "usages.answer"
  /\ IF Len(progress.usages) > ResponseCap THEN Answer("result_too_large")
     ELSE /\ request' = [request EXCEPT
               !.found = @ \o progress.usages, !.cursor = Continuation,
               !.status = IF progress.cut THEN "incomplete"
                         ELSE IF Continuation = None THEN "complete" ELSE "more"]
          /\ progress' = Idle

UsagesSteps == {"usages.walk", "usages.names", "usages.turn", "usages.postings"}
UsagesExpire == Expire(UsagesSteps)
UsagesDeadline == Deadline(UsagesSteps)

(* The registry is activated and the server restarted; the client keeps its
   cursor and its reference.                                                *)
Restart ==
  /\ progress.pc = "idle" /\ request.tool = "usages"
  /\ \E d \in Deployments \ {request.served} :
       request' = [request EXCEPT !.served = d, !.status = "new"]
  /\ UNCHANGED progress

(* The client turns to a target, with or without the cursor it holds.        *)
ChangeQuestion(target, cursor) ==
  /\ progress.pc = "idle" /\ request.tool = "usages"
  /\ request' = [request EXCEPT !.target = target, !.cursor = cursor, !.status = "new",
                                !.ref = Db.generation]
  /\ UNCHANGED progress

UsagesNext ==
  \/ \E limit \in Limits : AskUsages(limit)
  \/ WalkIncoming \/ NextName \/ ReadPostings \/ EndPostings \/ ReportUsages
  \/ UsagesExpire \/ UsagesDeadline \/ Restart
  \/ \E target \in Targets :
       ChangeQuestion(target, None) \/ ChangeQuestion(target, request.cursor)

UsagesSpec == UsagesInit /\ [][UsagesNext]_vars

-----------------------------------------------------------------------------
(* Everything from which the target can be reached, without depth or page:
   the least set that holds the target and the sources of what it holds.     *)
SourcesOf(db, keys) ==
  {e.source : e \in {f \in ToSet(db.edges) : f.exact /\ f.target \in keys /\ EdgeAllowed(db, f)}}
Ends(db, target) == {target} \cup {e.source : e \in ToSet(db.edges)}
ReachesWithin(db, target, keys) == target \in keys /\ SourcesOf(db, keys) \subseteq keys
Reaching(db, target) ==
  {k \in Ends(db, target) :
     \A keys \in SUBSET Ends(db, target) : ReachesWithin(db, target, keys) => k \in keys}

UsagesOf(d, target) ==
  LET keys == {k \in Reaching(DbOf[d], target) : IsRoutine(DbOf[d], k)} \cup {target}
  IN  {i.key : i \in {j \in ToSet(AppOf[d].intents) : ~j.dynamic /\ IsUsage(d, keys, j)}}

(* A client that follows the cursors to the end has been told every usage of
   the target exactly once, whatever limits it asked for, wherever deadlines
   and work limits cut the pages, and whatever the server was restarted with
   in between (federation.py:466-583: "Continue every page of this posting
   list before moving to the next name", and the cursor's fields).          *)
UsagesExactlyOnce ==
  request.tool = "usages" /\ request.status = "complete" =>
    /\ IsInjective(request.found)
    /\ ToSet(request.found) = UsagesOf(request.served, request.target)
=============================================================================
