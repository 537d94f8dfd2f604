-------------------------- MODULE SymbolDiscovery --------------------------
(***************************************************************************)
(* discover_symbols (src/src/codekg/queries/code.py:218-573) behind the MCP *)
(* tool search_symbols (src/src/codekg/mcp/server.py:102-158, 269-400).  A  *)
(* page is read from the graph and the lexical index in several reads, is   *)
(* ranked, and continued by a cursor, while a snapshot may be indexed again *)
(* and the server restarted on another generation.                         *)
(*                                                                         *)
(* An index is [generation, repositories, graph, lexical]: the repository   *)
(* snapshots <<repo, commit>>; the rows [key, repo, commit, kind, scope,    *)
(* score] that the full-text index ranks for the client's query; and the    *)
(* lexical index's hits, whose keys may be gone from the graph.  `score`    *)
(* stands for _discovery_score, which only a row's texts determine.         *)
(***************************************************************************)
EXTENDS Integers, RowSelection, Requests

CONSTANTS
  Indexes,         \* the successive contents
  SearchQuestions, \* records [query, repo, commit, kind, mode, scope, limit]
  CandidatePool    \* _DISCOVERY_CANDIDATE_POOL

(* What the indexes hold.  A key is made of repository, commit, path, name and
   line, so that rows of one key are of one symbol, and the full-text index
   yields a symbol once (loader.py:955-956).                                 *)
Snapshots == UNION {ix.repositories : ix \in ToSet(Indexes)}
IndexRows(ix) == ToSet(ix.graph) \cup ToSet(ix.lexical)
Generations == {ix.generation : ix \in ToSet(Indexes)}
ASSUME SearchAssumption ==
  /\ CandidatePool \in Nat /\ Indexes \in Seq(ToSet(Indexes)) /\ Indexes # <<>>
  /\ \A q \in SearchQuestions :
       /\ q = [query |-> q.query, repo |-> q.repo, commit |-> q.commit, kind |-> q.kind, mode |-> q.mode,
               scope |-> q.scope, limit |-> q.limit]
       /\ q.limit \in Nat /\ q.mode \in {"graph", "hybrid", "lexical"}
  /\ \A ix \in ToSet(Indexes) :
       /\ IsFiniteSet(ix.repositories) /\ \A s \in ix.repositories : s = <<s[1], s[2]>> /\ s[2] \in Int
       /\ ix.graph \in Seq(IndexRows(ix)) /\ ix.lexical \in Seq(IndexRows(ix))
       /\ \A r \in IndexRows(ix) : r.key \in Int /\ r.score \in Int
       /\ \A r, s \in IndexRows(ix) :
            r.key = s.key => r.repo = s.repo /\ r.commit = s.commit /\ r.kind = s.kind /\ r.scope = s.scope
       /\ \A a, b \in DOMAIN ix.graph : ix.graph[a].key = ix.graph[b].key => a = b
Bound(q) == {[q EXCEPT !.repo = s[1], !.commit = s[2]] : s \in Snapshots}
ASSUME CursorAssumption ==
  None \notin [generation : Generations, q : UNION {Bound(q) : q \in SearchQuestions}, offset : Nat]

(* The cursor of discover_symbols inside the MCP envelope.                   *)
SearchCursor(generation, q, repo, commit, offset) ==
  [generation |-> generation, q |-> [q EXCEPT !.repo = repo, !.commit = commit], offset |-> offset]

Index == Indexes[request.index]

(* question and cursor are the client's; found: the rows of its pages;
   disturbed: the index was changed since the first page was begun.          *)
SearchInit ==
  /\ \E q \in SearchQuestions :
       request = [tool |-> "search", index |-> 1, question |-> q, cursor |-> None,
                  found |-> <<>>, disturbed |-> FALSE, status |-> "new"]
  /\ progress = Idle

(* The envelope is opened before anything is read.                           *)
BeginSearch ==
  /\ progress.pc = "idle" /\ request.tool = "search" /\ request.status \in {"new", "more"}
  /\ IF request.question.query = None THEN Answer("invalid_query")
     ELSE IF request.cursor # None /\ request.cursor.generation # Index.generation
     THEN Answer("invalid_cursor")
     ELSE /\ progress' = [pc |-> "search.snapshots", generation |-> Index.generation,
                          repo |-> None, commit |-> None, offset |-> 0,
                          graph |-> <<>>, hits |-> <<>>, lexical |-> <<>>]
          /\ request' = [request EXCEPT !.disturbed = @ /\ request.cursor # None]

(* The repository and the commit: the only one, and the last.                *)
Repositories == {s[1] : s \in Index.repositories}
CommitsOf(repo) == {s[2] : s \in {t \in Index.repositories : t[1] = repo}}
Offset(q, repo, commit) ==
  IF request.cursor = None THEN 0
  ELSE IF request.cursor.q = [q EXCEPT !.repo = repo, !.commit = commit]
  THEN request.cursor.offset ELSE -1

Choose(q, repo, commit) ==
  IF Offset(q, repo, commit) < 0 THEN Answer("invalid_cursor")
  ELSE /\ progress' = [progress EXCEPT
            !.repo = repo, !.commit = commit, !.offset = Offset(q, repo, commit),
            !.pc = IF q.mode = "lexical" THEN "search.lexical" ELSE "search.graph"]
       /\ UNCHANGED request

ChooseSnapshot ==
  /\ progress.pc = "search.snapshots"
  /\ LET q == request.question
     IN  IF q.repo = None /\ Cardinality(Repositories) # 1 THEN Answer("repository_required")
         ELSE \E repo \in IF q.repo = None THEN Repositories ELSE {q.repo} :
                IF CommitsOf(repo) = {} THEN Answer("repository_not_found")
                ELSE IF q.commit # None /\ q.commit \notin CommitsOf(repo)
                THEN Answer("repository_revision_not_found")
                ELSE Choose(q, repo, IF q.commit # None THEN q.commit ELSE Max(CommitsOf(repo)))

(* search_symbols and zvec's search, each of one snapshot and bounded.       *)
Candidates(rows, p) ==
  Window(Among(rows, {r \in ToSet(rows) : /\ r.repo = p.repo /\ r.commit = p.commit
                                          /\ request.question.kind \in {None, r.kind}}),
         0, CandidatePool)

SearchGraph ==
  /\ progress.pc = "search.graph"
  /\ progress' = [progress EXCEPT
       !.graph = Candidates(Index.graph, progress),
       !.pc = IF request.question.mode = "hybrid" THEN "search.lexical" ELSE "search.rank"]
  /\ UNCHANGED request

(* The lexical index holds no types, and may be missing.                     *)
SearchLexical ==
  /\ progress.pc = "search.lexical"
  /\ progress' = [progress EXCEPT
       !.hits = IF request.question.kind = "type" THEN <<>> ELSE Candidates(Index.lexical, progress),
       !.pc = "search.merge"]
  /\ UNCHANGED request
LexicalMissing == progress.pc = "search.lexical" /\ Answer("lexical_unavailable")

(* A hit counts if the graph still has its symbol in that snapshot.          *)
InGraph(r) == \E n \in DOMAIN Index.graph : /\ Index.graph[n].key = r.key
                                            /\ Index.graph[n].repo = progress.repo
                                            /\ Index.graph[n].commit = progress.commit
MergeHits ==
  /\ progress.pc = "search.merge"
  /\ progress' = [progress EXCEPT !.lexical = Among(progress.hits, {r \in ToSet(progress.hits) : InGraph(r)}),
                                  !.pc = "search.rank"]
  /\ UNCHANGED request

(* The best score of a key counts; ties are broken by the key.               *)
Before(a, b) == a.score > b.score \/ (a.score = b.score /\ a.key < b.key)
Best(rows) == {r \in rows : \A s \in rows : s.key = r.key => s.score <= r.score}
ByScore(entries) == Ordered(entries, {p \in entries \X entries : Before(p[1], p[2])})
ScopedRows(rows, scope) == {r \in ToSet(rows) : scope = "all" \/ r.scope = scope}
(* Faulty variant: a symbol that both sources rank is kept twice.            *)
RankedTwice(rows, scope) == ByScore({[key |-> r.key, score |-> r.score] : r \in ScopedRows(rows, scope)})

Ranked(rows, scope) == ByScore({[key |-> r.key, score |-> r.score] : r \in Best(ScopedRows(rows, scope))})

Report(p, rows) ==
  LET q == request.question
      page == Window(rows, p.offset, q.limit)
      more == Len(rows) > p.offset + q.limit
  IN  /\ request' = [request EXCEPT
           !.found = @ \o [n \in DOMAIN page |-> [key |-> page[n].key, repo |-> p.repo,
                                                  commit |-> p.commit]],
           !.cursor = IF more THEN SearchCursor(p.generation, q, p.repo, p.commit,
                                                p.offset + q.limit)
                      ELSE None,
           !.status = IF more THEN "more" ELSE "complete"]
      /\ progress' = Idle

RankPage ==
  /\ progress.pc = "search.rank"
  /\ Report(progress, Ranked(progress.graph \o progress.lexical, request.question.scope))

(* A snapshot is indexed, removed or indexed again.                          *)
Reindex ==
  /\ request.tool = "search" /\ request.index < Len(Indexes)
  /\ request' = [request EXCEPT !.index = @ + 1, !.disturbed = TRUE]
  /\ UNCHANGED progress

SearchNext == BeginSearch \/ ChooseSnapshot \/ SearchGraph \/ SearchLexical \/ LexicalMissing
              \/ MergeHits \/ RankPage \/ Reindex

SearchSpec == SearchInit /\ [][SearchNext]_vars

-----------------------------------------------------------------------------
(* The rows a question should give from an index, in no order: all of those
   in the question's scope, as far as they are among the candidates.         *)
OfSnapshot(ix, q, s) ==
  {r \in ToSet(ix.graph) : r.repo = s[1] /\ r.commit = s[2] /\ q.kind \in {None, r.kind}}
Exhausts(keys, q, rows) ==
  LET wanted == {r.key : r \in {t \in rows : q.scope \in {"all", t.scope}}}
  IN  keys \subseteq wanted /\ (Cardinality(rows) <= CandidatePool => keys = wanted)

(* Pages that were read from one content of the index add up to every wanted
   symbol of one snapshot, each once, in spite of the two sources; and pages
   that were not still never mix two snapshots (code.py:289-349: "Every page
   reranks the same bounded, repository-scoped candidate pool. This makes
   cursor exhaustion deterministic").                                        *)
DiscoveryPagesOnce ==
  request.tool = "search" =>
    /\ \A m, n \in DOMAIN request.found : /\ request.found[m].repo = request.found[n].repo
                                          /\ request.found[m].commit = request.found[n].commit
    /\ request.status = "complete" /\ ~request.disturbed =>
         LET keys == {request.found[n].key : n \in DOMAIN request.found}
         IN  /\ Cardinality(keys) = Len(request.found)
             /\ request.question.mode # "lexical" =>
                  \E s \in Index.repositories :
                    Exhausts(keys, request.question, OfSnapshot(Index, request.question, s))
=============================================================================
