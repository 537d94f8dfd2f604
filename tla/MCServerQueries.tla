--------------------------- MODULE MCServerQueries ---------------------------
EXTENDS FederatedUsages, FederatedTrace, CatalogComparison, GraphRegistryLoad,
        SymbolDiscovery, SymbolRelations
MCDeployments == {"d1", "d2", "d3"}
MCTargets == {"native", "r1"}
MCLimits == {1, 2, 3}

Routine(key, alias, schema, name, arity) ==
  [key |-> key, alias |-> alias, schema |-> schema, name |-> name, kind |-> "function",
   arity |-> arity, defaults |-> 0, variadic |-> 0, out |-> 0, condition |-> FALSE,
   semantic |-> key]
Intent(key, at, name, schema, arity) ==
  [key |-> key, at |-> at, name |-> name, schema |-> schema, arity |-> arity,
   kind |-> "function", dynamic |-> FALSE, origin |-> "sql", verified |-> TRUE,
   condition |-> FALSE, owner |-> "f", path |-> "p"]
Body(key, owner, name) == [Intent(key, 1, name, None, 1) EXCEPT !.origin = "routine_body", !.owner = owner]
Edge(source, kind, target) == [source |-> source, target |-> target, kind |-> kind, exact |-> TRUE]

Database ==
  [generation |-> "b1", aliases |-> {"pg", "ext"}, postgres |-> "pg",
   natives |-> {"native"},
   routines |-> << Routine("r1", "pg", "s1", 1, 1), Routine("r2", "ext", "s2", 2, 1),
                   Routine("r3", "ext", "s1", 2, 1) >>,
   intents |-> << Body("e", "r2", 1) >>,
   edges |-> << Edge("r1", "BINDS_TO_NATIVE", "native"), Edge("r2", "HAS_EVIDENCE", "e"),
                Edge("e", "INVOKES_ROUTINE", "r1"), Edge("x", "CONTAINS", "r1") >>]

Call(source, target) == [source |-> source, target |-> target]
Application(g, routines, intents, calls) ==
  [generation |-> g, aliases |-> {"app"}, natives |-> {"main"}, routines |-> routines,
   intents |-> intents, edges |-> <<>>, calls |-> calls, owners |-> {"main", "f", "g"}]

A1 == Application("a1", <<>>,
   << Intent("i1", 1, 1, None, 1), Intent("i2", 2, 2, "s2", 1),
      [Intent("i3", 3, 1, "s1", 1) EXCEPT !.owner = "g"],
      [Intent("i4", 4, 1, None, 1) EXCEPT !.condition = TRUE],
      [Intent("i5", 5, 2, None, 1) EXCEPT !.path = "p2"] >>,
   << Call("main", "f"), Call("main", "lib"), Call("f", "main"), Call("lib", "g") >>)
A2 == Application("a2", << Routine("own", "app", "s1", 3, 1) >>,
   << Intent("i1", 1, 3, None, 1), [Intent("i2", 2, 2, "s2", 1) EXCEPT !.owner = "g"],
      Intent("i3", 3, 2, None, None),
      [Intent("b1", 4, 2, "s2", 1) EXCEPT !.owner = "own", !.path = "p2"],
      [Intent("b2", 5, 1, "s1", 1) EXCEPT !.owner = "own", !.path = "p2"] >>,
   << Call("main", "f"), Call("f", "g") >>)

MCAppOf == [d \in Deployments |-> IF d = "d2" THEN A2 ELSE A1]
MCDbOf == [d \in Deployments |-> IF d = "d3" THEN [Database EXCEPT !.generation = "b2"] ELSE Database]
MCContextOf == [d \in Deployments |->
  [searchPath |-> IF d = "d1" THEN <<"s1", "s2">> ELSE <<"s2", "s1">>, visible |-> {"ext"}]]

Question(evidence, path, entry, target, depth, limit) ==
  [evidence |-> evidence, path |-> path, entry |-> entry, ref |-> "a1",
   target |-> target, depth |-> depth, limit |-> limit]
QuestionsAsked ==
  {Question("i2", None, None, "native", depth, 2) : depth \in {2, 4}} \cup
  {Question(None, "p", None, target, 6, 3) : target \in {"native", None, "none"}} \cup
  {Question(None, None, "main", "native", depth, limit) : depth \in {2, 4, 8}, limit \in {1, 3}} \cup
  {Question("i1", None, None, "native", 6, limit) : limit \in {1, 2, 3}} \cup
  {Question(None, None, "main", None, depth, 5) : depth \in {1, 2}} \cup
  {Question("i1", "p", None, "native", 4, 1), Question(None, None, "nobody", None, 4, 1)}
MCQuestions == QuestionsAsked \cup {[q EXCEPT !.ref = "a2"] : q \in QuestionsAsked}

Meaning(signature, body) == [signature |-> signature, condition |-> 0, body |-> body, definition |-> 0]
Fact(kind, identity, meaning, declaration) ==
  [kind |-> kind, identity |-> identity, meaning |-> meaning, declaration |-> declaration,
   name |-> IF kind = "native" /\ identity \in {3, 4} THEN 2 ELSE identity,
   symbol |-> IF kind = "native" /\ identity = 4 THEN "macro" ELSE "function"]
Corpus(generation, alias, facts) ==
  [generation |-> generation, file |-> generation, logical |-> "pg", alias |-> alias, facts |-> facts]
F1 == {Fact("routine", 1, Meaning(1, 1), FALSE), Fact("routine", 2, Meaning(1, 1), FALSE),
       Fact("native", 1, Meaning(1, 0), TRUE), Fact("native", 1, Meaning(1, 1), FALSE),
       Fact("native", 2, Meaning(1, 0), TRUE), Fact("native", 4, Meaning(3, 1), FALSE),
       Fact("routine", 3, Meaning(2, 1), FALSE)}
F2 == {Fact("native", 3, Meaning(2, 1), FALSE), Fact("routine", 1, Meaning(1, 2), FALSE), Fact("routine", 2, Meaning(1, 1), FALSE),
       Fact("routine", 2, Meaning(2, 1), FALSE), Fact("routine", 3, Meaning(1, 1), FALSE), Fact("routine", 3, Meaning(2, 1), FALSE),
       Fact("native", 1, Meaning(1, 1), FALSE), Fact("native", 2, Meaning(2, 0), TRUE)}
MCRegistries == {1, 2, 3, 4}
MCCorpusOf == [d \in MCRegistries |->
  CASE d = 1 -> [left |-> Corpus("c1", "v1", F1), right |-> Corpus("c2", "v2", F2)]
    [] d = 2 -> [left |-> Corpus("c2", "v2", F2), right |-> Corpus("c1", "v1", F1)]
    [] d = 3 -> [left |-> Corpus("c2", "v2", F2), right |-> Corpus("c2", "v2", F2)]
    [] d = 4 -> [left |-> [Corpus("c3", "v1", F1) EXCEPT !.logical = "ext"],
                 right |-> Corpus("c2", "v2", F2)]]
MCIdentityOrder == << <<"native", 1>>, <<"native", 2>>, <<"native", 3>>, <<"native", 4>>, <<"routine", 1>>, <<"routine", 2>>, <<"routine", 3>> >>

Snap(alias, role, dependencies) ==
  [alias |-> alias, role |-> role, revision |-> alias, dependencies |-> dependencies]
GraphEntry(id, kind, snapshots) ==
  [id |-> id, kind |-> kind, snapshots |-> snapshots, readable |-> TRUE, zvec |-> FALSE,
   stored |-> {<<snapshots[n].alias, snapshots[n].revision>> : n \in DOMAIN snapshots}]
AppEntry == GraphEntry("app", "application", <<Snap("a", "application", {})>>)
DbEntry(x, y, z) ==
  GraphEntry("db", "database", <<Snap("pg", "postgres", {}), Snap("x", "extension", x),
                                 Snap("y", "extension", y), Snap("z", "extension", z)>>)
RegistryOf(graphs, extensions) ==
  [graphs |-> graphs, default |-> "app",
   contexts |-> <<[id |-> "c", app |-> "app", db |-> "db", extensions |-> extensions,
                   searchPath |-> <<"public">>]>>]
MCRegistryFiles ==
  {RegistryOf(<<AppEntry, DbEntry(x, y, z)>>, chosen) :
     x \in SUBSET {"pg", "y", "z"}, y \in SUBSET {"pg", "x", "z"}, z \in {{}, {"pg"}, {"x"}},
     chosen \in {<<>>, <<"x">>, <<"y", "x">>, <<"x", "y", "z">>}} \cup
  {RegistryOf(<<AppEntry, [DbEntry({"pg"}, {"pg"}, {"pg"}) EXCEPT !.stored = {}]>>, <<"x">>),
   RegistryOf(<<AppEntry, AppEntry>>, <<"x">>),
   RegistryOf(<<AppEntry, [AppEntry EXCEPT !.id = "other", !.kind = "index"]>>, <<>>),
   RegistryOf(<<DbEntry({"pg"}, {"pg"}, {"pg"})>>, <<>>)}

IndexRow(key, commit, kind, scope, score) ==
  [key |-> key, repo |-> "r", commit |-> commit, kind |-> kind, scope |-> scope, score |-> score]
R1 == <<IndexRow(1, 1, "function", "source", 3), IndexRow(2, 1, "method", "source", 1),
        IndexRow(3, 1, "function", "tests", 2), IndexRow(4, 1, "type", "source", 1)>>
R2 == <<IndexRow(5, 2, "function", "source", 3), IndexRow(6, 2, "method", "source", 1)>>
L1 == <<IndexRow(2, 1, "method", "source", 4), IndexRow(9, 1, "function", "source", 3)>>
MCIndexes ==
  << [generation |-> 1, repositories |-> {<<"r", 1>>}, graph |-> R1, lexical |-> L1],
     [generation |-> 1, repositories |-> {<<"r", 1>>}, graph |-> Tail(R1), lexical |-> L1],
     [generation |-> 1, repositories |-> {<<"r", 1>>, <<"r", 2>>}, graph |-> R1 \o R2, lexical |-> L1],
     [generation |-> 2, repositories |-> {<<"r", 1>>, <<"s", 1>>}, graph |-> R1, lexical |-> L1] >>
MCSearchQuestions ==
  [query : {"q"}, repo : {None, "r"}, commit : {None, 1, 2}, kind : {None, "type"},
   mode : {"graph", "hybrid", "lexical"}, scope : {"source", "all"}, limit : {1, 2}] \cup
  {[query |-> None, repo |-> "r", commit |-> None, kind |-> None, mode |-> "graph",
    scope |-> "all", limit |-> 1],
   [query |-> "q", repo |-> "t", commit |-> None, kind |-> None, mode |-> "graph",
    scope |-> "all", limit |-> 1]}

Symbol(key, commit, qname, label) ==
  [key |-> <<"@", key>>, repo |-> "r", commit |-> commit, qname |-> qname, label |-> label]
Code == {Symbol("f", 1, <<"a", "x", ".", "f">>, "Function"), Symbol("g", 1, <<"x", ".", "g">>, "Method"),
         Symbol("h", 1, <<"h">>, "Function"), Symbol("f2", 2, <<"a", "x", ".", "f">>, "Function"),
         Symbol("T", 1, <<"T">>, "Type"), Symbol("U", 1, <<"U">>, "Type")}
K(key) == <<"@", key>>
Pairs == {<<K("f"), K("g")>>, <<K("g"), K("h")>>, <<K("h"), K("f")>>, <<K("f"), K("f2")>>}
MCCodeGraphs ==
  {[symbols |-> Code, exact |-> exact, inherits |-> {<<K("T"), K("U")>>},
    sites |-> {[snapshot |-> <<"r", 1>>, caller |-> e[1], callee |-> e[2]] : e \in exact} \cup heuristic] :
     exact \in SUBSET Pairs,
     heuristic \in SUBSET {[snapshot |-> <<"r", 1>>, caller |-> K("g"), callee |-> K("f")],
                            [snapshot |-> <<"r", 1>>, caller |-> None, callee |-> K("h")]}}
MCSymbolQuestions ==
  [identifier : {K("f"), K("T"), K("nothing"), <<"a", "x", ".", "f">>, <<"x", ".", "f">>, <<"h">>},
   repo : {None, "r"}, commit : {None, 1, 2},
   labels : {{"Function", "Method"}, {"Type"}}]

Init == UsagesInit \/ TraceInit \/ ComparisonInit \/ LoadInit \/ SearchInit \/ RelationsInit
Next == UsagesNext \/ TraceNext \/ ComparisonNext \/ LoadNext \/ SearchNext \/ RelationsNext
Spec == Init /\ [][Next]_vars
=============================================================================
