-------------------------- MODULE CorpusResolution --------------------------
(***************************************************************************)
(* The links of a corpus of repository snapshots: which manifests are      *)
(* accepted (src/src/codekg/corpus_config.py), and how the facts of the    *)
(* accepted ones are linked within what each snapshot may see              *)
(* (resolve_corpus_facts of src/src/codekg/corpus_registry.py).            *)
(*                                                                         *)
(* A corpus is a sequence of snapshots [alias, repo, role, path, deps,     *)
(* facts]: path is the search path of its SQL, deps the aliases it names,  *)
(* facts its tables: sequences in the order of path and ordinal            *)
(*   evidence [origin, path, schema, name, arity, kind, dynamic, receiver, *)
(*             condition]: a place where a routine is called or mentioned  *)
(*   routines [path, line, control, schema, name, kind, signature, arity,  *)
(*             outs, defaults, variadic, language, library, entry,         *)
(*             condition, body]; control is the extension of its script    *)
(*   symbols  [path, line, name, kind, signature, declaration, static,     *)
(*             condition, body]: functions and macros of C                 *)
(*   calls    [path, line, column, owner, ownerline, callee, dynamic,      *)
(*             evidence, condition]: calls of C                            *)
(*   objects  [schema, name, kind, signature]: the graph's SQL objects     *)
(* evidence has its owner and ownerline too (None, or the name of who holds *)
(* it), and graph is what CorpusGraph makes of all this.                   *)
(* and sets, modules [control, library, rank] and diagnostics [path,       *)
(* ordinal, category]; rank is the place of the library in the order of    *)
(* names.  A fact is named <<alias, table, place>>.                        *)
(***************************************************************************)
EXTENDS RowSelection, TLC, Requests

CONSTANTS
  Corpora,  \* corpora that may be exported
  LinkCap   \* the candidates that are kept of one fact (32)

Tables == {"evidence", "routines", "symbols", "calls", "objects"}
RoutineFields ==
  {"path", "line", "control", "schema", "name", "kind", "signature", "arity", "outs", "defaults", "variadic", "language",
   "library", "entry", "condition", "body"}
SymbolFields == {"path", "line", "name", "kind", "signature", "declaration", "static", "condition", "body"}
(* Each call is written with the ordinal of a piece of evidence of its own.  *)
CallsAreEvidence(facts) ==
  \A m \in DOMAIN facts.calls :
    /\ facts.calls[m].evidence \in DOMAIN facts.evidence
    /\ facts.evidence[facts.calls[m].evidence].origin = "native_call"
    /\ \A n \in DOMAIN facts.calls : facts.calls[n].evidence = facts.calls[m].evidence => n = m
IsSnapshot(s) ==
  /\ s.path \in Seq(ToSet(s.path))
  /\ \A table \in Tables : s.facts[table] \in Seq(ToSet(s.facts[table]))
  /\ \A r \in ToSet(s.facts.routines) : DOMAIN r = RoutineFields /\ r.name # None
  /\ \A f \in ToSet(s.facts.symbols) :
       DOMAIN f = SymbolFields /\ f.name # None /\ {f.static, f.declaration} \subseteq BOOLEAN
  /\ CallsAreEvidence(s.facts)
ASSUME CorporaAssumption == \A c \in Corpora : c \in Seq(ToSet(c)) /\ \A s \in ToSet(c) : IsSnapshot(s)
ASSUME LinkCapAssumption == LinkCap \in Nat \ {0}

Placeholder == "@LIBRARY@"  \* a library that the build fills in
SnapshotAliases(c) == {c[n].alias : n \in DOMAIN c}
ByAlias(c, alias) == CHOOSE s \in ToSet(c) : s.alias = alias

(***************************************************************************)
(* The manifest.                                                           *)
(***************************************************************************)
(* The least set that has those of from and, with each of its members, what
   comes after that one.                                                     *)
Following(all, from, after) ==
  {b \in all : \A S \in SUBSET all : from \subseteq S /\ (\A x \in S : after[x] \subseteq S) => b \in S}
Dependencies(c) == [a \in SnapshotAliases(c) |-> ToSet(ByAlias(c, a).deps)]
DependencyClosure(c, alias) == Following(SnapshotAliases(c), Dependencies(c)[alias], Dependencies(c))

(* Faulty variant: what a dependency depends on is not looked at.            *)
NamedDependencies(c, s) == ToSet(s.deps)

ValidatedClosure(c, s) == DependencyClosure(c, s.alias)
OneAliasPerServer(c, s) ==
  \A a, b \in ValidatedClosure(c, s) :
    /\ ByAlias(c, a).role = "postgres" /\ ByAlias(c, b).role = "postgres"
    /\ ByAlias(c, a).repo = ByAlias(c, b).repo
    => a = b
Accepted(c) ==
  /\ Cardinality(SnapshotAliases(c)) = Len(c)
  /\ \A s \in ToSet(c) : /\ IsInjective(s.deps) /\ s.alias \notin ToSet(s.deps)
                         /\ s.role = "postgres" => s.deps = <<>>
  /\ \A s \in ToSet(c) : /\ ToSet(s.deps) \subseteq SnapshotAliases(c)
                         /\ s.role = "extension" => \E d \in ToSet(s.deps) : ByAlias(c, d).role = "postgres"
  /\ \A s \in ToSet(c) : s.role # "postgres" => OneAliasPerServer(c, s)
  /\ \A s \in ToSet(c) : s.alias \notin DependencyClosure(c, s.alias)

(***************************************************************************)
(* The tables, as far as a snapshot sees them.                             *)
(***************************************************************************)
VisibleAliases(c, s) == {s.alias} \cup DependencyClosure(c, s.alias)
TableFacts(c, aliases, table) ==
  UNION {{<<a, table, n>> : n \in DOMAIN ByAlias(c, a).facts[table]} : a \in aliases}
Fact(c, id) == ByAlias(c, id[1]).facts[id[2]][id[3]]
Unplaced(fact) == [f \in DOMAIN fact \ {"path", "line", "control"} |-> fact[f]]
(* Of equal facts of a snapshot the first counts.                            *)
Distinct(c, ids) ==
  {i \in ids : \A j \in ids : j[1] = i[1] /\ Unplaced(Fact(c, j)) = Unplaced(Fact(c, i)) => i[3] <= j[3]}
(* Those that come first by path and place, as many as are kept.             *)
Kept(c, ids) ==
  LET before(i, j) == \/ Fact(c, i).path < Fact(c, j).path
                      \/ Fact(c, i).path = Fact(c, j).path /\ i[3] < j[3]
  IN  CHOOSE kept \in SUBSET ids :
        /\ Cardinality(kept) = IF Cardinality(ids) < LinkCap THEN Cardinality(ids) ELSE LinkCap
        /\ \A i \in kept, j \in ids \ kept : ~before(j, i)

Guards(x, y) == {x.condition, y.condition} \ {None}
Link(source, target, kind, status, line) ==
  [source |-> source, target |-> target, kind |-> kind, status |-> status, line |-> line]
(* An ordinal that is taken keeps the diagnostic it has.                     *)
AddDiagnostic(diagnostics, alias, path, ordinal, category) ==
  IF \E d \in diagnostics : d.alias = alias /\ d.path = path /\ d.ordinal = ordinal THEN diagnostics
  ELSE diagnostics \cup {[alias |-> alias, path |-> path, ordinal |-> ordinal, category |-> category]}

(***************************************************************************)
(* Evidence: the routines that a call may mean.                            *)
(***************************************************************************)
Documentation == {"markdown_sql", "markdown_mention"}
Origins == Documentation \cup {"python_execute", "routine_body", "sql_source"}
RoutineTargetKinds(kind) ==
  CASE kind = "function" -> {"function", "aggregate", "window"}
    [] kind = "procedure" -> {"procedure"}
    [] OTHER -> {"function", "aggregate", "window", "procedure"}
InvocationArity(r) == r.arity + (IF r.kind = "procedure" /\ r.outs # None THEN r.outs ELSE 0)
TakesArguments(r, n) ==
  /\ InvocationArity(r) - r.defaults - r.variadic <= n
  /\ r.variadic > 0 \/ n <= InvocationArity(r)
(* Those of one schema: the snapshot's own, else those of its dependencies.  *)
ScopedRoutines(c, s, e, schema) ==
  LET applicable == {i \in TableFacts(c, VisibleAliases(c, s), "routines") :
                       LET r == Fact(c, i)
                       IN  /\ r.name = e.name /\ r.schema = schema /\ r.kind \in RoutineTargetKinds(e.kind)
                           /\ e.arity # None => TakesArguments(r, e.arity)}
      own == {i \in applicable : i[1] = s.alias}
  IN  Distinct(c, IF own # {} THEN own ELSE applicable)
CandidateRoutines(c, s, e) ==
  LET schemas == IF e.schema # None THEN <<e.schema>> ELSE s.path
      scoped == [n \in DOMAIN schemas |-> ScopedRoutines(c, s, e, schemas[n])]
      having == {n \in DOMAIN schemas : scoped[n] # {}}
  IN  IF having = {} THEN {} ELSE scoped[Min(having)]

(* A procedure with OUT parameters and defaults is not placed by a number.   *)
KnowsArguments(e, r) ==
  /\ e.origin \in Documentation \/ (e.arity # None /\ e.kind \in {"function", "procedure"})
  /\ e.kind = "procedure" => r.outs # None /\ ~(r.outs > 0 /\ r.defaults > 0)
LinkOne(c, id, e, target) ==
  Link(id, target, IF e.origin \in Documentation THEN "documents" ELSE "invokes",
       IF Guards(e, Fact(c, target)) = {} THEN "exact" ELSE "conditional", None)
RoutineLinks(c, id, e, found) ==
  LET unverified == e.origin = "python_execute" /\ e.receiver # "verified"
  IN  IF Cardinality(found) = 1 /\ ~unverified /\ \A i \in found : KnowsArguments(e, Fact(c, i))
      THEN {LinkOne(c, id, e, i) : i \in found}
      ELSE {Link(id, i, "candidate", IF unverified THEN "receiver_unverified" ELSE "ambiguous", None) :
              i \in Kept(c, found)}
EvidenceLinks(c, s, id, e) ==
  IF e.origin \notin Origins \/ e.name = None \/ e.dynamic THEN {}
  ELSE RoutineLinks(c, id, e, CandidateRoutines(c, s, e))

(***************************************************************************)
(* Routines: the SQL object that one describes, and the C function that one*)
(* binds to, in its own library or in the server.                          *)
(***************************************************************************)
(* What is absent equals nothing.                                            *)
DescribedObject(c, id, r) ==
  LET same == {i \in TableFacts(c, {id[1]}, "objects") :
                 LET o == Fact(c, i)
                 IN  /\ <<o.schema, o.name, o.kind, o.signature>> = <<r.schema, r.name, r.kind, r.signature>>
                     /\ None \notin {r.schema, r.kind, r.signature}}
  IN  IF Cardinality(same) = 1 THEN {Link(id, i, "describes", "exact", r.line) : i \in same} ELSE {}
Binds(r) == r.language \in {"c", "internal"} /\ r.entry # None
Servers(c, s) == {a \in VisibleAliases(c, s) : ByAlias(c, a).role = "postgres"}
(* The libraries of the script's extension: the first of them, by name.      *)
ModuleLimit == 3
Modules(s, r) ==
  LET named == {m \in s.facts.modules : r.control # None /\ m.control = r.control}
  IN  {m.library : m \in {x \in named : Cardinality({y.library : y \in {z \in named : z.rank < x.rank}}) < ModuleLimit}}
ConcreteModule(s, r) == Cardinality(Modules(s, r)) = 1 /\ Placeholder \notin Modules(s, r)
BindingAllowed(c, s, r) ==
  IF r.language = "internal" THEN Servers(c, s) # {}
  ELSE IF r.library = "MODULE_PATHNAME" THEN ConcreteModule(s, r)
  ELSE r.library \in Modules(s, r) \ {Placeholder}
EntryPoints(c, s, r) ==
  {i \in TableFacts(c, IF r.language = "internal" THEN Servers(c, s) ELSE {s.alias}, "symbols") :
     LET f == Fact(c, i) IN f.name = r.entry /\ f.kind = "function" /\ ~f.declaration /\ ~f.static}
BindingLinks(c, id, r, allowed, found) ==
  IF Cardinality(found) = 1 /\ allowed
  THEN {Link(id, i, "binds", IF Guards(r, Fact(c, i)) = {} THEN "exact" ELSE "conditional", r.line) : i \in found}
  ELSE {Link(id, i, "candidate", IF Cardinality(found) > 1 THEN "ambiguous" ELSE "unresolved", r.line) :
          i \in Kept(c, found)}
BindingDiagnostics(diagnostics, s, r, found) ==
  IF r.language = "internal"
  THEN (IF found = {} THEN AddDiagnostic(diagnostics, s.alias, r.path, 110000 + r.line, "internal_binding_unresolved")
        ELSE diagnostics)
  ELSE IF r.library = "MODULE_PATHNAME" /\ ~ConcreteModule(s, r)
  THEN AddDiagnostic(diagnostics, s.alias, r.path, 100000 + r.line, "unresolved_module_pathname")
  ELSE diagnostics

(***************************************************************************)
(* Calls of C: the file's own static function, else an external one of the *)
(* snapshot, else one of its dependencies.                                 *)
(***************************************************************************)
CallOwners(c, s, call) ==
  {i \in TableFacts(c, {s.alias}, "symbols") :
     LET f == Fact(c, i)
     IN f.path = call.path /\ f.name = call.owner /\ f.line = call.ownerline /\ ~f.declaration}
Priority(s, i, f) == IF i[1] # s.alias THEN 2 ELSE IF f.static THEN 0 ELSE 1
CallTargets(c, s, call) ==
  LET matches == {i \in TableFacts(c, VisibleAliases(c, s), "symbols") :
                    LET f == Fact(c, i)
                    IN  /\ f.name = call.callee /\ f.kind = "function" /\ ~f.declaration
                        /\ ~f.static \/ (i[1] = s.alias /\ f.path = call.path)}
      nearest == Min({Priority(s, i, Fact(c, i)) : i \in matches})
  IN  Distinct(c, {i \in matches : Priority(s, i, Fact(c, i)) = nearest})
Macros(c, s, call) ==
  {i \in TableFacts(c, VisibleAliases(c, s), "symbols") :
     LET f == Fact(c, i) IN f.name = call.callee /\ f.kind = "macro"}
CallLink(source, call, target, f, exact, single) ==
  Link(source, target, IF exact THEN "calls" ELSE "candidate",
       IF exact THEN "exact" ELSE IF single /\ Guards(call, f) # {} THEN "conditional" ELSE "ambiguous", call.line)
CallLinks(c, s, call, sources, found, macros) ==
  LET single == Cardinality(found) = 1
  IN  {CallLink(source, call, i, Fact(c, i), macros = {} /\ single /\ Guards(call, Fact(c, i)) = {}, single) :
         source \in sources, i \in Kept(c, found)}
NextOrdinal(diagnostics, s, call) ==
  Max({-1} \cup {d.ordinal : d \in {x \in diagnostics : x.alias = s.alias /\ x.path = call.path}}) + 1

(***************************************************************************)
(* The manifest is validated, then every snapshot's tables are gone        *)
(* through, in one transaction.                                            *)
(***************************************************************************)
CorpusInit ==
  /\ \E c \in Corpora :
       request = [tool |-> "corpus", corpus |-> c, edges |-> {}, status |-> "new", graph |-> None,
                  diagnostics |-> UNION {{[alias |-> s.alias, path |-> d.path, ordinal |-> d.ordinal,
                                           category |-> d.category] : d \in s.facts.diagnostics} : s \in ToSet(c)}]
  /\ progress = Idle

(* Which fact of which table of which snapshot is next.                      *)
Passing(table, snapshot, fact) == [pc |-> "corpus", table |-> table, snapshot |-> snapshot, fact |-> fact]
LoadCorpus ==
  /\ Asked("corpus")
  /\ IF ~Accepted(request.corpus) THEN Answer("rejected")
     ELSE IF request.corpus = <<>> THEN Answer("committed")
     ELSE progress' = Passing("evidence", 1, 1) /\ UNCHANGED request
Current == request.corpus[progress.snapshot]
(* One fact of the table that is gone through, and what it adds.             *)
AtTable(table) == progress.pc = "corpus" /\ progress.table = table /\ progress.fact <= Len(Current.facts[table])
Id(table) == <<Current.alias, table, progress.fact>>
FactNow(table) == Current.facts[table][progress.fact]
AddLinks(edges, diagnostics) ==
  /\ request' = [request EXCEPT !.edges = @ \cup edges, !.diagnostics = diagnostics]
  /\ progress' = [progress EXCEPT !.fact = @ + 1]

LinkEvidence ==
  /\ AtTable("evidence")
  /\ AddLinks(EvidenceLinks(request.corpus, Current, Id("evidence"), FactNow("evidence")), request.diagnostics)

RoutineFact(c, s, id, r, found) ==
  AddLinks(DescribedObject(c, id, r) \cup BindingLinks(c, id, r, BindingAllowed(c, s, r), found),
           BindingDiagnostics(request.diagnostics, s, r, found))
BindRoutine ==
  /\ AtTable("routines")
  /\ IF Binds(FactNow("routines"))
     THEN RoutineFact(request.corpus, Current, Id("routines"), FactNow("routines"),
                      EntryPoints(request.corpus, Current, FactNow("routines")))
     ELSE AddLinks(DescribedObject(request.corpus, Id("routines"), FactNow("routines")), request.diagnostics)

CallFact(c, s, call, owners, found, macros) ==
  IF Cardinality(owners) # 1
  THEN AddLinks({}, AddDiagnostic(request.diagnostics, s.alias, call.path,
                                  NextOrdinal(request.diagnostics, s, call), "native_call_owner_unresolved"))
  ELSE IF call.callee = None \/ call.dynamic THEN AddLinks({}, request.diagnostics)
  ELSE AddLinks(CallLinks(c, s, call, owners \cup {<<s.alias, "evidence", call.evidence>>}, found, macros),
                IF found # {} \/ macros = {} THEN request.diagnostics
                ELSE AddDiagnostic(request.diagnostics, s.alias, call.path, 200000 + call.line * 1000 + call.column,
                                   "native_macro_resolution_uncertain"))
LinkCall ==
  /\ AtTable("calls")
  /\ IF FactNow("calls").callee = "PG_FUNCTION_INFO_V1" THEN AddLinks({}, request.diagnostics)
     ELSE CallFact(request.corpus, Current, FactNow("calls"),
                   CallOwners(request.corpus, Current, FactNow("calls")),
                   CallTargets(request.corpus, Current, FactNow("calls")),
                   Macros(request.corpus, Current, FactNow("calls")))
(* The table is done: the next one, the next snapshot, or the commit.        *)
EndTable ==
  /\ progress.pc = "corpus" /\ progress.fact > Len(Current.facts[progress.table])
  /\ IF progress.table = "calls" /\ progress.snapshot = Len(request.corpus) THEN Answer("committed")
     ELSE /\ UNCHANGED request
          /\ progress' = CASE progress.table = "evidence" -> Passing("routines", progress.snapshot, 1)
                           [] progress.table = "routines" -> Passing("calls", progress.snapshot, 1)
                           [] OTHER -> Passing("evidence", progress.snapshot + 1, 1)

CorpusNext == LoadCorpus \/ LinkEvidence \/ BindRoutine \/ LinkCall \/ EndTable
CorpusSpec == CorpusInit /\ [][CorpusNext]_vars

-----------------------------------------------------------------------------
InSight(c, a) == Following(SnapshotAliases(c), {a}, Dependencies(c))

Asserted(edges) == {e \in edges : e.kind \in {"invokes", "documents", "binds", "calls"}}
(* Where the links of each snapshot's own facts lead.                        *)
Leading(c, edges) == [a \in SnapshotAliases(c) |-> {e.target[1] : e \in {l \in edges : l.source[1] = a}}]
OneServerPerChain(c, edges) ==
  \A a \in SnapshotAliases(c) :
    LET reached == Following(SnapshotAliases(c), {a}, Leading(c, edges))
    IN  /\ reached \subseteq InSight(c, a)
        /\ \A x, y \in reached : /\ ByAlias(c, x).role = "postgres" /\ ByAlias(c, y).role = "postgres"
                                /\ ByAlias(c, x).repo = ByAlias(c, y).repo
                                => x = y

(* Those that no other hides; and whether they are one and the same.         *)
Unhidden(found, Hides(_, _)) == {i \in found : \A j \in found : ~Hides(j, i)}
Same(c, ids) == ids # {} /\ \A i, j \in ids : i[1] = j[1] /\ Unplaced(Fact(c, i)) = Unplaced(Fact(c, j))
(* The links of a source are to what the name means, if and only if that is
   known to be one thing.                                                    *)
AssertedIff(c, edges, source, meant, known) ==
  LET links == {e \in edges : e.source = source}
  IN  /\ Cardinality(links) = IF known /\ Same(c, meant) THEN 1 ELSE 0
      /\ {e.target : e \in links} \subseteq meant

EvidenceMeans(c, s, e) ==
  LET schemas == IF e.schema # None THEN <<e.schema>> ELSE s.path
      depth(i) == Min({n \in DOMAIN schemas : schemas[n] = Fact(c, i).schema})
      hides(i, j) == depth(i) < depth(j) \/ (depth(i) = depth(j) /\ i[1] = s.alias /\ j[1] # s.alias)
  IN  Unhidden({i \in TableFacts(c, InSight(c, s.alias), "routines") :
                  LET r == Fact(c, i)
                  IN  /\ r.name = e.name /\ r.schema \in ToSet(schemas) /\ r.kind \in RoutineTargetKinds(e.kind)
                      /\ e.arity # None => TakesArguments(r, e.arity)}, hides)
EvidenceRight(c, s, edges, n) ==
  LET e == s.facts.evidence[n]
      meant == IF e.origin \in Origins THEN EvidenceMeans(c, s, e) ELSE {}
  IN  e.origin \in Origins =>
        AssertedIff(c, edges, <<s.alias, "evidence", n>>, meant,
                    /\ ~e.dynamic /\ (e.origin = "python_execute" => e.receiver = "verified")
                    /\ \A i \in meant : KnowsArguments(e, Fact(c, i)))
NamedSymbols(c, s, call) == {i \in TableFacts(c, InSight(c, s.alias), "symbols") : Fact(c, i).name = call.callee}
CallMeans(c, s, call) ==
  LET hides(i, j) == (i[1] = s.alias /\ j[1] # s.alias) \/ (Fact(c, i).static /\ ~Fact(c, j).static)
  IN  Unhidden({i \in NamedSymbols(c, s, call) :
                  LET f == Fact(c, i)
                  IN  /\ f.kind = "function" /\ ~f.declaration
                      /\ f.static => i[1] = s.alias /\ f.path = call.path}, hides)
CallRight(c, s, edges, n) ==
  LET call == s.facts.calls[n]
      meant == CallMeans(c, s, call)
  IN  AssertedIff(c, edges, <<s.alias, "evidence", call.evidence>>, meant,
                  /\ ~call.dynamic /\ call.callee # "PG_FUNCTION_INFO_V1" /\ Cardinality(CallOwners(c, s, call)) = 1
                  /\ \A i \in NamedSymbols(c, s, call) : Fact(c, i).kind # "macro"
                  /\ \A i \in meant : Guards(call, Fact(c, i)) = {})
(* What a function calls is what its calls, each of them evidence, mean.     *)
LinesTo(edges, sources) == {<<e.target, e.line>> : e \in {l \in edges : l.source \in sources}}
OwnerRight(c, s, edges, n) ==
  LET owner == <<s.alias, "symbols", n>>
      owned == {call \in ToSet(s.facts.calls) : CallOwners(c, s, call) = {owner}}
  IN  LinesTo(edges, {owner}) = LinesTo(edges, {<<s.alias, "evidence", call.evidence>> : call \in owned})
BindingRight(c, s, edges, n) ==
  LET r == s.facts.routines[n]
      bound == {e.target : e \in {l \in edges : l.source = <<s.alias, "routines", n>>}}
      places == IF r.language = "c" THEN {s.alias} ELSE {a \in InSight(c, s.alias) : ByAlias(c, a).role = "postgres"}
      named == {i \in TableFacts(c, places, "symbols") :
                  LET f == Fact(c, i) IN f.name = r.entry /\ f.kind = "function" /\ ~f.declaration /\ ~f.static}
  IN  IF Binds(r) /\ Cardinality(named) = 1 THEN bound = IF BindingAllowed(c, s, r) THEN named ELSE {}
      ELSE bound = {}

(* Of an accepted manifest: a chain of asserted links, through the links that
   each snapshot has for itself, never leaves what its first snapshot depends
   on and never comes to two versions of one server; and a link is asserted
   exactly when what the code names, with nothing that hides it, is one
   definition of which the arguments or the guards leave no doubt; a macro of
   the name, an unverified receiver or a second definition leaves candidates
   (corpus_config.py:146-157, corpus_registry.py:396-845; docs/
   postgresql-corpus-plan.md:122-131).                                       *)
CorpusLinksRight ==
  request.tool = "corpus" /\ request.status = "committed" =>
    \E edges \in {Asserted(request.edges)} :
      /\ OneServerPerChain(request.corpus, edges)
      /\ \A s \in ToSet(request.corpus) :
           /\ \A n \in DOMAIN s.facts.evidence : EvidenceRight(request.corpus, s, edges, n)
           /\ \A n \in DOMAIN s.facts.calls : CallRight(request.corpus, s, edges, n)
           /\ \A n \in DOMAIN s.facts.symbols : OwnerRight(request.corpus, s, edges, n)
           /\ \A n \in DOMAIN s.facts.routines : BindingRight(request.corpus, s, edges, n)
=============================================================================
