------------------------------ MODULE MCCorpora ------------------------------
(* Corpora of two versions of one server (p, q), an extension x, a library y *)
(* and an application.                                                       *)
EXTENDS CorpusGraph

NoFacts == [evidence |-> <<>>, routines |-> <<>>, symbols |-> <<>>, calls |-> <<>>, objects |-> <<>>,
            modules |-> {}, diagnostics |-> {}, owners |-> <<>>, files |-> <<>>]
PathsOf(facts) == {fact.path : fact \in ToSet(facts)}
WithFiles(facts) ==
  LET from(origins) == {e.path : e \in {x \in ToSet(facts.evidence) : x.origin \in origins}}
      native == PathsOf(facts.symbols) \cup PathsOf(facts.calls) \cup from({"native_call"})
      sql == PathsOf(facts.routines) \cup from({"routine_body", "sql_source"})
  IN  [facts EXCEPT !.files =
         [p \in native \cup sql \cup PathsOf(facts.evidence) \cup PathsOf(facts.owners) |->
            IF p \in native THEN "c" ELSE IF p \in sql THEN "sql"
            ELSE IF p \in from(Documentation) THEN "markdown" ELSE "python"]]
SnapshotOf(alias, role, deps, facts) ==
  [alias |-> alias, repo |-> IF role = "postgres" THEN "pg" ELSE alias, role |-> role, path |-> <<"a", "b">>,
   deps |-> deps, facts |-> WithFiles(facts)]

Evidence(origin, schema, arity, kind) ==
  [origin |-> origin, path |-> 1, schema |-> schema, name |-> "f", arity |-> arity, kind |-> kind, dynamic |-> FALSE,
   receiver |-> "verified", condition |-> None, owner |-> None, ownerline |-> None]
SqlRoutine(schema, kind, signature, arity) ==
  [path |-> 2, line |-> 1, control |-> "x", schema |-> schema, name |-> "f", kind |-> kind, signature |-> signature,
   arity |-> arity, outs |-> 0, defaults |-> 0, variadic |-> 0, language |-> "sql", library |-> None, entry |-> None,
   condition |-> None, body |-> 1]
OfC(r, library) == [r EXCEPT !.language = "c", !.library = library, !.entry = "f_c"]
Symbol(path, line, name) ==
  [path |-> path, line |-> line, name |-> name, kind |-> "function", signature |-> "int", declaration |-> FALSE,
   static |-> FALSE, condition |-> None, body |-> 1]
CallIn(path, line, owner, callee) ==
  [path |-> path, line |-> line, column |-> 1, owner |-> owner, ownerline |-> 1, callee |-> callee, dynamic |-> FALSE,
   evidence |-> None, condition |-> None]
(* Every call is evidence too.                                               *)
CallingNative(facts, calls) ==
  [facts EXCEPT
     !.calls = [n \in DOMAIN calls |-> [calls[n] EXCEPT !.evidence = Len(facts.evidence) + n]],
     !.evidence = @ \o [n \in DOMAIN calls |->
        [Evidence("native_call", None, None, None) EXCEPT
           !.path = calls[n].path, !.name = calls[n].callee, !.dynamic = calls[n].dynamic,
           !.condition = calls[n].condition, !.owner = calls[n].owner, !.ownerline = calls[n].ownerline]]]

(* Any dependencies: the application asks for f, which x has in C and y has
   from the server; x and y call the server.                                 *)
ServerFacts == [NoFacts EXCEPT !.symbols = <<Symbol(1, 1, "f_c"), Symbol(1, 2, "alloc")>>]
ExtensionFacts ==
  CallingNative([NoFacts EXCEPT !.routines = <<OfC(SqlRoutine("a", "function", "f(int)", 1), "MODULE_PATHNAME")>>,
                          !.symbols = <<Symbol(1, 1, "f_c")>>, !.modules = {[control |-> "x", library |-> "x.so", rank |-> 5]}],
          <<CallIn(1, 1, "f_c", "alloc")>>)
LibraryFacts ==
  CallingNative([NoFacts EXCEPT !.routines = <<[SqlRoutine("b", "function", "f(text,text)", 2) EXCEPT
                                            !.language = "internal", !.entry = "f_c"]>>,
                          !.symbols = <<Symbol(1, 1, "g")>>],
          <<CallIn(1, 1, "g", "alloc")>>)
ApplicationFacts ==
  [NoFacts EXCEPT !.evidence = <<Evidence("python_execute", None, 1, "function"),
                                 Evidence("python_execute", None, 2, "function")>>]
Shapes ==
  {<<SnapshotOf("p", "postgres", p, ServerFacts), SnapshotOf("q", "postgres", <<>>, ServerFacts),
     SnapshotOf("x", "extension", x, ExtensionFacts), SnapshotOf("y", "application", y, LibraryFacts),
     SnapshotOf("app", "application", a, ApplicationFacts)>> :
     p \in {<<>>, <<"q">>}, x \in {<<"p">>, <<"q">>, <<"p", "y">>, <<"p", "p">>, <<"y">>},
     y \in {<<>>, <<"p">>, <<"q">>, <<"x">>, <<"app">>, <<"z">>},
     a \in {<<"x">>, <<"x", "y">>, <<"y", "p">>, <<"x", "q">>}}

(* One server and an extension: which routines a call of f means.            *)
Of(server, extension, application) ==
  <<SnapshotOf("p", "postgres", <<>>, server), SnapshotOf("x", "extension", <<"p">>, extension),
    SnapshotOf("app", "application", <<"x">>, application)>>
Procedure(outs, defaults) ==
  [SqlRoutine("a", "procedure", "f(int)", 1) EXCEPT !.outs = outs, !.defaults = defaults]
ManyRoutines ==
  {<<SqlRoutine("a", "function", "f(int)", 1)>>, <<SqlRoutine("b", "function", "f(int)", 1)>>,
   <<SqlRoutine("a", "function", "f(int)", 1), [SqlRoutine("a", "function", "f(int)", 1) EXCEPT !.line = 2]>>,
   <<SqlRoutine("a", "function", "f(int)", 1), SqlRoutine("a", "function", "f(text)", 1)>>,
   <<[SqlRoutine("a", "function", "f(int)", 1) EXCEPT !.condition = "#if"],
     [SqlRoutine("a", "function", "f(int)", 1) EXCEPT !.condition = "#else"]>>,
   <<[SqlRoutine("a", "function", "f(int,int)", 2) EXCEPT !.defaults = 1]>>,
   <<[SqlRoutine("a", "aggregate", "f(int)", 1) EXCEPT !.variadic = 1]>>,
   <<Procedure(0, 0)>>, <<Procedure(1, 0)>>, <<Procedure(1, 1)>>, <<Procedure(None, 0)>>, <<>>}
Asked1 ==
  {Evidence("python_execute", None, 1, "function"), Evidence("sql_source", "b", 1, "function"),
   Evidence("routine_body", None, 1, "procedure"), Evidence("routine_body", None, 2, "procedure"),
   Evidence("markdown_mention", None, None, None), Evidence("python_execute", None, None, None),
   Evidence("markdown_sql", "a", 1, "procedure"),
   [Evidence("python_execute", None, 1, "function") EXCEPT !.receiver = "unverified"],
   [Evidence("sql_source", None, 1, "function") EXCEPT !.condition = "template"],
   [Evidence("sql_source", None, 0, "function") EXCEPT !.dynamic = TRUE]}
ForRoutines ==
  {Of([NoFacts EXCEPT !.routines = p], [NoFacts EXCEPT !.routines = x],
      [NoFacts EXCEPT !.evidence = <<e>>, !.routines = a]) :
     p \in {<<>>, <<SqlRoutine("a", "function", "f(int)", 1)>>}, x \in ManyRoutines, e \in Asked1,
     a \in {<<>>, <<SqlRoutine("b", "function", "f(int)", 1)>>}}

(* Which functions a call of g means, among static ones, declarations, copies
   and macros; and which one a routine of C binds to.                        *)
Static(path, line) == [Symbol(path, line, "g") EXCEPT !.static = TRUE]
Declared(path, line, signature) ==
  [Symbol(path, line, "g") EXCEPT !.declaration = TRUE, !.signature = signature, !.body = None]
OwnSymbols ==
  {<<>>, <<Static(1, 2)>>, <<Static(2, 2)>>, <<Symbol(2, 2, "g")>>, <<Static(1, 2), Symbol(2, 2, "g")>>,
   <<Symbol(2, 2, "g"), Symbol(3, 2, "g")>>, <<Symbol(2, 2, "g"), [Symbol(3, 2, "g") EXCEPT !.body = 2]>>,
   <<Declared(1, 2, "int"), Static(2, 2)>>,
   <<Declared(1, 2, "int"), Declared(1, 3, "int"), Declared(1, 4, "long"), Declared(2, 2, "int")>>,
   <<Symbol(1, 2, "g"), Static(2, 2), Static(3, 2), Symbol(4, 2, "g")>>, <<[Symbol(2, 2, "g") EXCEPT !.kind = "macro"]>>,
   <<[Symbol(2, 2, "g") EXCEPT !.condition = "#if"]>>, <<Symbol(1, 1, "owner"), Symbol(2, 2, "g")>>}
Called ==
  {CallIn(1, 5, "owner", "g"), [CallIn(1, 5, "owner", "g") EXCEPT !.dynamic = TRUE],
   [CallIn(1, 5, "owner", "g") EXCEPT !.condition = "#if"], CallIn(1, 5, "owner", "PG_FUNCTION_INFO_V1")}
ForCalls ==
  {Of([NoFacts EXCEPT !.symbols = p],
      CallingNative([NoFacts EXCEPT !.symbols = <<Symbol(1, 1, "owner")>> \o s,
                              !.diagnostics = {[path |-> 1, ordinal |-> 0, category |-> "parse"]}], <<call>>),
      [NoFacts EXCEPT !.symbols = <<Symbol(1, 1, "g")>>]) :
     p \in {<<>>, <<Symbol(1, 1, "g")>>, <<Static(1, 1)>>, <<[Symbol(1, 1, "g") EXCEPT !.kind = "macro"]>>,
            <<Symbol(1, 1, "g"), [Symbol(2, 1, "g") EXCEPT !.body = 2]>>},
     s \in OwnSymbols, call \in Called}
(* With four libraries for x, x.so is behind the first three by name.        *)
ByName == <<Placeholder, "a.so", "b.so", "c.so", "x.so", "y.so">>
ModuleOf(m) == [control |-> m[1], library |-> m[2], rank |-> CHOOSE n \in DOMAIN ByName : ByName[n] = m[2]]
Four == {<<"x", ByName[n]>> : n \in 2..5}
Libraries == {<<"x", "x.so">>, <<"x", "y.so">>, <<"y", "x.so">>, <<"x", Placeholder>>}
ForBindings ==
  {Of(ServerFacts,
      [NoFacts EXCEPT !.routines = <<r>>, !.symbols = s, !.objects = o,
                      !.modules = {ModuleOf(m) : m \in ms}], NoFacts) :
     r \in {[OfC(SqlRoutine("a", "function", "f(int)", 1), lib) EXCEPT !.control = control] :
              lib \in {"MODULE_PATHNAME", "x.so", None}, control \in {"x", None}}
           \cup {[SqlRoutine("a", "function", "f(int)", 1) EXCEPT !.language = "internal", !.entry = entry] :
                   entry \in {"f_c", "none", None}},
     s \in {<<Symbol(1, 1, "f_c")>>, <<[Symbol(1, 1, "f_c") EXCEPT !.condition = "#if"]>>,
            <<Symbol(1, 1, "f_c"), Symbol(2, 1, "f_c")>>},
     ms \in SUBSET Libraries \cup {Four},
     o \in {<<>>, <<[schema |-> "a", name |-> "f", kind |-> "function", signature |-> "f(int)"]>>}}

(* Who has a piece of evidence: two Python functions, one in the other, or
   routines of one name, among more facts of the same file.                  *)
PythonFunction(line, qname) == [path |-> 1, line |-> line, qname |-> qname]
Owned(origin, owner, line) ==
  [Evidence(origin, None, 1, "function") EXCEPT !.owner = owner, !.ownerline = line]
Bodies == <<[SqlRoutine("a", "function", "f(int)", 1) EXCEPT !.path = 1],
            [SqlRoutine("a", "function", "f(text)", 1) EXCEPT !.path = 1, !.line = 2]>>
ForOwners ==
  {Of([NoFacts EXCEPT !.routines = <<SqlRoutine("a", "function", "f(int)", 1)>>],
      [NoFacts EXCEPT !.routines = Bodies \o again, !.evidence = <<Owned("routine_body", <<"a", "f">>, line)>>],
      [NoFacts EXCEPT !.owners = owners,
                      !.evidence = <<Owned("python_execute", name, 3), Owned("python_execute", <<"g">>, 4)>>]) :
     again \in {<<>>, <<Bodies[2]>>}, line \in 1..3, name \in {<<"g">>, <<"f", "g">>},
     owners \in {<<>>, <<PythonFunction(3, <<"m", "f", "g">>)>>,
                 <<PythonFunction(3, <<"m", "g">>), PythonFunction(4, <<"m", "g">>)>>,
                 <<PythonFunction(3, <<"g">>), PythonFunction(3, <<"m", "f", "g">>), PythonFunction(4, <<"m", "h">>)>>}}

MCManifests == Shapes \cup ForRoutines \cup ForCalls \cup ForBindings \cup ForOwners \cup {<<>>}
=============================================================================
