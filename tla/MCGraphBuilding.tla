--------------------------- MODULE MCGraphBuilding ---------------------------
EXTENDS RepositoryIndex, ReceiverTyping, SqlNames, MCCorpora, CorpusStaging

Type(q) == [kind |-> "type", qname |-> q, line |-> 1, parent |-> None, returns |-> None]
Base(t, name, q) == [type |-> t, name |-> name, qname |-> q]
File(path, module, imports, symbols, bases, calls, bindings) ==
  [path |-> path, module |-> module, imports |-> imports, symbols |-> symbols,
   bases |-> bases, calls |-> calls, bindings |-> bindings, rank |-> 1, size |-> 1, diagnostics |-> 0, sql |-> None]

(* Types of one module, each with a choice of bases.                         *)
Named == {"A", "B", "C", "D", "E"}
BasesFrom(t, names) == [n \in DOMAIN names |-> Base(<<"m", t>>, names[n], <<"m", names[n]>>)]
OfBases(a, b, c, d, e) ==
  <<File("m.py", <<"m">>, <<>>, {Type(<<"m", t>>) : t \in Named},
         BasesFrom("A", a) \o BasesFrom("B", b) \o BasesFrom("C", c) \o BasesFrom("D", d)
         \o BasesFrom("E", e), {}, <<>>)>>
MCTypeGraphs ==
  {OfBases(a, b, c, d, e) :
     a \in {<<>>, <<"E">>, <<"B">>}, b \in {<<>>, <<"A">>, <<"X">>},
     c \in {<<"A">>, <<"A", "B">>}, d \in {<<"B", "A">>, <<"A", "B">>, <<"B">>},
     e \in {<<"C", "D">>, <<"D", "C">>, <<"C">>}}

(* A package and a module of one name, and two modules that use them.        *)
Callable(q, line, kind, parent, returns) ==
  [kind |-> kind, qname |-> q, line |-> line, parent |-> parent, returns |-> returns]
Fun(q, line) == Callable(q, line, "function", None, None)
Method(t, name, line) == Callable(Append(t, name), line, "method", t, None)
Call(owner, raw, hint, receiver, at) ==
  [owner |-> owner, raw |-> raw, name |-> Last(raw), hint |-> hint, receiver |-> receiver, at |-> at]
Import(module, name, alias) == [module |-> module, name |-> name, alias |-> alias]
Binding(owner, target, kind, name, hint, annotation, at) ==
  [owner |-> owner, target |-> target, kind |-> kind, name |-> name, hint |-> hint,
   annotation |-> annotation, at |-> at, guarded |-> FALSE]

Package(extra) ==
  [File("a/__init__.py", <<"a">>, <<Import(<<"os">>, <<"path">>, None)>>,
        {Fun(<<"a", "make">>, 9)} \cup extra, <<>>, {}, <<>>)
     EXCEPT !.rank = 2, !.diagnostics = 1]
ModuleA(extra) ==
  [File("a.py", <<"a">>, <<Import(<<"os">>, <<"os">>, None)>>,
        {Type(<<"a", "A">>), Method(<<"a", "A">>, "run", 2), Method(<<"a", "A">>, "__init__", 3),
         Callable(<<"a", "build">>, 4, "function", None, <<"A">>)} \cup extra,
        <<>>, {Call(y.qname, <<"build">>, <<"a", "build">>, "none", 5) : y \in extra}, <<>>)
     EXCEPT !.size = 2]
UseB == <<"b", "use">>
ModuleB(base, imports) ==
  [File("b.py", <<"b">>, imports,
        {[Type(<<"b", "A">>) EXCEPT !.qname = <<"b", base>>], Method(<<"b", base>>, "go", 2), Fun(UseB, 3),
         Fun(UseB \o <<"<locals>", "inner">>, 4)},
        <<Base(<<"b", base>>, "A", <<"b", "A">>)>>,
        {Call(<<"b", base, "go">>, <<"self", "run">>, <<"b", base, "run">>, "self", 11),
         Call(<<"b", base, "go">>, <<"super()", "run">>, None, "super", 12),
         Call(UseB, <<"x", "run">>, <<"x", "run">>, "attribute", 21),
         Call(UseB, <<"A">>, <<"b", "A">>, "none", 19),
         Call(UseB, <<"inner">>, <<"b", "inner">>, "none", 22),
         Call(UseB, <<"make">>, <<"b", "make">>, "none", 23),
         Call(<<"b", "__module__">>, <<"a", "build">>, <<"a", "build">>, "name", 24)},
        <<Binding(UseB, "x", "call", "build", <<"a", "build">>, None, 20)>>)
     EXCEPT !.rank = 3]
ModuleC ==
  [File("c.py", <<"c">>, <<Import(<<"a">>, <<"A">>, "T"), Import(<<"os">>, <<"os">>, None)>>,
        {Fun(<<"c", "f">>, 1)}, <<>>,
        {Call(<<"c", "f">>, <<"T">>, <<"c", "T">>, "none", 3), Call(<<"c", "f">>, <<"y", "run">>, <<"y", "run">>, "attribute", 4),
         Call(<<"c", "g">>, <<"os", "f">>, <<"os", "f">>, "name", 5)},
        <<Binding(<<"c", "f">>, "y", "annotation", None, None, <<"T">>, 1)>>)
     EXCEPT !.rank = 4]
(* Statements of scripts, and files of them: one defines what others use and
   define again.                                                             *)
Sql(do, schema, name, arg, option, body) ==
  [do |-> do, schema |-> schema, name |-> name, arg |-> arg, option |-> option, body |-> body]
Stmt(do, schema, name, arg) == Sql(do, schema, name, arg, None, <<>>)
SetSql(path) == Stmt("set", None, None, path)
TempT(from) == Stmt("create temporary", None, "t", from)
SelectT(schema) == Stmt("select", schema, "t", <<>>)
With(recursive, ctes) == Sql("select", None, "t", IF recursive THEN <<"recursive">> ELSE <<>>, None, ctes)
Cte(name, schema, from) == [name |-> name, schema |-> schema, arg |-> <<from>>]
RoutineG(path, body) == Sql("create routine", None, "g", <<"int">>, path, body)
SqlFile(path, rank, size, statements) ==
  [File(path, <<path>>, <<>>, {}, <<>>, {}, <<>>) EXCEPT
     !.rank = rank, !.size = size, !.sql = [path |-> <<"a", "b">>, schema |-> "a", statements |-> statements]]
TableT == Stmt("create", None, "t", <<"table">>)
Defining(size) == SqlFile("d.sql", 5, size, <<TableT, RoutineG(None, <<SelectT(None)>>)>>)
Using(size) ==
  SqlFile("u.sql", 1, size, <<SelectT(None), Stmt("call", None, "g", <<"int">>), TableT, Stmt("update", None, "t", <<>>)>>)
Reading == SqlFile("r.sql", 6, 1, <<SetSql(<<"c", "b">>), SelectT(None), SelectT("a"), Stmt("drop", "a", "t", <<"table">>)>>)
MCSqlSnapshots == UNION {{<<Defining(n), ModuleC, Using(n)>>, <<Using(n), Reading, Defining(n)>>, <<Reading, Using(1)>>} : n \in {1, 2}}

FromA == <<Import(<<"a">>, <<"A">>, None), Import(<<"a">>, <<"make">>, None), Import(<<"a">>, <<"a">>, None)>>
MCSnapshots ==
  MCSqlSnapshots \cup UNION {{<<p, a, b, ModuleC>>, <<a, b, ModuleC>>, <<p, b>>, <<a, [b EXCEPT !.size = 2], p>>, <<b, a, p, ModuleC>>} :
    p \in {Package({}), Package({Type(<<"a", "A">>)}), Package({Fun(<<"a", "build">>, 3)})},
    a \in {ModuleA({}), ModuleA({Fun(<<"a", "A">>, 7)})},
    b \in {ModuleB("B", FromA), ModuleB("A", FromA), ModuleB("B", Tail(FromA)), ModuleB("B", <<Import(<<"a">>, <<"*">>, None)>>)}}

(* A function is renamed, moved into a class and called from elsewhere.      *)
Small(target, other) ==
  <<[File("m.py", <<"m">>, <<Import(<<"os">>, <<"os">>, None)>>,
          {Type(<<"m", "T">>), Method(<<"m", "T">>, "__init__", 2), Fun(<<"m", "f">>, 3), Fun(<<"m", other>>, 4)},
          <<>>, {Call(<<"m", "f">>, <<target>>, <<"m", target>>, "none", 5)}, <<>>)
       EXCEPT !.diagnostics = IF target = "T" THEN 1 ELSE 0]>>
MCSources ==
  {[snapshot |-> Small("T", "g"), commit |-> 1], [snapshot |-> Small("g", "g"), commit |-> 1],
   [snapshot |-> Small("f", "h"), commit |-> 1], [snapshot |-> Small("T", "g"), commit |-> 2]}
  \cup {[snapshot |-> <<SqlFile("m.sql", 1, 1, <<Stmt("create", None, name, <<"table">>), SelectT(None)>>)>>, commit |-> 1] :
           name \in {"t", "u"}}

(* Functions of one compound statement between two simple ones, or of one in
   another, with one call, x.run(); y is a B, A and B have a run, C is an A.  *)
MCSurrounding ==
  File("m.py", <<"m">>, <<>>,
       {Type(<<"m", t>>) : t \in {"A", "B", "C"}}
       \cup {Method(<<"m", "A">>, "run", 2), Method(<<"m", "B">>, "run", 3), Fun(<<"m", "f">>, 4),
             Callable(<<"m", "make">>, 5, "function", None, <<"A">>)},
       <<Base(<<"m", "C">>, "A", <<"m", "A">>)>>, {}, <<>>)
MCFunction == <<"m", "f">>

Val(is, of, as) == [is |-> is, of |-> of, as |-> as]
X(value) == Do("assign", "x", value, <<>>)
Call1 == Do("call", "x", None, <<>>)
Givens == {X(Val("call", "C", None)), X(Val("call", "make", None)), X(Val("name", "y", None)),
         Do("annotate", "x", Val("call", "C", <<"A">>), <<>>), Do("annotate", "x", Val("call", "A", <<"A">>), <<>>)}
Lost == Do("lose", "x", None, <<>>)
Break1 == Do("break", None, None, <<>>)
ToY == Do("assign", "y", Val("name", "x", None), <<>>)
ToZ == Do("assign", "z", Val("unknown", None, None), <<>>)
Quiet1 == {<<>>, <<X(Val("call", "B", None))>>, <<Lost>>, <<ToY, X(Val("name", "y", None))>>}
Calling(quiet) == {q \o <<Call1>> : q \in quiet} \cup {<<Call1>> \o q : q \in quiet}
(* The choices of n blocks, of which one has the call if called.             *)
Blocks(n, quiet, called) ==
  IF called
  THEN UNION {{[b EXCEPT ![m] = c] : b \in [1..n -> quiet], c \in Calling(quiet)} : m \in 1..n}
  ELSE [1..n -> quiet]
Few == {<<>>, <<X(Val("call", "B", None))>>}
Walrus == {<<>>, <<Lost>>}
Compound(called) ==
  {Do("if", None, None, b) : b \in Blocks(2, Quiet1, called)}
  \cup {Do("for", to, None, b) :
           to \in {"i", "x"}, b \in {c \in Blocks(2, Quiet1 \cup {<<Break1>>}, called) : Break1 \notin ToSet(c[2])}}
  \cup {Do("while", None, None, b) :
           b \in Blocks(3, Walrus, called) \cup {c \in Blocks(3, Few, called) : ToSet(c[1]) \subseteq {Call1}}}
  \cup {Do("with", to, None, b) : to \in {None, "x"}, b \in Blocks(1, Quiet1, called)}
  \cup {Do("try", to, None, [b EXCEPT ![1] = <<ToZ>> \o @]) : to \in {None, "x"}, b \in Blocks(4, Few, called)}
  \cup {Do("match", "x", None, b) : b \in Blocks(1, Quiet1, called)}
  \cup {Do("comp", "i", None, b) : b \in Blocks(1, Walrus, called)}
  \cup {Do("comp", "x", None, b) : b \in Blocks(1, {<<>>}, called)}
  \cup (IF called THEN {} ELSE {Do("define", "x", None, <<>>)})
InFor(inner) ==
  {Do("for", "i", None, <<b, <<>>>>) : b \in {<<inner>>, <<inner, Lost>>, <<inner, Break1>>}}
Around(inner) ==
  {Do("try", None, None, <<<<inner>>, h, <<>>, <<>>>>) : h \in Few} \cup {Do("if", None, None, <<<<inner>>, <<>>>>)}
Nested == {Do("for", "i", None, <<b, <<>>>>) : b \in {<<Call1>>, <<Call1, Break1>>}}
          \cup {Do("comp", "x", None, <<<<Call1>>>>), Do("while", None, None, <<<<Lost>>, <<Call1>>, <<>>>>)}
Breaking == {Do("try", None, None, <<<<Break1>>, <<>>, <<>>, <<Call1>>>>),
             Do("if", None, None, <<<<X(Val("call", "B", None)), Break1>>, <<Call1>>>>)}
MCPrograms ==
  {[body |-> b, parameters |-> "y" :> <<"B">>] :
     b \in {<<a, c>> : a \in Givens, c \in Compound(TRUE)} \cup {<<a, c, Call1>> : a \in Givens, c \in Compound(FALSE)}
           \cup {<<a, c>> : a \in Givens, c \in UNION {InFor(n) : n \in Nested \cup Breaking} \cup UNION {Around(n) : n \in Nested}}}

(* A script: two statements that change what names mean and one that uses
   them; the other file defines relations and routines of two schemas.       *)
Changers ==
  {SetSql(<<"b", "a">>), SetSql(<<>>), SetSql(<<"c", "b">>), TempT(<<>>), TempT(<<"t">>),
   Stmt("create", None, "t", <<"table">>), Stmt("create", None, "t", <<"view">>),
   Stmt("create", "c", "t", <<"table">>),
   RoutineG(None, <<SetSql(<<"b">>), SelectT(None)>>), RoutineG(<<"b", "a">>, <<SelectT(None)>>),
   RoutineG(<<"b">>, <<TempT(<<>>), SelectT(None)>>)}
Users ==
  {SelectT(None), SelectT("b"), Stmt("update", None, "t", <<>>), Stmt("insert", None, "v", <<>>),
   With(FALSE, <<Cte("t", None, "t")>>), With(TRUE, <<Cte("t", None, "t")>>),
   With(FALSE, <<Cte("u", None, "t"), Cte("t", "b", "u")>>), With(TRUE, <<Cte("u", None, "t"), Cte("t", None, "v")>>),
   Stmt("call", None, "f", <<"int">>), Stmt("call", None, "f", <<"unknown">>), Stmt("call", "b", "f", <<"text">>),
   Stmt("call", None, "g", <<"int">>),
   Stmt("drop", None, "t", <<"table">>), Stmt("drop routine", None, "f", <<"int">>),
   Stmt("alter", None, "t", <<"table">>), Stmt("create index", "a", "i", <<"t">>),
   Stmt("create index", None, "i", <<"t">>), Stmt("create namespace", None, "a", <<"schema">>),
   Stmt("execute", None, None, <<>>), RoutineG(<<"c">>, <<SelectT(None), Stmt("insert", None, "t", <<>>)>>)}
Definitions ==
  [path |-> <<"a">>, schema |-> "a",
   statements |-> <<Stmt("create", None, "t", <<"table">>), Stmt("create", "b", "t", <<"view">>),
                    Stmt("create", "b", "v", <<"view">>), Sql("create routine", "a", "f", <<"int">>, None, <<>>),
                    Sql("create routine", "b", "f", <<"int">>, None, <<>>),
                    Sql("create routine", "b", "f", <<"text">>, None, <<>>)>>]
MCScripts ==
  {<<[path |-> path, schema |-> "a", statements |-> <<c, d, u>>], Definitions>> :
     path \in {<<"a", "b">>, <<"b">>}, c \in Changers, d \in Changers, u \in Users}

MCSelections == {<<"source", "source", "source">>, <<"source", "markdown", "source">>, <<"native", "source">>, <<>>,
                 <<"native", "native", "native", "source">>}

Init == MroInit \/ ShardsInit \/ IndexInit \/ ReceiverInit \/ SqlInit \/ CorpusInit \/ StagingInit
Next == MroNext \/ ShardsNext \/ IndexNext \/ ReceiverNext \/ SqlNext \/ CorpusNext \/ GraphNext \/ StagingNext
Spec == Init /\ [][Next]_vars
=============================================================================
