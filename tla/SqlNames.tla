------------------------------ MODULE SqlNames ------------------------------
(***************************************************************************)
(* The names of SQL sources: what the parser records of a script, whose    *)
(* statements change what later names mean (src/src/codekg/sql_parser.py), *)
(* and what the resolver concludes of each recorded reference once all     *)
(* files are registered (src/src/codekg/sql_resolver.py).  All is of one   *)
(* database.  A file is a record [path, schema, statements], the configured*)
(* search_path and default_schema, and a statement a record                *)
(*   do, schema, name (as written), arg (a sequence), option (the search   *)
(*   path of a routine, or None) and body (a routine's statements, or the  *)
(*   common table expressions of a SELECT, which read from arg[1]).        *)
(* An empty path is one the parser cannot know.                            *)
(***************************************************************************)
EXTENDS SequencesExt, TLC, Requests

CONSTANTS
  Scripts,  \* sequences of files that may be exported together
  SqlCache  \* SQL_CACHE_LIMIT

Relations == {"table", "view", "materialized_view"}
Routines == {"function", "procedure"}
Schemaless == {"schema", "extension"}
Direct == {"sequence", "index", "statistics", "type"} \cup Schemaless
NoSchema == "<schema-less>"

(***************************************************************************)
(* The parser: a builder goes through the statements of a file.            *)
(***************************************************************************)
Builder(f) == [path |-> f.path, creation |-> f.schema, temporary |-> {}, refs |-> <<>>]
First(path) == IF path = <<>> THEN None ELSE path[1]
SetPath(b, path) == [b EXCEPT !.path = path, !.creation = First(path)]

AddRef(b, at, role, kind, schema, name, signature) ==
  [b EXCEPT !.refs = Append(@, [at |-> at, role |-> role, kind |-> kind, schema |-> schema,
                                name |-> name, signature |-> signature, path |-> b.path])]
RangeRef(b, at, role, kind, schema, name) ==
  LET place == IF role = "define" /\ kind # "temporary_table" /\ schema = None THEN b.creation ELSE schema
      hidden == kind = "table" /\ place = None /\ name \in b.temporary
  IN  AddRef(b, at, role, IF hidden THEN "temporary_table" ELSE kind, place, name, None)

ReadFrom(b, at, schema, name, scope) ==
  IF schema = None /\ name \in scope THEN b ELSE RangeRef(b, at, "read", "table", schema, name)
(* WITH [RECURSIVE] ... SELECT: each query sees the expressions before it, and
   all of them if they are recursive.                                        *)
Select(b, at, st) ==
  LET names == {st.body[n].name : n \in DOMAIN st.body}
      step(acc, cte) ==
        [b |-> ReadFrom(acc.b, at, cte.schema, cte.arg[1],
                        IF st.arg = <<"recursive">> THEN acc.scope \cup names ELSE acc.scope),
         scope |-> acc.scope \cup {cte.name}]
      with == FoldLeft(step, [b |-> b, scope |-> {}], st.body)
  IN  ReadFrom(with.b, at, st.schema, st.name, with.scope)

CreateTemporary(b, at, st) ==
  LET defined == RangeRef(b, at, "define", "temporary_table", st.schema, st.name)
      filled == FoldLeft(LAMBDA c, from : ReadFrom(c, at, None, from, {}), defined, st.arg)
  IN  [filled EXCEPT !.temporary = @ \cup {st.name}]
CreateIndex(b, at, st) ==
  ReadFrom(IF st.schema = None THEN b ELSE AddRef(b, at, "define", "index", st.schema, st.name, None),
           at, st.schema, st.arg[1], {})
Update(b, at, st) ==
  RangeRef(RangeRef(b, at, "write", "table", st.schema, st.name), at, "read", "table", st.schema, st.name)

(* Routines as the parser refers to them: created in the creation schema,
   called and dropped by the name as it is written.                          *)
RoutineRef(b, at, st) ==
  AddRef(b, at, "define", "function", IF st.schema = None THEN b.creation ELSE st.schema, st.name, st.arg[1])
ObjectWithArgs(b, at, role, kind, st) == AddRef(b, at, role, kind, st.schema, st.name, st.arg[1])
DropObject(b, at, st) ==
  IF st.do = "drop routine" THEN ObjectWithArgs(b, at, "drop", "routine", st)
  ELSE AddRef(b, at, "drop", st.arg[1], st.schema, st.name, None)
(* EXECUTE of PL/pgSQL: nobody knows what it reads.                          *)
DynamicRef(b, at) == AddRef(b, at, "read", "dynamic", None, None, None)

Extract(b, at, st) ==
  CASE st.do = "set" -> SetPath(b, st.arg)
    [] st.do = "create" -> RangeRef(b, at, "define", st.arg[1], st.schema, st.name)
    [] st.do = "create namespace" -> AddRef(b, at, "define", st.arg[1], None, st.name, None)
    [] st.do = "create temporary" -> CreateTemporary(b, at, st)
    [] st.do = "create index" -> CreateIndex(b, at, st)
    [] st.do = "alter" -> RangeRef(b, at, "alter", st.arg[1], st.schema, st.name)
    [] st.do \in {"drop", "drop routine"} -> DropObject(b, at, st)
    [] st.do = "select" -> Select(b, at, st)
    [] st.do = "insert" -> RangeRef(b, at, "write", "table", st.schema, st.name)
    [] st.do = "update" -> Update(b, at, st)
    [] st.do = "call" -> ObjectWithArgs(b, at, "call", "function", st)
    [] st.do = "execute" -> DynamicRef(b, at)

(* CREATE FUNCTION: the body is read under the routine's own path.           *)
(* Faulty variant: what the body sets stays set.                             *)
LeaveRoutine(b, outer) == b

EndRoutine(b, outer) == [b EXCEPT !.path = outer.path, !.creation = outer.creation]
CreateRoutine(b, n, st) ==
  LET defined == RoutineRef(b, <<n>>, st)
      inside == IF st.option = None THEN defined ELSE SetPath(defined, st.option)
      body == FoldLeft(LAMBDA c, k : Extract(c, <<n, k>>, st.body[k]), inside,
                       [k \in DOMAIN st.body |-> k])
  IN  EndRoutine(body, b)
ProcessStatement(b, n, st) ==
  IF st.do = "create routine" THEN CreateRoutine(b, n, st) ELSE Extract(b, <<n>>, st)

(***************************************************************************)
(* The registry of objects, and the conclusion on one reference.           *)
(***************************************************************************)
Place(r) ==
  IF r.kind \in Schemaless THEN NoSchema ELSE IF r.schema # None THEN r.schema ELSE First(r.path)
SqlObject(schema, kind, name, signature) ==
  [schema |-> schema, kind |-> kind, name |-> name, signature |-> signature]
SqlObjects(refs) ==
  {SqlObject(Place(r), r.kind, r.name, r.signature) :
     r \in {d \in refs : /\ d.role = "define" /\ d.kind \in Relations \cup Routines \cup Direct
                         /\ Place(d) # None}}

CompatibleKinds(kind) ==
  CASE kind = "table" -> Relations
    [] kind = "routine" -> Routines
    [] kind \in (Relations \ {"table"}) \cup Routines \cup Direct -> {kind}
    [] OTHER -> {}
SafeSignature(signature) == signature \notin {None, "unknown"}
Candidates(objects, schema, kinds, r) ==
  {o \in objects : /\ o.schema = schema /\ o.kind \in kinds /\ o.name = r.name
                   /\ SafeSignature(r.signature) => o.signature = r.signature}

Concluded(status, target) == [status |-> status, target |-> target]
SqlConclude(found, allowExact) ==
  IF Cardinality(found) = 1 /\ allowExact THEN Concluded("exact", CHOOSE o \in found : TRUE)
  ELSE Concluded(IF Cardinality(found) > 1 THEN "ambiguous" ELSE "unresolved", None)

(* The first schema that has a candidate is the one that is seen.            *)
FirstSchema(objects, schemas, kinds, r) ==
  LET having == {n \in DOMAIN schemas : Candidates(objects, schemas[n], kinds, r) # {}}
  IN  IF having = {} THEN {} ELSE Candidates(objects, schemas[Min(having)], kinds, r)
ResolveUncached(objects, r) ==
  LET kinds == CompatibleKinds(r.kind)
      schemas == IF r.schema # None THEN <<r.schema>>
                 ELSE IF r.kind \in Schemaless THEN <<NoSchema>> ELSE r.path
      own == {o \in Candidates(objects, Place(r), {r.kind}, r) : o.signature = r.signature}
  IN  IF r.kind = "dynamic" THEN Concluded("dynamic", None)
      ELSE IF kinds = {} THEN Concluded("unresolved", None)
      ELSE IF r.role = "define" THEN SqlConclude(own, TRUE)
      ELSE IF kinds \subseteq Routines /\ ~SafeSignature(r.signature)
      THEN SqlConclude(UNION {Candidates(objects, s, kinds, r) : s \in ToSet(schemas)}, FALSE)
      ELSE SqlConclude(FirstSchema(objects, schemas, kinds, r), TRUE)

(* The cache is a sequence of [key, answer], the one used last at its end.   *)
CacheKey(r) == <<r.role, r.schema, r.name, r.kind, r.signature, r.path>>
WithKey(cache, r) == SelectSeq(cache, LAMBDA e : e.key = CacheKey(r))
SqlAnswer(objects, cache, r) ==
  IF WithKey(cache, r) = <<>> THEN ResolveUncached(objects, r) ELSE WithKey(cache, r)[1].answer
Use(cache, r, answer) ==
  LET used == SelectSeq(cache, LAMBDA e : e.key # CacheKey(r)) \o <<[key |-> CacheKey(r), answer |-> answer]>>
  IN  IF Len(used) > SqlCache THEN Tail(used) ELSE used

(***************************************************************************)
(* The files are parsed, registered, and their references resolved.        *)
(***************************************************************************)
SqlInit ==
  /\ \E s \in Scripts : request = [tool |-> "sql", files |-> s, refs |-> <<>>, answers |-> <<>>, status |-> "new"]
  /\ progress = Idle

BeginSql ==
  /\ Asked("sql")
  /\ progress' = [pc |-> "sql.parse", statement |-> 1, builder |-> Builder(request.files[1])]
  /\ UNCHANGED request
ParseStatement ==
  /\ progress.pc = "sql.parse"
  /\ LET f == request.files[Len(request.refs) + 1]
     IN  /\ progress.statement <= Len(f.statements)
         /\ progress' = [progress EXCEPT !.statement = @ + 1,
                           !.builder = ProcessStatement(@, progress.statement, f.statements[progress.statement])]
  /\ UNCHANGED request
EndFile ==
  /\ progress.pc = "sql.parse"
  /\ LET n == Len(request.refs) + 1
     IN  /\ progress.statement > Len(request.files[n].statements)
         /\ request' = [request EXCEPT !.refs = Append(@, progress.builder.refs)]
         /\ progress' = IF n < Len(request.files)
                        THEN [pc |-> "sql.parse", statement |-> 1, builder |-> Builder(request.files[n + 1])]
                        ELSE [pc |-> "sql.register"]
RegisterObjects ==
  /\ progress.pc = "sql.register"
  /\ progress' = [pc |-> "sql.resolve", cache |-> <<>>,
                  objects |-> SqlObjects(UNION {ToSet(request.refs[n]) : n \in DOMAIN request.refs})]
  /\ UNCHANGED request
ResolveRef ==
  /\ progress.pc = "sql.resolve"
  /\ LET refs == FlattenSeq(request.refs)
         n == Len(request.answers) + 1
     IN  /\ n <= Len(refs)
         /\ LET answer == SqlAnswer(progress.objects, progress.cache, refs[n])
            IN  /\ request' = [request EXCEPT !.answers = Append(@, answer)]
                /\ progress' = [progress EXCEPT !.cache = Use(@, refs[n], answer)]
EndSql ==
  /\ progress.pc = "sql.resolve" /\ Len(request.answers) = Len(FlattenSeq(request.refs))
  /\ Answer("ok")

SqlNext == BeginSql \/ ParseStatement \/ EndFile \/ RegisterObjects \/ ResolveRef \/ EndSql

-----------------------------------------------------------------------------
(* The session in which a statement runs: every path set before it, in the
   script and, for a statement of a routine, by the routine and in its body. *)
Before(f, at) ==
  IF Len(at) = 1 THEN <<SubSeq(f.statements, 1, at[1] - 1), <<>>>>
  ELSE <<SubSeq(f.statements, 1, at[1] - 1), SubSeq(f.statements[at[1]].body, 1, at[2] - 1)>>
PathsSet(statements) ==
  LET sets == SelectSeq(statements, LAMBDA st : st.do = "set") IN [n \in DOMAIN sets |-> sets[n].arg]
OwnPath(f, at) ==
  IF Len(at) = 1 \/ f.statements[at[1]].option = None THEN <<>> ELSE <<f.statements[at[1]].option>>
Moves(f, at) == PathsSet(Before(f, at)[1]) \o OwnPath(f, at) \o PathsSet(Before(f, at)[2])
SessionPath(f, at) == IF Moves(f, at) = <<>> THEN f.path ELSE Last(Moves(f, at))
Creation(f, at) == IF Moves(f, at) = <<>> THEN f.schema ELSE First(SessionPath(f, at))
Temporaries(statements) == {st.name : st \in {x \in ToSet(statements) : x.do = "create temporary"}}
TemporaryAt(f, at) == Temporaries(Before(f, at)[1]) \cup Temporaries(Before(f, at)[2])

Places(f) ==
  {<<n>> : n \in DOMAIN f.statements}
  \cup UNION {{<<n, k>> : k \in DOMAIN f.statements[n].body} :
                n \in {m \in DOMAIN f.statements : f.statements[m].do = "create routine"}}
StatementAt(f, at) == IF Len(at) = 1 THEN f.statements[at[1]] ELSE f.statements[at[1]].body[at[2]]
(* What a statement creates, unless nobody knows where.                      *)
Made(f, at) ==
  LET st == StatementAt(f, at)
      schema == IF st.schema # None THEN st.schema ELSE Creation(f, at)
  IN  CASE st.do = "create" /\ schema # None -> {SqlObject(schema, st.arg[1], st.name, None)}
        [] st.do = "create routine" /\ schema # None -> {SqlObject(schema, "function", st.name, st.arg[1])}
        [] st.do = "create namespace" -> {SqlObject(NoSchema, st.arg[1], st.name, None)}
        [] st.do = "create index" /\ st.schema # None -> {SqlObject(st.schema, "index", st.name, None)}
        [] OTHER -> {}
Catalog(files) == UNION {UNION {Made(f, at) : at \in Places(f)} : f \in ToSet(files)}

(* What a reference of a statement means: an object that no earlier schema of
   the path and no temporary table hides.                                    *)
Visible(catalog, path, Is(_)) ==
  {o \in catalog : /\ Is(o) /\ o.schema \in ToSet(path)
                   /\ \A p \in catalog : Is(p) /\ p.schema \in ToSet(path) =>
                        Min({n \in DOMAIN path : path[n] = o.schema})
                          <= Min({n \in DOMAIN path : path[n] = p.schema})}
Meant(files, f, r) ==
  LET path == IF r.schema # None THEN <<r.schema>> ELSE SessionPath(f, r.at)
      relation(o) == o.name = r.name /\ o.kind \in Relations
      routine(o) == o.name = r.name /\ o.kind \in Routines /\ o.signature = r.signature
      hidden == r.schema = None /\ r.name \in TemporaryAt(f, r.at)
  IN  IF r.role = "define" THEN Made(f, r.at)
      ELSE IF r.kind \in {"function", "routine"}
      THEN (IF r.signature = "unknown" THEN {} ELSE Visible(Catalog(files), path, routine))
      ELSE IF r.kind = "dynamic" \/ hidden THEN {} ELSE Visible(Catalog(files), path, relation)

(* The tables a SELECT reads: not those names that are common table
   expressions where they stand.                                             *)
ReadNames(st) ==
  LET named(n) == IF st.arg = <<"recursive">> THEN {c.name : c \in ToSet(st.body)}
                  ELSE {st.body[m].name : m \in 1..(n - 1)}
  IN  UNION {{st.body[n].arg[1]} \ (IF st.body[n].schema = None THEN named(n) ELSE {}) : n \in DOMAIN st.body}
      \cup ({st.name} \ (IF st.schema = None THEN {c.name : c \in ToSet(st.body)} ELSE {}))

Dropped(f, r) == r.role = "drop" /\ r.schema = None /\ r.name \in TemporaryAt(f, r.at)
EachRef(files, refs, answers, Holds(_, _, _)) ==
  \A n \in DOMAIN files : \A m \in DOMAIN refs[n] :
    Holds(files[n], refs[n][m], answers[Len(FlattenSeq(SubSeq(refs, 1, n - 1))) + m])

(* Through all changes of the search path, routines with paths of their own,
   temporary tables and common table expressions, and whatever the cache has:
   a reference is exact if and only if the name means one object where the
   statement stands, and then its target is that object; a name that is a
   temporary table somewhere in the file may be left unresolved; and a SELECT
   reads what is not a common table expression (sql_parser.py:183-185,
   300-312, 444-510; sql_resolver.py:389-538: "later schemas must not make a
   shadowed relation look exact").  Only the name of a DROP is not asked
   whether it is a temporary table.                                          *)
SqlNamesRight ==
  request.tool = "sql" /\ request.status = "ok" =>
    LET right(f, r, answer) ==
          LET meant == Meant(request.files, f, r)
          IN  /\ answer.status = "exact" => Dropped(f, r) \/ meant = {answer.target}
              /\ Cardinality(meant) = 1 =>
                   answer.status = "exact"
                   \/ \E at \in Places(f) : StatementAt(f, at).do = "create temporary" /\ StatementAt(f, at).name = r.name
    IN  /\ EachRef(request.files, request.refs, request.answers, right)
        /\ \A n \in DOMAIN request.files : \A at \in Places(request.files[n]) :
             StatementAt(request.files[n], at).do = "select" =>
               {r.name : r \in {x \in ToSet(request.refs[n]) : x.at = at}} = ReadNames(StatementAt(request.files[n], at))
=============================================================================
