------------------------------ MODULE SqlGraph ------------------------------
(***************************************************************************)
(* The rows that SQL files add to the graph of a snapshot                  *)
(* (src/src/codekg/sql_graph.py) from the registry of what they define     *)
(* (build_sql_registry of src/src/codekg/sql_resolver.py).                 *)
(*                                                                         *)
(* A file is a record with its path, its rank in the order of paths and    *)
(* its sql, a file of SqlNames, or None for a file in Python; the file is  *)
(* one artifact.  A node is [label, key, of] and a relationship [kind,     *)
(* start, end, of], `of` being the data that a resolution determines.      *)
(***************************************************************************)
EXTENDS SqlNames, FiniteSetsExt

Node(label, key, of) == [label |-> label, key |-> key, of |-> of]
Rel(kind, start, end, of) == [kind |-> kind, start |-> start, end |-> end, of |-> of]
Plain == <<"plain">>
RepositoryKey == <<"repository">>
FileKey(f) == <<f.path>>

DatabaseKey == <<"sql", "database">>
ObjectKey(o) == <<"sql", o.schema, o.kind, o.name, o.signature>>
ArtifactKey(f) == <<f.path, "sql", "artifact", <<1>>, 1>>
StatementKey(f, at) == <<f.path, "sql", "statement", at, 1>>
ReferenceKey(f, at, n) == <<f.path, "sql", "reference", at, n>>

(* The references of each SQL file, and all the objects that they define.    *)
ScriptRefs(f) ==
  FoldLeft(LAMBDA b, n : ProcessStatement(b, n, f.statements[n]), Builder(f),
           [n \in DOMAIN f.statements |-> n]).refs
SqlFiles(s) == {f \in ToSet(s) : f.sql # None}
SqlIndex(s) ==
  LET refs == [f \in SqlFiles(s) |-> ScriptRefs(f.sql)]
  IN  [refs |-> refs, objects |-> SqlObjects(UNION {ToSet(refs[f]) : f \in DOMAIN refs})]
DefinitionsOf(ix, o) ==
  UNION {{<<f.rank, n>> : n \in {m \in DOMAIN ix.refs[f] : SqlObjects({ix.refs[f][m]}) = {o}}} : f \in DOMAIN ix.refs}

(* What all files share belongs to the first that refers to the database, or
   defines the object; ranks are those of the files whose rows are wanted.   *)
DatabasesOf(ix, ranks) ==
  LET referring == {f.rank : f \in {g \in DOMAIN ix.refs : ix.refs[g] # <<>>}}
  IN  IF referring # {} /\ Min(referring) \in ranks THEN {DatabaseKey} ELSE {}
ObjectsOf(ix, ranks) == {o \in ix.objects : Min({d[1] : d \in DefinitionsOf(ix, o)}) \in ranks}
SqlGlobalNodes(ix, ranks) ==
  {Node("Database", key, Plain) : key \in DatabasesOf(ix, ranks)}
  \cup {Node("SqlObject", ObjectKey(o), <<"defined", Cardinality(DefinitionsOf(ix, o))>>) : o \in ObjectsOf(ix, ranks)}
SqlGlobalRels(ix, ranks) ==
  {Rel("HAS_DATABASE", RepositoryKey, key, Plain) : key \in DatabasesOf(ix, ranks)}
  \cup {Rel("HAS_OBJECT", DatabaseKey, ObjectKey(o), Plain) : o \in ObjectsOf(ix, ranks)}

(* The rows of one file: its artifact, statements and references.            *)
SqlNodes(ix, f) ==
  {Node("SqlArtifact", ArtifactKey(f), Plain)}
  \cup {Node("SqlStatement", StatementKey(f, at), Plain) : at \in Places(f.sql)}
  \cup {LET r == ix.refs[f][n]
        IN  Node("Reference", ReferenceKey(f, r.at, n), <<r.role, ResolveUncached(ix.objects, r)>>) : n \in DOMAIN ix.refs[f]}
RoleKind == [define |-> "DEFINES", read |-> "READS_FROM", write |-> "WRITES_TO",
             call |-> "INVOKES_SQL", alter |-> "ALTERS", drop |-> "DROPS"]
RefRels(ix, f, n) ==
  LET r == ix.refs[f][n]
      answer == ResolveUncached(ix.objects, r)
      statement == StatementKey(f, r.at)
      reference == ReferenceKey(f, r.at, n)
      target == ObjectKey(answer.target)
  IN  {Rel("HAS_REFERENCE", statement, reference, Plain)}
      \cup IF answer.status # "exact" THEN {}
           ELSE {Rel("REFERS_TO", reference, target, Plain), Rel(RoleKind[r.role], statement, target, Plain)}
SqlRels(ix, f) ==
  {Rel("CONTAINS_SQL", FileKey(f), ArtifactKey(f), Plain)}
  \cup {Rel("CONTAINS_SQL", ArtifactKey(f), StatementKey(f, at), Plain) : at \in Places(f.sql)}
  \cup {Rel("CONTAINS_SQL", StatementKey(f, <<at[1]>>), StatementKey(f, at), Plain) :
          at \in {p \in Places(f.sql) : Len(p) = 2}}
  \cup UNION {RefRels(ix, f, n) : n \in DOMAIN ix.refs[f]}
=============================================================================
