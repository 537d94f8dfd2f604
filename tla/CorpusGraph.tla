----------------------------- MODULE CorpusGraph -----------------------------
(***************************************************************************)
(* The graph of a corpus (_write_supplemental_graph, _compose_graph and    *)
(* _validate_composed_graph of src/src/codekg/corpus_export.py): once the  *)
(* facts are linked, their nodes and relationships are written beside the  *)
(* ordinary export of each snapshot, and all of it is put together and     *)
(* validated.                                                              *)
(*                                                                         *)
(* A node is [from, key, status, primary] (status of evidence, primary of  *)
(* a symbol or routine; None of others) and a relationship is a Link.  A   *)
(* snapshot's facts also have files, the language of each path, and        *)
(* owners, the Python functions [path, line, qname] of its search stage.   *)
(***************************************************************************)
EXTENDS CorpusResolution

(* The files that the registry has of a snapshot (paths are numbered in their
   order): every fact is of one of them, and the evidence of a call is written
   with it, of the same place and owner.                                     *)
FactsOfFiles(facts) ==
  /\ IsFiniteSet(DOMAIN facts.files) /\ DOMAIN facts.files \subseteq Nat
  /\ IsFiniteSet(facts.diagnostics) /\ facts.owners \in Seq(ToSet(facts.owners))
  /\ \A table \in {"symbols", "routines", "evidence", "calls"} :
       \A fact \in ToSet(facts[table]) : fact.path \in DOMAIN facts.files
  /\ \A d \in facts.diagnostics : d.path \in DOMAIN facts.files /\ d.ordinal \in Nat
  /\ \A r \in ToSet(facts.routines) : r.line \in Nat
  /\ \A call \in ToSet(facts.calls) : {call.line, call.column} \subseteq Nat
EvidenceOfCalls(facts) ==
  \A n \in DOMAIN facts.evidence :
    LET e == facts.evidence[n]
    IN  e.origin = "native_call" =>
          \E call \in ToSet(facts.calls) :
            /\ call.evidence = n /\ e.name = IF call.callee = None THEN "<dynamic>" ELSE call.callee
            /\ <<e.path, e.owner, e.ownerline, e.dynamic>> = <<call.path, call.owner, call.ownerline, call.dynamic>>
ASSUME FilesAssumption ==
  /\ None # "PG_FUNCTION_INFO_V1"
  /\ \A c \in Corpora : \A s \in ToSet(c) : FactsOfFiles(s.facts) /\ EvidenceOfCalls(s.facts)

CorpusNode(from, key, status, primary) == [from |-> from, key |-> key, status |-> status, primary |-> primary]
PathKey(alias, path) == <<alias, "files", path>>
DiagnosticKey(d) == <<d.alias, "diagnostics", d.path, d.ordinal>>
SnapshotKey(alias) == <<alias, "snapshot">>
RepoKey(alias) == <<alias, "repository">>

(* The ordinary export of a snapshot has its Python and SQL files, its SQL
   objects and its Python functions; the supplement has the other files.     *)
Ordinary == {"python", "sql"}
ExportKeys(c, s) ==
  {RepoKey(s.alias)}
  \cup {PathKey(s.alias, p) : p \in {q \in DOMAIN s.facts.files : s.facts.files[q] \in Ordinary}}
  \cup TableFacts(c, {s.alias}, "objects") \cup TableFacts(c, {s.alias}, "owners")
NativeFiles(s) == {PathKey(s.alias, p) : p \in {q \in DOMAIN s.facts.files : s.facts.files[q] \notin Ordinary}}

(* Which facts of a snapshot count in comparisons: the first of equal routines
   and of equal definitions of C, and every static one.  A definition that
   follows one that is its equal but for `static` does not.  A declaration
   does where nothing of its name is defined, once in a file.                *)
DefinedSymbols(c, s) == {i \in TableFacts(c, {s.alias}, "symbols") : ~Fact(c, i).declaration}
AlikeIn(fields, f, g) == \A x \in fields : f[x] = g[x]
AsDefinition  == {"name", "kind", "signature", "condition", "body"}
AsDeclaration == {"path", "name", "kind", "signature"}
DefinedBy(c, s, f) == {i \in DefinedSymbols(c, s) : AlikeIn({"name", "kind"}, Fact(c, i), f)}
PrimaryDeclaration(c, s, id, f) ==
  /\ DefinedBy(c, s, f) = {}
  /\ \A i \in TableFacts(c, {s.alias}, "symbols") \ DefinedSymbols(c, s) :
       AlikeIn(AsDeclaration, Fact(c, i), f) => i[3] >= id[3]
PrimaryDefinition(c, s, id, f) ==
  f.static \/ \A i \in DefinedSymbols(c, s) : AlikeIn(AsDefinition, Fact(c, i), f) => i[3] >= id[3]
Primary(c, s, id, f) ==
  IF id[2] = "routines" THEN id \in Distinct(c, TableFacts(c, {s.alias}, "routines"))
  ELSE IF f.declaration THEN PrimaryDeclaration(c, s, id, f) ELSE PrimaryDefinition(c, s, id, f)

(* The one who has the evidence: a C function, a routine or a Python function
   of that place; and what is known of the evidence.                         *)
EvidenceOwners(c, s, e) ==
  IF e.owner = None THEN {}
  ELSE IF e.origin = "native_call" THEN CallOwners(c, s, e)
  ELSE IF e.origin = "routine_body"
  THEN {i \in TableFacts(c, {s.alias}, "routines") :
          LET r == Fact(c, i) IN <<r.path, r.line, <<r.schema, r.name>>>> = <<e.path, e.ownerline, e.owner>>}
  ELSE {i \in TableFacts(c, {s.alias}, "owners") :
          LET o == Fact(c, i) IN o.path = e.path /\ o.line = e.ownerline /\ IsSuffix(e.owner, o.qname)}
EvidenceStatus(edges, id, e) ==
  LET links == {l \in edges : l.source = id}
  IN  IF e.origin = "python_execute" /\ e.receiver # "verified" THEN "receiver_unverified"
      ELSE IF e.dynamic THEN "dynamic"
      ELSE IF Cardinality(links) > 1 THEN "ambiguous"
      ELSE IF links = {} THEN "unresolved"
      ELSE (CHOOSE l \in links : TRUE).status
Certainty(fact) == IF fact.condition = None THEN "exact" ELSE "conditional"

(***************************************************************************)
(* The nodes are written table by table, then the relationships.           *)
(***************************************************************************)
(* Faulty variant: the diagnostics are written before the evidence.          *)
DiagnosticsFirst == <<"symbols", "routines", "diagnostics", "evidence">>

Labels == <<"symbols", "routines", "evidence", "diagnostics">>
Writing(table) == progress.pc = "graph.nodes" /\ progress.label <= Len(Labels) /\ Labels[progress.label] = table
WroteNodes(nodes) ==
  progress' = [progress EXCEPT !.nodes = @ \cup nodes, !.label = @ + 1, !.snapshot = 1, !.fact = 1]

BeginGraph ==
  /\ request.tool = "corpus" /\ request.status = "committed" /\ progress = Idle
  /\ UNCHANGED request
  /\ LET c == request.corpus
     IN  progress' = [pc |-> "graph.nodes", label |-> 1, snapshot |-> 1, fact |-> 1,
                      nodes |-> {CorpusNode("supplement", k, None, None) :
                                   k \in {SnapshotKey(a) : a \in SnapshotAliases(c)} \cup
                                         UNION {NativeFiles(s) : s \in ToSet(c)}}]
WriteFacts ==
  \E table \in {"symbols", "routines"} :
    /\ Writing(table)
    /\ LET c == request.corpus
       IN  WroteNodes({CorpusNode("supplement", i, None, Primary(c, ByAlias(c, i[1]), i, Fact(c, i))) :
                         i \in TableFacts(c, SnapshotAliases(c), table)})
    /\ UNCHANGED request
WriteDiagnostics ==
  /\ Writing("diagnostics")
  /\ WroteNodes({CorpusNode("supplement", DiagnosticKey(d), None, None) : d \in request.diagnostics})
  /\ UNCHANGED request
(* One piece of evidence: its node, and the links from its file and from its
   owner; an owner that is not found is a diagnostic.                        *)
EvidenceRow(s, id, e, owners) ==
  /\ request' =
       [request EXCEPT
          !.edges = @ \cup {Link(source, id, "evidence", Certainty(e), None) :
                              source \in {PathKey(s.alias, e.path)}
                                         \cup IF Cardinality(owners) = 1 THEN owners ELSE {}},
          !.diagnostics =
             IF e.owner = None \/ Cardinality(owners) = 1 \/ e.origin = "native_call" THEN @
             ELSE AddDiagnostic(@, s.alias, e.path, NextOrdinal(@, s, e), "evidence_owner_unresolved")]
  /\ progress' = [progress EXCEPT !.fact = @ + 1,
                    !.nodes = @ \cup {CorpusNode("supplement", id, EvidenceStatus(request.edges, id, e), None)}]
WriteEvidence ==
  /\ Writing("evidence") /\ request.corpus # <<>> /\ progress.fact <= Len(Current.facts.evidence)
  /\ EvidenceRow(Current, Id("evidence"), FactNow("evidence"),
                 EvidenceOwners(request.corpus, Current, FactNow("evidence")))
EndEvidence ==
  /\ Writing("evidence")
  /\ request.corpus # <<>> => progress.fact > Len(Current.facts.evidence)
  /\ IF progress.snapshot >= Len(request.corpus) THEN WroteNodes({})
     ELSE progress' = [progress EXCEPT !.snapshot = @ + 1, !.fact = 1]
  /\ UNCHANGED request

(* Every fact hangs on its file; of the links of evidence those of its owner
   are added, and all the others as they are.                                *)
FactLinks(c) ==
  UNION {{Link(PathKey(i[1], Fact(c, i).path), i, "of file", Certainty(Fact(c, i)), None) :
            i \in TableFacts(c, SnapshotAliases(c), table)} : table \in {"symbols", "routines", "evidence"}}
DiagnosticLinks(diagnostics) ==
  {Link(PathKey(d.alias, d.path), DiagnosticKey(d), "of file", "exact", None) : d \in diagnostics}
SnapshotLinks(c) ==
  {Link(SnapshotKey(a), RepoKey(a), "of repository", None, None) : a \in SnapshotAliases(c)}
  \cup UNION {{Link(SnapshotKey(s.alias), SnapshotKey(d), "depends", None, None) : d \in ToSet(s.deps)} :
                 s \in ToSet(c)}
WriteLinks ==
  /\ progress.pc = "graph.nodes" /\ progress.label > Len(Labels)
  /\ progress' = [pc |-> "graph.compose", nodes |-> progress.nodes,
                  rels |-> FactLinks(request.corpus) \cup DiagnosticLinks(request.diagnostics)
                           \cup SnapshotLinks(request.corpus)
                           \cup {e \in request.edges : e.kind = "evidence" => e.source[2] # "files"}]
  /\ UNCHANGED request

(* No key twice, and no relationship without its ends.                       *)
IsGraph(nodes, rels) ==
  LET keys == {n.key : n \in nodes}
  IN  Cardinality(keys) = Cardinality(nodes) /\ \A r \in rels : r.source \in keys /\ r.target \in keys
ComposeGraph ==
  /\ progress.pc = "graph.compose"
  /\ LET exported == {CorpusNode("export", k, None, None) :
                        k \in UNION {ExportKeys(request.corpus, s) : s \in ToSet(request.corpus)}}
         nodes == progress.nodes \cup exported
     IN  IF IsGraph(nodes, progress.rels)
         THEN request' = [request EXCEPT !.status = "composed", !.graph = [nodes |-> nodes, rels |-> progress.rels]]
         ELSE request' = [request EXCEPT !.status = "invalid"]
  /\ progress' = Idle

GraphNext ==
  BeginGraph \/ WriteFacts \/ WriteEvidence \/ EndEvidence \/ WriteDiagnostics \/ WriteLinks \/ ComposeGraph
CorpusGraphSpec == CorpusInit /\ [][CorpusNext \/ GraphNext]_vars

-----------------------------------------------------------------------------
(* What belongs to a file of the registry has a node, which hangs on it.     *)
FactsHang(c, graph) ==
  LET facts == UNION {TableFacts(c, SnapshotAliases(c), t) : t \in {"symbols", "routines", "evidence"}}
      hung == {DiagnosticKey(d) : d \in request.diagnostics} \cup facts
      keys == {n.key : n \in graph.nodes}
  IN  /\ hung = {k \in keys : k[2] \in {"symbols", "routines", "evidence", "diagnostics"}}
      /\ {r.target : r \in {l \in graph.rels : l.kind = "of file"}} = hung
      /\ \A s \in ToSet(c) : \A p \in DOMAIN s.facts.files : PathKey(s.alias, p) \in keys
(* Evidence has its owner, or its file a diagnostic that says it has none; and
   only what one unguarded link asserts is called exact.                     *)
EvidenceOwned(c, graph) ==
  \A i \in TableFacts(c, SnapshotAliases(c), "evidence") :
    LET e == Fact(c, i)
        owners == {r.source : r \in {l \in graph.rels : l.kind = "evidence" /\ l.target = i}}
        links == {l \in graph.rels : l.source = i}
        unowned == \E d \in request.diagnostics :
                     /\ d.alias = i[1] /\ d.path = e.path
                     /\ d.category \in {"evidence_owner_unresolved", "native_call_owner_unresolved"}
    IN  /\ Cardinality(owners) <= 1
        /\ \A o \in owners : o[1] = i[1] /\ Fact(c, o).path = e.path /\ Fact(c, o).line = e.ownerline
        /\ e.owner # None /\ e.name # "PG_FUNCTION_INFO_V1" => owners # {} \/ unowned
        /\ \A n \in graph.nodes :
             n.key = i => (n.status = "exact" <=> (\E l \in Asserted(links) : links = {l} /\ l.status = "exact"))
(* The facts of a snapshot that are compared.                                *)
Compared(graph, alias, table) ==
  {n.key : n \in {m \in graph.nodes : m.key[1] = alias /\ m.key[2] = table /\ m.primary}}
(* Of equal routines one is compared.  Of definitions that are equal, but for
   `static` perhaps, the first is, every static one, and at most one other: no
   function is left out of the comparison, and no external one is in it twice.
   Of what is declared and nowhere defined one declaration of each file is.  *)
ComparedOnce(c, graph) ==
  \A s \in ToSet(c) :
    LET symbols == Compared(graph, s.alias, "symbols")
        defined == symbols \cap DefinedSymbols(c, s)
    IN  /\ \A i \in TableFacts(c, {s.alias}, "routines") :
             Cardinality({k \in Compared(graph, s.alias, "routines") : Unplaced(Fact(c, k)) = Unplaced(Fact(c, i))}) = 1
        /\ \A i \in DefinedSymbols(c, s) :
             LET equal == {k \in defined : AlikeIn(AsDefinition, Fact(c, k), Fact(c, i))}
             IN  /\ \E k \in equal : k[3] <= i[3]
                 /\ Fact(c, i).static => i \in equal
                 /\ \A k, m \in equal : Fact(c, k).static \/ Fact(c, m).static \/ k = m
        /\ \A i \in TableFacts(c, {s.alias}, "symbols") \ DefinedSymbols(c, s) :
             LET equal == {k \in symbols \ defined : AlikeIn(AsDeclaration, Fact(c, k), Fact(c, i))}
             IN  Cardinality(equal) = IF DefinedBy(c, s, Fact(c, i)) = {} THEN 1 ELSE 0

(* The graph of every corpus that is linked is accepted by its own validation
   although evidence adds links and diagnostics while nodes are written; and
   it is whole: every fact and diagnostic of the registry, the late ones too,
   is a node of its file, evidence has its one owner or a diagnostic, is exact
   when one asserted link is, and of equal facts the first is compared
   (corpus_export.py:456-940, 966-1069; tests/integration/
   test_corpus_neo4j.py:184-188).                                            *)
CorpusGraphWhole ==
  request.tool = "corpus" =>
    /\ request.status # "invalid"
    /\ request.status = "composed" =>
         /\ FactsHang(request.corpus, request.graph)
         /\ EvidenceOwned(request.corpus, request.graph)
         /\ ComparedOnce(request.corpus, request.graph)
         /\ {e \in request.edges : e.kind # "evidence"} \subseteq request.graph.rels
=============================================================================
