---------------------------- MODULE RequestProofs ----------------------------
(***************************************************************************)
(* Theorems about modules that model one request at a time, for any data   *)
(* the requests may meet.                                                  *)
(***************************************************************************)
EXTENDS GraphRegistryLoad, SymbolRelations, CatalogComparison, SymbolDiscovery, FederatedUsages,
        FederatedTrace, DataProofs

-----------------------------------------------------------------------------
(***************************************************************************)
(* GraphRegistryLoad.  The checks of a registry file: each part that has   *)
(* been passed is in order, and while the dependencies of an extension are *)
(* followed, what was seen is needed, and what is needed was seen or is    *)
(* still to be followed.                                                   *)
(***************************************************************************)
IdIsNew(items, n) == \A m \in 1 .. n - 1 : items[m].id # items[n].id
ExtensionSound(g, k) == g.snapshots[k].role = "extension" => PostgresOf(g).alias \in Needs(g, g.snapshots[k].alias)
EntryOk(n) ==
  LET g == File.graphs[n]
  IN  g.kind \in {"application", "database"} /\ IdIsNew(File.graphs, n) /\ ManifestOk(g)
GraphSound(n) ==
  LET g == File.graphs[n]
  IN  EntryOk(n) /\ (g.kind = "database" => \A k \in DOMAIN g.snapshots : ExtensionSound(g, k))
GraphsSound == \A n \in 1 .. Len(File.graphs) : GraphSound(n)

LoadSteps == {"load.graph", "load.extension", "load.walk", "load.context"}
LoadTypeOK ==
  /\ request \in [tool : {"load"}, file : RegistryFiles, status : {"new", "accepted", "rejected"}]
  /\ \/ progress = Idle
     \/ /\ progress.pc \in LoadSteps /\ request.status = "new"
        /\ progress = [pc |-> progress.pc, n |-> progress.n, extension |-> progress.extension,
                       pending |-> progress.pending, seen |-> progress.seen]
        /\ progress.n \in Nat \ {0} /\ progress.extension \in Nat \ {0}

(* The graphs and, of the one at hand, the extensions that were walked.      *)
GraphsInv ==
  /\ progress.pc \in {"load.graph", "load.extension", "load.walk"} =>
       \A m \in 1 .. progress.n - 1 : m \in 1 .. Len(File.graphs) /\ GraphSound(m)
  /\ progress.pc \in {"load.extension", "load.walk"} =>
       /\ progress.n \in 1 .. Len(File.graphs) /\ EntryOk(progress.n)
       /\ Graph.kind = "database" =>
            \A k \in 1 .. progress.extension - 1 : k \in DOMAIN Graph.snapshots => ExtensionSound(Graph, k)

(* What is being walked: k is the extension.                                 *)
Walked(g, k, pending, seen) ==
  /\ g.kind = "database" /\ k \in DOMAIN g.snapshots /\ g.snapshots[k].role = "extension"
  /\ pending \subseteq Needs(g, g.snapshots[k].alias) /\ seen \subseteq Needs(g, g.snapshots[k].alias)
  /\ g.snapshots[k].dependencies \subseteq seen \cup pending
  /\ \A d \in seen : SnapshotOf(g, d).dependencies \subseteq seen \cup pending
WalkInv ==
  progress.pc = "load.walk" => Walked(Graph, progress.extension, progress.pending, progress.seen)

ContextsInv ==
  progress.pc = "load.context" =>
    /\ GraphsSound
    /\ \A m \in 1 .. progress.n - 1 : m \in DOMAIN File.contexts => ContextOk(File.contexts[m])

Accepts == GraphsSound /\ \A c \in ToSet(File.contexts) : ContextOk(c)
NotClosed ==
  \/ \E g \in Databases : \E x \in Extensions(g) : PostgresOf(g).alias \notin Needs(g, x)
  \/ \E c \in ToSet(File.contexts) : ~Materialized(c)
AnswerInv ==
  /\ request.status = "accepted" => Accepts
  /\ request.status = "rejected" /\ InOrder => NotClosed

LoadInv == LoadTypeOK /\ GraphsInv /\ WalkInv /\ ContextsInv /\ AnswerInv

-----------------------------------------------------------------------------
LEMMA FileIs ==
  ASSUME request.file \in RegistryFiles
  PROVE  /\ Len(File.graphs) \in Nat /\ DOMAIN File.graphs = 1 .. Len(File.graphs)
         /\ Len(File.contexts) \in Nat /\ DOMAIN File.contexts = 1 .. Len(File.contexts)
         /\ ToSet(File.graphs) = {File.graphs[n] : n \in DOMAIN File.graphs}
         /\ ToSet(File.contexts) = {File.contexts[n] : n \in DOMAIN File.contexts}
         /\ \A g \in ToSet(File.graphs) : Len(g.snapshots) \in Nat /\ DOMAIN g.snapshots = 1 .. Len(g.snapshots)
                                          /\ ToSet(g.snapshots) = {g.snapshots[n] : n \in DOMAIN g.snapshots}
BY FilesAssumption DEF File, ToSet

(* The alias of a snapshot finds it again.                                   *)
LEMMA SnapshotFound ==
  ASSUME NEW g, ManifestOk(g), NEW n \in DOMAIN g.snapshots,
         ToSet(g.snapshots) = {g.snapshots[m] : m \in DOMAIN g.snapshots}
  PROVE  SnapshotOf(g, g.snapshots[n].alias) = g.snapshots[n]
<1>1. \A m \in DOMAIN g.snapshots : g.snapshots[m].alias = g.snapshots[n].alias => m = n
  BY DEF ManifestOk, NoRepeats
<1>2. \A s \in ToSet(g.snapshots) : s.alias = g.snapshots[n].alias => s = g.snapshots[n]
  BY <1>1
<1>3. g.snapshots[n] \in ToSet(g.snapshots)
  OBVIOUS
<1> QED
  BY <1>2, <1>3 DEF SnapshotOf

LEMMA AliasFound ==
  ASSUME NEW g, ManifestOk(g), ToSet(g.snapshots) = {g.snapshots[m] : m \in DOMAIN g.snapshots},
         NEW d \in Aliases(g)
  PROVE  \E n \in DOMAIN g.snapshots : SnapshotOf(g, d) = g.snapshots[n] /\ g.snapshots[n].alias = d
<1>1. PICK n \in DOMAIN g.snapshots : d = g.snapshots[n].alias
  BY DEF Aliases
<1> QED
  BY <1>1, SnapshotFound

(* What is needed is closed, and is the least that is.                       *)
LEMMA NeedsClosed ==
  ASSUME NEW g, ManifestOk(g), ToSet(g.snapshots) = {g.snapshots[m] : m \in DOMAIN g.snapshots},
         NEW alias \in Aliases(g)
  PROVE  /\ Needs(g, alias) \subseteq Aliases(g)
         /\ SnapshotOf(g, alias).dependencies \subseteq Needs(g, alias)
         /\ \A d \in Needs(g, alias) : SnapshotOf(g, d).dependencies \subseteq Needs(g, alias)
<1>1. \A d \in Aliases(g) : SnapshotOf(g, d).dependencies \subseteq Aliases(g)
  <2> TAKE d \in Aliases(g)
  <2>1. PICK n \in DOMAIN g.snapshots : SnapshotOf(g, d) = g.snapshots[n]
    BY AliasFound
  <2> QED
    BY <2>1 DEF ManifestOk
<1>2. Needs(g, alias) \subseteq Aliases(g)
  BY DEF Needs
<1>3. ASSUME NEW x \in Aliases(g),
             \A needed \in SUBSET Aliases(g) : ClosedFor(g, alias, needed) =>
                SnapshotOf(g, x).dependencies \subseteq needed
      PROVE  SnapshotOf(g, x).dependencies \subseteq Needs(g, alias)
  BY <1>1, <1>3 DEF Needs
<1>4. SnapshotOf(g, alias).dependencies \subseteq Needs(g, alias)
  BY <1>3 DEF ClosedFor
<1>5. ASSUME NEW d \in Needs(g, alias) PROVE SnapshotOf(g, d).dependencies \subseteq Needs(g, alias)
  <2>1. d \in Aliases(g)
    BY <1>2
  <2>2. \A needed \in SUBSET Aliases(g) : ClosedFor(g, alias, needed) => d \in needed
    BY DEF Needs
  <2>3. \A needed \in SUBSET Aliases(g) : ClosedFor(g, alias, needed) =>
          SnapshotOf(g, d).dependencies \subseteq needed
    BY <2>2 DEF ClosedFor
  <2> QED
    BY <2>1, <2>3, <1>3
<1> QED
  BY <1>2, <1>4, <1>5

LEMMA NeedsLeast ==
  ASSUME NEW g, NEW alias, NEW S \in SUBSET Aliases(g), ClosedFor(g, alias, S)
  PROVE  Needs(g, alias) \subseteq S
BY DEF Needs

LEMMA LoadInitial == LoadInit => LoadInv
BY DEF LoadInit, Idle, LoadInv, LoadTypeOK, GraphsInv, WalkInv, ContextsInv, AnswerInv

(* An answer ends the load.                                                  *)
LEMMA LoadAnswers ==
  ASSUME LoadInv, progress # Idle \/ request.status = "new", NEW status \in {"accepted", "rejected"},
         Answer(status), status = "accepted" => Accepts, status = "rejected" /\ InOrder => NotClosed
  PROVE  LoadInv'
<1>1. /\ request' = [request EXCEPT !.status = status] /\ progress' = Idle
      /\ request \in [tool : {"load"}, file : RegistryFiles, status : {"new", "accepted", "rejected"}]
  BY DEF Answer, LoadInv, LoadTypeOK
<1>2. request'.file = request.file /\ request'.status = status
  BY <1>1
<1>3. LoadTypeOK'
  BY <1>1, <1>2 DEF LoadTypeOK
<1>4. File' = File
  BY <1>2 DEF File
<1>5. (Accepts => Accepts') /\ (InOrder' => InOrder) /\ (NotClosed => NotClosed')
  BY <1>4 DEF Accepts, GraphsSound, GraphSound, EntryOk, IdIsNew, ContextOk, ContextNamed, IsGraph, GraphNamed,
              InOrder, NotClosed, Databases, Materialized
<1>6. AnswerInv'
  BY <1>2, <1>5 DEF AnswerInv
<1>7. progress'.pc = "idle"
  BY <1>1 DEF Idle
<1> QED
  BY <1>3, <1>6, <1>7 DEF LoadInv, GraphsInv, WalkInv, ContextsInv

(* While the load goes on, the file is the same and nothing is answered.     *)
LEMMA LoadGoesOn ==
  ASSUME LoadInv, request' = request
  PROVE  /\ File' = File /\ AnswerInv'
         /\ \A n : GraphSound(n)' <=> GraphSound(n)
         /\ \A n : EntryOk(n)' <=> EntryOk(n)
         /\ \A c : ContextOk(c)' <=> ContextOk(c)
<1>1. File' = File
  BY DEF File
<1> QED
  BY <1>1 DEF LoadInv, AnswerInv, Accepts, GraphsSound, GraphSound, EntryOk, IdIsNew, ContextOk, ContextNamed,
       IsGraph, GraphNamed, InOrder, NotClosed, Databases, Materialized

(* A step of the load that goes on keeps the types.                          *)
LEMMA LoadKeepsTypes ==
  ASSUME LoadTypeOK, request.status = "new", request' = request, NEW pc \in LoadSteps,
         NEW n \in Nat \ {0}, NEW k \in Nat \ {0}, NEW pending, NEW seen,
         progress' = [pc |-> pc, n |-> n, extension |-> k, pending |-> pending, seen |-> seen]
  PROVE  LoadTypeOK'
<1>1. progress'.pc = pc /\ progress'.n = n /\ progress'.extension = k
      /\ progress'.pending = pending /\ progress'.seen = seen
  OBVIOUS
<1>2. request' \in [tool : {"load"}, file : RegistryFiles, status : {"new", "accepted", "rejected"}]
  BY DEF LoadTypeOK
<1>3. request'.status = "new"
  OBVIOUS
<1>4. /\ progress'.pc \in LoadSteps /\ progress'.n \in Nat \ {0} /\ progress'.extension \in Nat \ {0}
      /\ progress' = [pc |-> progress'.pc, n |-> progress'.n, extension |-> progress'.extension,
                      pending |-> progress'.pending, seen |-> progress'.seen]
  BY <1>1
<1> QED
  BY <1>2, <1>3, <1>4 DEF LoadTypeOK, LoadSteps

LEMMA LoadBegins == LoadInv /\ BeginLoad => LoadInv'
<1> SUFFICES ASSUME LoadInv, BeginLoad PROVE LoadInv'
  OBVIOUS
<1>1. /\ request \in [tool : {"load"}, file : RegistryFiles, status : {"new", "accepted", "rejected"}]
      /\ request.status = "new" /\ progress.pc = "idle"
  BY DEF BeginLoad, Asked, LoadInv, LoadTypeOK
<1>2. CASE File.graphs = <<>> \/ Len(File.graphs) > GraphCap \/ Len(File.contexts) > ContextCap
  <2>1. Answer("rejected")
    BY <1>2 DEF BeginLoad
  <2>2. ~InOrder
    <3>1. /\ Len(File.graphs) \in Nat /\ Len(File.contexts) \in Nat
          /\ GraphCap \in Nat /\ ContextCap \in Nat
      BY <1>1, FileIs, FilesAssumption
    <3>2. CASE File.graphs = <<>>
      <4>1. ToSet(File.graphs) = {}
        BY <3>2 DEF ToSet
      <4> QED
        BY <4>1 DEF InOrder, IsGraph
    <3>3. CASE Len(File.graphs) > GraphCap \/ Len(File.contexts) > ContextCap
      <4>1. ~(Len(File.graphs) <= GraphCap /\ Len(File.contexts) <= ContextCap)
        BY <3>1, <3>3
      <4> QED
        BY <4>1, Zenon DEF InOrder
    <3> QED
      BY <1>2, <3>2, <3>3
  <2> QED
    BY <1>1, <2>1, <2>2, LoadAnswers
<1>3. CASE ~(File.graphs = <<>> \/ Len(File.graphs) > GraphCap \/ Len(File.contexts) > ContextCap)
  <2>1. /\ progress' = [pc |-> "load.graph", n |-> 1, extension |-> 1, pending |-> {}, seen |-> {}]
        /\ request' = request
    BY <1>3 DEF BeginLoad
  <2>2. LoadTypeOK'
    <3>1. LoadTypeOK /\ "load.graph" \in LoadSteps /\ 1 \in Nat \ {0}
      BY DEF LoadInv, LoadSteps
    <3> QED
      BY <1>1, <2>1, <3>1, LoadKeepsTypes
  <2>3. GraphsInv' /\ WalkInv' /\ ContextsInv'
    BY <2>1 DEF GraphsInv, WalkInv, ContextsInv
  <2> QED
    BY <2>1, <2>2, <2>3, LoadGoesOn DEF LoadInv
<1> QED
  BY <1>2, <1>3

LEMMA GraphLoads == LoadInv /\ LoadGraph => LoadInv'
<1> SUFFICES ASSUME LoadInv, LoadGraph PROVE LoadInv'
  OBVIOUS
<1>1. /\ request \in [tool : {"load"}, file : RegistryFiles, status : {"new", "accepted", "rejected"}]
      /\ progress.pc = "load.graph" /\ request.status = "new" /\ progress # Idle
      /\ progress = [pc |-> progress.pc, n |-> progress.n, extension |-> progress.extension,
                     pending |-> progress.pending, seen |-> progress.seen]
      /\ progress.n \in Nat \ {0} /\ progress.extension \in Nat \ {0}
  BY DEF LoadGraph, LoadInv, LoadTypeOK, Idle
<1>2. /\ Len(File.graphs) \in Nat /\ DOMAIN File.graphs = 1 .. Len(File.graphs)
      /\ ToSet(File.graphs) = {File.graphs[n] : n \in DOMAIN File.graphs}
  BY <1>1, FileIs
<1>3. \A m \in 1 .. progress.n - 1 : m \in 1 .. Len(File.graphs) /\ GraphSound(m)
  BY <1>1 DEF LoadInv, GraphsInv
<1>4. CASE progress.n > Len(File.graphs) /\ Answer("rejected")
  <2>1. ~IsGraph(File.default, "application")
    BY <1>4, <1>1 DEF LoadGraph, Answer, Idle
  <2> QED
    BY <1>1, <1>4, <2>1, LoadAnswers DEF InOrder
<1>5. CASE progress.n > Len(File.graphs) /\ ~Answer("rejected")
  <2>1. progress' = [progress EXCEPT !.pc = "load.context", !.n = 1] /\ request' = request
    BY <1>5 DEF LoadGraph
  <2>2. /\ progress'.pc = "load.context" /\ progress'.n = 1
        /\ progress' = [pc |-> "load.context", n |-> 1, extension |-> progress.extension,
                        pending |-> progress.pending, seen |-> progress.seen]
    BY <1>1, <2>1
  <2>3. LoadTypeOK'
    <3>1. LoadTypeOK /\ "load.context" \in LoadSteps /\ 1 \in Nat \ {0}
      BY DEF LoadInv, LoadSteps
    <3> QED
      BY <1>1, <2>1, <2>2, <3>1, LoadKeepsTypes
  <2>4. GraphsSound
    BY <1>1, <1>2, <1>3, <1>5 DEF GraphsSound
  <2>5. GraphsSound'
    BY <2>1, <2>4, LoadGoesOn DEF GraphsSound
  <2>6. GraphsInv' /\ WalkInv' /\ ContextsInv'
    BY <2>2, <2>5 DEF GraphsInv, WalkInv, ContextsInv
  <2> QED
    BY <2>1, <2>3, <2>6, LoadGoesOn DEF LoadInv
<1>6. CASE progress.n <= Len(File.graphs) /\ Answer("rejected")
  <2>1. progress.n \in DOMAIN File.graphs /\ Graph \in ToSet(File.graphs)
    BY <1>1, <1>2, <1>6 DEF Graph
  <2>2. \/ \E m \in 1 .. progress.n - 1 : File.graphs[m].id = Graph.id
        \/ Graph.kind \notin {"application", "database"}
        \/ ~ManifestOk(Graph) \/ (Graph.zvec /\ Graph.kind # "application")
    BY <1>1, <1>2, <1>6 DEF LoadGraph, Answer, Idle
  <2>3. ~InOrder
    <3>1. CASE \E m \in 1 .. progress.n - 1 : File.graphs[m].id = Graph.id
      <4>1. PICK m \in 1 .. progress.n - 1 : File.graphs[m].id = Graph.id
        BY <3>1
      <4>2. m \in DOMAIN File.graphs /\ m # progress.n
        BY <1>1, <1>2, <1>3, <4>1
      <4>3. ~DistinctIds(File.graphs)
        BY <2>1, <4>1, <4>2 DEF DistinctIds, NoRepeats, Graph
      <4> QED
        BY <4>3 DEF InOrder
    <3>2. CASE \/ Graph.kind \notin {"application", "database"}
               \/ ~ManifestOk(Graph) \/ (Graph.zvec /\ Graph.kind # "application")
      BY <2>1, <3>2, Zenon DEF InOrder
    <3> QED
      BY <2>2, <3>1, <3>2
  <2> QED
    BY <1>1, <1>6, <2>3, LoadAnswers
<1>7. CASE progress.n <= Len(File.graphs) /\ ~Answer("rejected")
  <2>1. /\ progress' = [progress EXCEPT !.pc = "load.extension", !.extension = 1] /\ request' = request
        /\ ~\E m \in 1 .. progress.n - 1 : File.graphs[m].id = Graph.id
        /\ ManifestOk(Graph) /\ Graph.kind \in {"application", "database"}
    BY <1>1, <1>2, <1>7 DEF LoadGraph
  <2>2. /\ progress'.pc = "load.extension" /\ progress'.n = progress.n /\ progress'.extension = 1
        /\ progress' = [pc |-> "load.extension", n |-> progress.n, extension |-> 1,
                        pending |-> progress.pending, seen |-> progress.seen]
    BY <1>1, <2>1
  <2>3. LoadTypeOK'
    <3>1. LoadTypeOK /\ "load.extension" \in LoadSteps /\ 1 \in Nat \ {0}
      BY DEF LoadInv, LoadSteps
    <3> QED
      BY <1>1, <2>1, <2>2, <3>1, LoadKeepsTypes
  <2>4. progress.n \in 1 .. Len(File.graphs) /\ EntryOk(progress.n)
    BY <1>1, <1>2, <1>7, <2>1 DEF EntryOk, IdIsNew, Graph
  <2>5. GraphsInv'
    BY <1>3, <2>1, <2>2, <2>4, LoadGoesOn DEF GraphsInv
  <2>6. WalkInv' /\ ContextsInv'
    BY <2>2 DEF WalkInv, ContextsInv
  <2> QED
    BY <2>1, <2>3, <2>5, <2>6, LoadGoesOn DEF LoadInv
<1> QED
  BY <1>1, <1>2, <1>4, <1>5, <1>6, <1>7

(* What holds of the graph at hand while its extensions are checked.         *)
LEMMA GraphAtHand ==
  ASSUME LoadInv, progress.pc \in {"load.extension", "load.walk"}
  PROVE  /\ request \in [tool : {"load"}, file : RegistryFiles, status : {"new", "accepted", "rejected"}]
         /\ request.status = "new" /\ progress # Idle
         /\ progress = [pc |-> progress.pc, n |-> progress.n, extension |-> progress.extension,
                        pending |-> progress.pending, seen |-> progress.seen]
         /\ progress.n \in Nat \ {0} /\ progress.extension \in Nat \ {0}
         /\ progress.n \in 1 .. Len(File.graphs) /\ Len(File.graphs) \in Nat
         /\ Graph \in ToSet(File.graphs) /\ EntryOk(progress.n) /\ ManifestOk(Graph)
         /\ Graph.kind \in {"application", "database"}
         /\ Len(Graph.snapshots) \in Nat /\ DOMAIN Graph.snapshots = 1 .. Len(Graph.snapshots)
         /\ ToSet(Graph.snapshots) = {Graph.snapshots[k] : k \in DOMAIN Graph.snapshots}
         /\ \A m \in 1 .. progress.n - 1 : m \in 1 .. Len(File.graphs) /\ GraphSound(m)
         /\ Graph.kind = "database" =>
              \A k \in 1 .. progress.extension - 1 : k \in DOMAIN Graph.snapshots => ExtensionSound(Graph, k)
<1>1. /\ request \in [tool : {"load"}, file : RegistryFiles, status : {"new", "accepted", "rejected"}]
      /\ request.status = "new" /\ progress # Idle
      /\ progress = [pc |-> progress.pc, n |-> progress.n, extension |-> progress.extension,
                     pending |-> progress.pending, seen |-> progress.seen]
      /\ progress.n \in Nat \ {0} /\ progress.extension \in Nat \ {0}
  BY DEF LoadInv, LoadTypeOK, Idle
<1>2. /\ Len(File.graphs) \in Nat /\ DOMAIN File.graphs = 1 .. Len(File.graphs)
      /\ ToSet(File.graphs) = {File.graphs[n] : n \in DOMAIN File.graphs}
      /\ \A g \in ToSet(File.graphs) : Len(g.snapshots) \in Nat /\ DOMAIN g.snapshots = 1 .. Len(g.snapshots)
                                       /\ ToSet(g.snapshots) = {g.snapshots[n] : n \in DOMAIN g.snapshots}
  BY <1>1, FileIs
<1>3. /\ \A m \in 1 .. progress.n - 1 : m \in 1 .. Len(File.graphs) /\ GraphSound(m)
      /\ progress.n \in 1 .. Len(File.graphs) /\ EntryOk(progress.n)
      /\ Graph.kind = "database" =>
           \A k \in 1 .. progress.extension - 1 : k \in DOMAIN Graph.snapshots => ExtensionSound(Graph, k)
  BY DEF LoadInv, GraphsInv
<1>4. Graph \in ToSet(File.graphs)
  BY <1>2, <1>3 DEF Graph
<1>5. ManifestOk(Graph) /\ Graph.kind \in {"application", "database"}
  BY <1>3 DEF EntryOk, Graph
<1> QED
  BY <1>1, <1>2, <1>3, <1>4, <1>5

(* The step to the next snapshot of a graph, one that is sound left behind.  *)
LEMMA ExtensionDone ==
  ASSUME LoadInv, progress.pc \in {"load.extension", "load.walk"}, request' = request,
         \/ progress' = [progress EXCEPT !.extension = @ + 1] /\ progress.pc = "load.extension"
         \/ progress' = [progress EXCEPT !.pc = "load.extension", !.extension = @ + 1],
         ExtensionSound(Graph, progress.extension)
  PROVE  LoadInv'
<1>1. progress' = [pc |-> "load.extension", n |-> progress.n, extension |-> progress.extension + 1,
                   pending |-> progress.pending, seen |-> progress.seen]
  BY GraphAtHand
<1>2. LoadTypeOK'
  <2>1. /\ LoadTypeOK /\ "load.extension" \in LoadSteps /\ progress.n \in Nat \ {0}
        /\ progress.extension + 1 \in Nat \ {0} /\ request.status = "new"
    BY GraphAtHand DEF LoadInv, LoadSteps
  <2> QED
    BY <1>1, <2>1, LoadKeepsTypes
<1>3. /\ progress'.pc = "load.extension" /\ progress'.n = progress.n
      /\ progress'.extension - 1 = progress.extension
  BY <1>1, GraphAtHand
<1>4. File' = File /\ Graph' = Graph
  BY <1>3, LoadGoesOn DEF Graph
<1>5. Graph.kind = "database" =>
        \A j \in 1 .. progress.extension : j \in DOMAIN Graph.snapshots => ExtensionSound(Graph, j)
  <2> SUFFICES ASSUME Graph.kind = "database", NEW j \in 1 .. progress.extension, j \in DOMAIN Graph.snapshots
               PROVE  ExtensionSound(Graph, j)
    OBVIOUS
  <2>1. j \in 1 .. progress.extension - 1 \/ j = progress.extension
    BY GraphAtHand
  <2> QED
    BY <2>1, GraphAtHand
<1>6. /\ \A m \in 1 .. progress.n - 1 : m \in 1 .. Len(File.graphs) /\ GraphSound(m)
      /\ progress.n \in 1 .. Len(File.graphs) /\ EntryOk(progress.n)
  BY GraphAtHand
<1>7. GraphsInv'
  BY <1>3, <1>4, <1>5, <1>6, LoadGoesOn DEF GraphsInv
<1>8. WalkInv' /\ ContextsInv'
  BY <1>3 DEF WalkInv, ContextsInv
<1> QED
  BY <1>2, <1>7, <1>8, LoadGoesOn DEF LoadInv

(* A step of the walk: the graph and the extension stay.                     *)
LEMMA WalkGoesOn ==
  ASSUME LoadInv, progress.pc \in {"load.extension", "load.walk"}, request' = request,
         NEW pending, NEW seen,
         progress' = [pc |-> "load.walk", n |-> progress.n, extension |-> progress.extension,
                      pending |-> pending, seen |-> seen],
         Walked(Graph, progress.extension, pending, seen)
  PROVE  LoadInv'
<1>1. /\ progress'.pc = "load.walk" /\ progress'.n = progress.n /\ progress'.extension = progress.extension
      /\ progress'.pending = pending /\ progress'.seen = seen
  OBVIOUS
<1>2. LoadTypeOK'
  <2>1. /\ LoadTypeOK /\ "load.walk" \in LoadSteps /\ progress.n \in Nat \ {0}
        /\ progress.extension \in Nat \ {0} /\ request.status = "new"
    BY GraphAtHand DEF LoadInv, LoadSteps
  <2> QED
    BY <2>1, LoadKeepsTypes
<1>3. File' = File /\ Graph' = Graph
  BY <1>1, LoadGoesOn DEF Graph
<1>4. /\ \A m \in 1 .. progress.n - 1 : m \in 1 .. Len(File.graphs) /\ GraphSound(m)
      /\ progress.n \in 1 .. Len(File.graphs) /\ EntryOk(progress.n)
      /\ Graph.kind = "database" =>
           \A k \in 1 .. progress.extension - 1 : k \in DOMAIN Graph.snapshots => ExtensionSound(Graph, k)
  BY GraphAtHand
<1>5. GraphsInv'
  BY <1>1, <1>3, <1>4, LoadGoesOn DEF GraphsInv
<1>6. WalkInv'
  BY <1>1, <1>3 DEF WalkInv
<1>7. ContextsInv'
  BY <1>1 DEF ContextsInv
<1> QED
  BY <1>2, <1>5, <1>6, <1>7, LoadGoesOn DEF LoadInv

LEMMA ExtensionBegins == LoadInv /\ BeginExtension => LoadInv'
<1> SUFFICES ASSUME LoadInv, BeginExtension PROVE LoadInv'
  OBVIOUS
<1>1. progress.pc = "load.extension" /\ progress.pc \in {"load.extension", "load.walk"}
  BY DEF BeginExtension
<1> DEFINE k == progress.extension
<1> DEFINE over == Graph.kind = "application" \/ k > Len(Graph.snapshots)
<1>2. CASE over /\ ~StoredOk(Graph)
  <2>1. Answer("rejected")
    BY <1>2 DEF BeginExtension
  <2>2. Graph \in ToSet(File.graphs) /\ progress # Idle
    BY <1>1, GraphAtHand
  <2>3. ~InOrder
    BY <1>2, <2>2, Zenon DEF InOrder
  <2> QED
    BY <2>1, <2>2, <2>3, LoadAnswers
<1>3. CASE over /\ StoredOk(Graph)
  <2>1. progress' = [progress EXCEPT !.pc = "load.graph", !.n = @ + 1] /\ request' = request
    BY <1>3 DEF BeginExtension
  <2>2. progress' = [pc |-> "load.graph", n |-> progress.n + 1, extension |-> progress.extension,
                     pending |-> progress.pending, seen |-> progress.seen]
    BY <1>1, <2>1, GraphAtHand
  <2>3. LoadTypeOK'
    <3>1. /\ LoadTypeOK /\ "load.graph" \in LoadSteps /\ progress.n + 1 \in Nat \ {0}
          /\ progress.extension \in Nat \ {0} /\ request.status = "new"
      BY <1>1, GraphAtHand DEF LoadInv, LoadSteps
    <3> QED
      BY <2>1, <2>2, <3>1, LoadKeepsTypes
  <2>4. GraphSound(progress.n)
    <3>1. EntryOk(progress.n) /\ Graph.kind \in {"application", "database"}
      BY <1>1, GraphAtHand
    <3>2. ASSUME Graph.kind = "database", NEW j \in DOMAIN Graph.snapshots PROVE ExtensionSound(Graph, j)
      <4>1. k > Len(Graph.snapshots)
        BY <1>3, <3>2
      <4>2. j \in 1 .. k - 1
        BY <1>1, <3>2, <4>1, GraphAtHand
      <4> QED
        BY <1>1, <3>2, <4>2, GraphAtHand
    <3> QED
      BY <3>1, <3>2 DEF GraphSound, Graph
  <2>5. \A m \in 1 .. progress.n : m \in 1 .. Len(File.graphs) /\ GraphSound(m)
    <3> TAKE m \in 1 .. progress.n
    <3>1. m \in 1 .. progress.n - 1 \/ m = progress.n
      BY <1>1, GraphAtHand
    <3> QED
      BY <1>1, <2>4, <3>1, GraphAtHand
  <2>6. /\ progress'.pc = "load.graph" /\ progress'.n - 1 = progress.n
    BY <1>1, <2>2, GraphAtHand
  <2>7. GraphsInv' /\ WalkInv' /\ ContextsInv'
    BY <2>1, <2>5, <2>6, LoadGoesOn DEF GraphsInv, WalkInv, ContextsInv
  <2> QED
    BY <2>1, <2>3, <2>7, LoadGoesOn DEF LoadInv
<1>4. CASE ~over /\ Graph.snapshots[k].role # "extension"
  <2>1. progress' = [progress EXCEPT !.extension = @ + 1] /\ request' = request
    BY <1>4 DEF BeginExtension
  <2>2. ExtensionSound(Graph, k)
    BY <1>4 DEF ExtensionSound
  <2> QED
    BY <1>1, <2>1, <2>2, ExtensionDone
<1>5. CASE ~over /\ Graph.snapshots[k].role = "extension"
  <2>1. /\ progress' = [progress EXCEPT !.pc = "load.walk", !.seen = {},
                                        !.pending = Graph.snapshots[k].dependencies]
        /\ request' = request
    BY <1>5 DEF BeginExtension
  <2>2. progress' = [pc |-> "load.walk", n |-> progress.n, extension |-> progress.extension,
                     pending |-> Graph.snapshots[k].dependencies, seen |-> {}]
    BY <1>1, <2>1, GraphAtHand
  <2>3. Walked(Graph, k, Graph.snapshots[k].dependencies, {})
    <3>1. Graph.kind = "database" /\ k \in DOMAIN Graph.snapshots
      BY <1>1, <1>5, GraphAtHand
    <3>2. Graph.snapshots[k].alias \in Aliases(Graph)
      BY <3>1 DEF Aliases
    <3>3. SnapshotOf(Graph, Graph.snapshots[k].alias) = Graph.snapshots[k]
      BY <1>1, <3>1, GraphAtHand, SnapshotFound
    <3>4. Graph.snapshots[k].dependencies \subseteq Needs(Graph, Graph.snapshots[k].alias)
      BY <1>1, <3>2, <3>3, GraphAtHand, NeedsClosed
    <3> QED
      BY <1>5, <3>1, <3>4 DEF Walked
  <2> QED
    BY <1>1, <2>1, <2>2, <2>3, WalkGoesOn
<1> QED
  BY <1>2, <1>3, <1>4, <1>5

LEMMA DependencyWalked == LoadInv /\ WalkDependency => LoadInv'
<1> SUFFICES ASSUME LoadInv, WalkDependency PROVE LoadInv'
  OBVIOUS
<1> DEFINE k == progress.extension
           alias == Graph.snapshots[k].alias
           pending == progress.pending
           seen == progress.seen
<1>1. progress.pc = "load.walk" /\ progress.pc \in {"load.extension", "load.walk"}
  BY DEF WalkDependency
<1>2. /\ Graph.kind = "database" /\ k \in DOMAIN Graph.snapshots /\ Graph.snapshots[k].role = "extension"
      /\ pending \subseteq Needs(Graph, alias) /\ seen \subseteq Needs(Graph, alias)
      /\ Graph.snapshots[k].dependencies \subseteq seen \cup pending
      /\ \A d \in seen : SnapshotOf(Graph, d).dependencies \subseteq seen \cup pending
  BY <1>1 DEF LoadInv, WalkInv, Walked
<1>3. alias \in Aliases(Graph)
  BY <1>2 DEF Aliases
<1>4. /\ Needs(Graph, alias) \subseteq Aliases(Graph)
      /\ \A d \in Needs(Graph, alias) : SnapshotOf(Graph, d).dependencies \subseteq Needs(Graph, alias)
  BY <1>1, <1>3, GraphAtHand, NeedsClosed
<1>5. CASE pending = {} /\ PostgresOf(Graph).alias \in seen
  <2>1. progress' = [progress EXCEPT !.pc = "load.extension", !.extension = @ + 1] /\ request' = request
    BY <1>5 DEF WalkDependency
  <2>2. ExtensionSound(Graph, k)
    BY <1>2, <1>5 DEF ExtensionSound
  <2> QED
    BY <1>1, <2>1, <2>2, ExtensionDone
<1>6. CASE pending = {} /\ PostgresOf(Graph).alias \notin seen
  <2>1. Answer("rejected")
    BY <1>6 DEF WalkDependency
  <2>2. SnapshotOf(Graph, alias) = Graph.snapshots[k]
    BY <1>1, <1>2, GraphAtHand, SnapshotFound
  <2>3. ClosedFor(Graph, alias, seen) /\ seen \in SUBSET Aliases(Graph)
    BY <1>2, <1>4, <1>6, <2>2 DEF ClosedFor
  <2>4. PostgresOf(Graph).alias \notin Needs(Graph, alias)
    BY <1>6, <2>3, NeedsLeast
  <2>5. Graph \in Databases /\ progress # Idle
    BY <1>1, <1>2, GraphAtHand DEF Databases
  <2>6. alias \in Extensions(Graph)
    <3>1. Graph.snapshots[k] \in ToSet(Graph.snapshots)
      BY <1>1, <1>2, GraphAtHand
    <3> QED
      BY <1>2, <3>1 DEF Extensions
  <2>7. NotClosed
    BY <2>4, <2>5, <2>6 DEF NotClosed
  <2> QED
    BY <2>1, <2>5, <2>7, LoadAnswers
<1>7. CASE pending # {}
  <2>1. request' = request
    BY <1>7 DEF WalkDependency
  <2>2. PICK d \in pending :
          progress' = IF d \in seen THEN [progress EXCEPT !.pending = @ \ {d}]
                      ELSE [progress EXCEPT !.seen = @ \cup {d},
                              !.pending = (@ \ {d}) \cup (SnapshotOf(Graph, d).dependencies \ seen)]
    BY <1>7 DEF WalkDependency
  <2>3. CASE d \in seen
    <3>1. progress' = [pc |-> "load.walk", n |-> progress.n, extension |-> k,
                       pending |-> pending \ {d}, seen |-> seen]
      BY <1>1, <2>2, <2>3, GraphAtHand
    <3>2. Walked(Graph, k, pending \ {d}, seen)
      BY <1>2, <2>3 DEF Walked
    <3> QED
      BY <1>1, <2>1, <3>1, <3>2, WalkGoesOn
  <2>4. CASE d \notin seen
    <3> DEFINE more == (pending \ {d}) \cup (SnapshotOf(Graph, d).dependencies \ seen)
    <3>1. progress' = [pc |-> "load.walk", n |-> progress.n, extension |-> k,
                       pending |-> more, seen |-> seen \cup {d}]
      BY <1>1, <2>2, <2>4, GraphAtHand
    <3>2. d \in Needs(Graph, alias)
      BY <1>2
    <3>3. SnapshotOf(Graph, d).dependencies \subseteq Needs(Graph, alias)
      BY <1>4, <3>2
    <3>4. /\ more \subseteq Needs(Graph, alias) /\ seen \cup {d} \subseteq Needs(Graph, alias)
          /\ Graph.snapshots[k].dependencies \subseteq (seen \cup {d}) \cup more
      BY <1>2, <3>2, <3>3
    <3>5. \A e \in seen \cup {d} : SnapshotOf(Graph, e).dependencies \subseteq (seen \cup {d}) \cup more
      BY <1>2
    <3>6. Walked(Graph, k, more, seen \cup {d})
      <4> HIDE DEF more
      <4> QED
        BY <1>2, <3>4, <3>5 DEF Walked
    <3> QED
      BY <1>1, <2>1, <3>1, <3>6, WalkGoesOn
  <2> QED
    BY <2>3, <2>4
<1> QED
  BY <1>5, <1>6, <1>7

(* The graph a context names: the one there is.                              *)
LEMMA NamedGraph ==
  ASSUME request.file \in RegistryFiles, GraphsSound, NEW id, NEW kind, IsGraph(id, kind)
  PROVE  /\ GraphNamed(id) \in ToSet(File.graphs) /\ GraphNamed(id).kind = kind
         /\ ManifestOk(GraphNamed(id))
         /\ DOMAIN GraphNamed(id).snapshots = 1 .. Len(GraphNamed(id).snapshots)
         /\ ToSet(GraphNamed(id).snapshots) =
              {GraphNamed(id).snapshots[n] : n \in DOMAIN GraphNamed(id).snapshots}
<1>1. PICK g \in ToSet(File.graphs) : g.id = id /\ g.kind = kind
  BY DEF IsGraph
<1>2. GraphNamed(id) \in ToSet(File.graphs) /\ GraphNamed(id).id = id
  BY <1>1 DEF GraphNamed
<1>3. /\ Len(File.graphs) \in Nat /\ DOMAIN File.graphs = 1 .. Len(File.graphs)
      /\ ToSet(File.graphs) = {File.graphs[n] : n \in DOMAIN File.graphs}
      /\ \A h \in ToSet(File.graphs) : DOMAIN h.snapshots = 1 .. Len(h.snapshots)
                                       /\ ToSet(h.snapshots) = {h.snapshots[n] : n \in DOMAIN h.snapshots}
  BY FileIs
<1>4. PICK m, n \in 1 .. Len(File.graphs) : GraphNamed(id) = File.graphs[m] /\ g = File.graphs[n]
  BY <1>1, <1>2, <1>3
<1>5. IdIsNew(File.graphs, m) /\ IdIsNew(File.graphs, n) /\ ManifestOk(File.graphs[m])
  BY <1>4 DEF GraphsSound, GraphSound, EntryOk
<1>6. m = n
  <2>1. ~(m < n)
    <3> SUFFICES ASSUME m < n PROVE FALSE
      OBVIOUS
    <3>1. m \in 1 .. n - 1
      BY <1>3
    <3> QED
      BY <1>1, <1>2, <1>4, <1>5, <3>1 DEF IdIsNew
  <2>2. ~(n < m)
    <3> SUFFICES ASSUME n < m PROVE FALSE
      OBVIOUS
    <3>1. n \in 1 .. m - 1
      BY <1>3
    <3> QED
      BY <1>1, <1>2, <1>4, <1>5, <3>1 DEF IdIsNew
  <2> QED
    BY <1>3, <2>1, <2>2
<1> QED
  BY <1>1, <1>2, <1>3, <1>4, <1>5, <1>6

LEMMA ContextLoads == LoadInv /\ LoadContext => LoadInv'
<1> SUFFICES ASSUME LoadInv, LoadContext PROVE LoadInv'
  OBVIOUS
<1> DEFINE n == progress.n
           c == File.contexts[n]
<1>1. /\ request \in [tool : {"load"}, file : RegistryFiles, status : {"new", "accepted", "rejected"}]
      /\ progress.pc = "load.context" /\ request.status = "new" /\ progress # Idle
      /\ progress = [pc |-> progress.pc, n |-> progress.n, extension |-> progress.extension,
                     pending |-> progress.pending, seen |-> progress.seen]
      /\ progress.n \in Nat \ {0} /\ progress.extension \in Nat \ {0} /\ LoadTypeOK
  BY DEF LoadContext, LoadInv, LoadTypeOK, Idle
<1>2. /\ Len(File.contexts) \in Nat /\ DOMAIN File.contexts = 1 .. Len(File.contexts)
      /\ ToSet(File.contexts) = {File.contexts[m] : m \in DOMAIN File.contexts}
  BY <1>1, FileIs
<1>3. GraphsSound /\ \A m \in 1 .. n - 1 : m \in DOMAIN File.contexts => ContextOk(File.contexts[m])
  BY <1>1 DEF LoadInv, ContextsInv
<1>4. CASE n > Len(File.contexts)
  <2>1. Answer("accepted")
    BY <1>4 DEF LoadContext
  <2>2. \A m \in DOMAIN File.contexts : m \in 1 .. n - 1
    BY <1>1, <1>2, <1>4
  <2>3. Accepts
    BY <1>2, <1>3, <2>2 DEF Accepts
  <2> QED
    BY <1>1, <2>1, <2>3, LoadAnswers
<1>5. CASE n <= Len(File.contexts) /\ \E m \in 1 .. n - 1 : File.contexts[m].id = c.id
  <2>1. Answer("rejected")
    BY <1>1, <1>2, <1>5 DEF LoadContext
  <2>2. PICK m \in 1 .. n - 1 : File.contexts[m].id = c.id
    BY <1>5
  <2>3. m \in DOMAIN File.contexts /\ n \in DOMAIN File.contexts /\ m # n
    BY <1>1, <1>2, <1>5
  <2>4. ~DistinctIds(File.contexts)
    BY <2>2, <2>3 DEF DistinctIds, NoRepeats
  <2>5. ~InOrder
    BY <2>4, Zenon DEF InOrder
  <2> QED
    BY <1>1, <2>1, <2>5, LoadAnswers
<1>6. CASE n <= Len(File.contexts) /\ ~ContextOk(c)
  <2>1. Answer("rejected")
    BY <1>1, <1>2, <1>6 DEF LoadContext
  <2>2. c \in ToSet(File.contexts)
    BY <1>1, <1>2, <1>6
  <2>3. CASE ~ContextNamed(c)
    <3>1. ~InOrder
      BY <2>2, <2>3, Zenon DEF InOrder
    <3> QED
      BY <1>1, <2>1, <3>1, LoadAnswers
  <2>4. CASE ContextNamed(c)
    <3> DEFINE g == GraphNamed(c.db)
    <3>1. PICK x \in ToSet(c.extensions) :
            ~(SnapshotOf(g, x).dependencies \subseteq ToSet(c.extensions) \cup {PostgresOf(g).alias})
      BY <1>6, <2>4 DEF ContextOk
    <3>2. IsGraph(c.db, "database") /\ x \in Aliases(g)
      BY <2>4 DEF ContextNamed
    <3>3. ManifestOk(g) /\ ToSet(g.snapshots) = {g.snapshots[m] : m \in DOMAIN g.snapshots}
      BY <1>1, <1>3, <3>2, NamedGraph
    <3>4. SnapshotOf(g, x).dependencies \subseteq Needs(g, x)
      BY <3>2, <3>3, NeedsClosed
    <3>5. ~Materialized(c)
      BY <3>1, <3>4 DEF Materialized
    <3>6. NotClosed
      BY <2>2, <3>5 DEF NotClosed
    <3> QED
      BY <1>1, <2>1, <3>6, LoadAnswers
  <2> QED
    BY <2>3, <2>4
<1>7. CASE n <= Len(File.contexts) /\ ContextOk(c) /\ ~\E m \in 1 .. n - 1 : File.contexts[m].id = c.id
  <2>1. progress' = [progress EXCEPT !.n = @ + 1] /\ request' = request
    BY <1>1, <1>2, <1>7 DEF LoadContext
  <2>2. progress' = [pc |-> "load.context", n |-> n + 1, extension |-> progress.extension,
                     pending |-> progress.pending, seen |-> progress.seen]
    BY <1>1, <2>1
  <2>3. LoadTypeOK'
    <3>1. "load.context" \in LoadSteps /\ n + 1 \in Nat \ {0}
      BY <1>1 DEF LoadSteps
    <3> QED
      BY <1>1, <2>1, <2>2, <3>1, LoadKeepsTypes
  <2>4. \A m \in 1 .. n : m \in DOMAIN File.contexts => ContextOk(File.contexts[m])
    <3> TAKE m \in 1 .. n
    <3>1. m \in 1 .. n - 1 \/ m = n
      BY <1>1
    <3> QED
      BY <1>3, <1>7, <3>1
  <2>5. progress'.pc = "load.context" /\ progress'.n - 1 = n
    BY <1>1, <2>2
  <2>6. GraphsSound' /\ File' = File
    BY <1>3, <2>1, LoadGoesOn DEF GraphsSound
  <2>7. GraphsInv' /\ WalkInv'
    BY <2>5 DEF GraphsInv, WalkInv
  <2>8. ContextsInv'
    BY <2>1, <2>4, <2>5, <2>6, LoadGoesOn DEF ContextsInv
  <2> QED
    BY <2>1, <2>3, <2>7, <2>8, LoadGoesOn DEF LoadInv
<1> QED
  BY <1>1, <1>2, <1>4, <1>5, <1>6, <1>7

LEMMA LoadStep == LoadInv /\ [LoadNext]_vars => LoadInv'
<1> SUFFICES ASSUME LoadInv, [LoadNext]_vars PROVE LoadInv'
  OBVIOUS
<1>1. CASE LoadNext
  BY <1>1, LoadBegins, GraphLoads, ExtensionBegins, DependencyWalked, ContextLoads DEF LoadNext
<1>2. CASE UNCHANGED vars
  <2>1. request' = request /\ progress' = progress
    BY <1>2 DEF vars
  <2>2. File' = File /\ Graph' = Graph
    BY <2>1 DEF File, Graph
  <2>3. LoadTypeOK'
    BY <2>1 DEF LoadInv, LoadTypeOK
  <2>4. GraphsInv'
    BY <2>1, <2>2, LoadGoesOn DEF LoadInv, GraphsInv
  <2>5. WalkInv'
    BY <2>1, <2>2 DEF LoadInv, WalkInv
  <2>6. ContextsInv'
    BY <2>1, <2>2, LoadGoesOn DEF LoadInv, ContextsInv, GraphsSound
  <2> QED
    BY <2>1, <2>3, <2>4, <2>5, <2>6, LoadGoesOn DEF LoadInv
<1> QED
  BY <1>1, <1>2

(* A context whose extensions' own dependencies were looked at is closed:
   the extensions with PostgreSQL, which depends on nothing, are a set that
   has the dependencies of all its members.                                  *)
LEMMA ContextClosed ==
  ASSUME request.file \in RegistryFiles, GraphsSound, NEW c, ContextOk(c)
  PROVE  Materialized(c)
<1> DEFINE g == GraphNamed(c.db)
           postgres == PostgresOf(g)
           S == ToSet(c.extensions) \cup {postgres.alias}
<1>1. /\ IsGraph(c.db, "database") /\ ToSet(c.extensions) \subseteq Aliases(g)
      /\ \A x \in ToSet(c.extensions) : SnapshotOf(g, x).dependencies \subseteq S
  BY DEF ContextOk, ContextNamed
<1>2. /\ ManifestOk(g) /\ g.kind = "database"
      /\ ToSet(g.snapshots) = {g.snapshots[n] : n \in DOMAIN g.snapshots}
  BY <1>1, NamedGraph
<1>3. /\ Cardinality({n \in DOMAIN g.snapshots : g.snapshots[n].role = "postgres"}) = 1
      /\ postgres.dependencies = {}
  BY <1>2 DEF ManifestOk
<1>4. {n \in DOMAIN g.snapshots : g.snapshots[n].role = "postgres"} # {}
  BY <1>3, FS_EmptySet
<1>5. \E s \in ToSet(g.snapshots) : s.role = "postgres"
  BY <1>2, <1>4
<1>6. postgres \in ToSet(g.snapshots)
  BY <1>5 DEF PostgresOf
<1>7. PICK n \in DOMAIN g.snapshots : postgres = g.snapshots[n]
  BY <1>2, <1>6
<1>8. SnapshotOf(g, postgres.alias) = postgres
  BY <1>2, <1>7, SnapshotFound
<1>9. S \in SUBSET Aliases(g)
  BY <1>1, <1>7 DEF Aliases
<1>10. \A d \in S : SnapshotOf(g, d).dependencies \subseteq S
  BY <1>1, <1>3, <1>8
<1>11. ASSUME NEW x \in ToSet(c.extensions) PROVE Needs(g, x) \subseteq S
  <2>1. ClosedFor(g, x, S)
    BY <1>10, <1>11 DEF ClosedFor
  <2> QED
    BY <1>9, <2>1, NeedsLeast
<1> QED
  BY <1>11 DEF Materialized

(* Whatever the graphs, their snapshots and their dependencies: when load has
   looked, for each selected extension, at its own dependencies only, the
   choice of every accepted context is closed under chains of them, and each
   extension of each database graph reaches PostgreSQL; and a registry in
   order otherwise is refused only when one of the two is false
   (graph_registry.py:237-300, 382-402).                                     *)
THEOREM ContextsClosed == LoadSpec => []AcceptedContextsClosed
<1>1. LoadInv => AcceptedContextsClosed
  <2> SUFFICES ASSUME LoadInv PROVE AcceptedContextsClosed
    OBVIOUS
  <2>1. request.file \in RegistryFiles
    BY DEF LoadInv, LoadTypeOK
  <2>2. ASSUME request.status = "accepted" PROVE
          /\ \A c \in ToSet(File.contexts) : Materialized(c)
          /\ \A g \in Databases : \A x \in Extensions(g) : PostgresOf(g).alias \in Needs(g, x)
    <3>1. GraphsSound /\ \A c \in ToSet(File.contexts) : ContextOk(c)
      BY <2>2 DEF LoadInv, AnswerInv, Accepts
    <3>2. \A c \in ToSet(File.contexts) : Materialized(c)
      BY <2>1, <3>1, ContextClosed
    <3>3. ASSUME NEW g \in Databases, NEW x \in Extensions(g) PROVE PostgresOf(g).alias \in Needs(g, x)
      <4>1. /\ g \in ToSet(File.graphs) /\ g.kind = "database"
            /\ DOMAIN File.graphs = 1 .. Len(File.graphs)
            /\ ToSet(File.graphs) = {File.graphs[n] : n \in DOMAIN File.graphs}
            /\ ToSet(g.snapshots) = {g.snapshots[n] : n \in DOMAIN g.snapshots}
        BY <2>1, <3>3, FileIs DEF Databases
      <4>2. PICK n \in 1 .. Len(File.graphs) : g = File.graphs[n]
        BY <4>1
      <4>3. PICK s \in ToSet(g.snapshots) : s.role = "extension" /\ s.alias = x
        BY <3>3 DEF Extensions
      <4>4. PICK k \in DOMAIN g.snapshots : s = g.snapshots[k]
        BY <4>1, <4>3
      <4>5. ExtensionSound(g, k)
        BY <3>1, <4>1, <4>2, <4>4 DEF GraphsSound, GraphSound
      <4> QED
        BY <4>3, <4>4, <4>5 DEF ExtensionSound
    <3> QED
      BY <3>2, <3>3
  <2>3. request.status = "rejected" /\ InOrder => NotClosed
    BY DEF LoadInv, AnswerInv
  <2> QED
    BY <2>2, <2>3 DEF AcceptedContextsClosed, NotClosed
<1> QED
  BY <1>1, LoadInitial, LoadStep, PTL DEF LoadSpec

-----------------------------------------------------------------------------
(***************************************************************************)
(* SymbolRelations.  What the queries list are the ends of paths, whatever  *)
(* the depth, and a path can be walked the other way.                       *)
(***************************************************************************)
StepsFrom(g, edges, start) == {e \in edges : Inside(g, e[2], Snapshot(SymbolOf(g, start)))}
PathIn(steps, a, b, n) == \E p : p[0] = a /\ p[n] = b /\ \A i \in 0 .. n - 1 : <<p[i], p[i + 1]>> \in steps
Pairs(edges) == \A e \in edges : e = <<e[1], e[2]>>

(* A path gets longer by a step at its end.                                  *)
LEMMA PathOfOne == ASSUME NEW steps, NEW a, NEW b PROVE PathIn(steps, a, b, 1) <=> <<a, b>> \in steps
<1>1. ASSUME PathIn(steps, a, b, 1) PROVE <<a, b>> \in steps
  <2>1. PICK p : p[0] = a /\ p[1] = b /\ \A i \in 0 .. 1 - 1 : <<p[i], p[i + 1]>> \in steps
    BY <1>1 DEF PathIn
  <2> QED
    BY <2>1
<1>2. ASSUME <<a, b>> \in steps PROVE PathIn(steps, a, b, 1)
  <2> DEFINE p == [i \in 0 .. 1 |-> IF i = 0 THEN a ELSE b]
  <2>1. p[0] = a /\ p[1] = b /\ \A i \in 0 .. 1 - 1 : <<p[i], p[i + 1]>> \in steps
    BY <1>2
  <2> HIDE DEF p
  <2> QED
    BY <2>1 DEF PathIn
<1> QED
  BY <1>1, <1>2

LEMMA PathGrows ==
  ASSUME NEW steps, NEW a, NEW b, NEW n \in Nat \ {0}
  PROVE  PathIn(steps, a, b, n + 1) <=> \E c : PathIn(steps, a, c, n) /\ <<c, b>> \in steps
<1>1. ASSUME PathIn(steps, a, b, n + 1) PROVE \E c : PathIn(steps, a, c, n) /\ <<c, b>> \in steps
  <2>1. PICK p : p[0] = a /\ p[n + 1] = b /\ \A i \in 0 .. (n + 1) - 1 : <<p[i], p[i + 1]>> \in steps
    BY <1>1 DEF PathIn
  <2>2. \A i \in 0 .. n : <<p[i], p[i + 1]>> \in steps
    BY <2>1
  <2>3. PathIn(steps, a, p[n], n)
    BY <2>1, <2>2 DEF PathIn
  <2> QED
    BY <2>1, <2>2, <2>3
<1>2. ASSUME NEW c, PathIn(steps, a, c, n), <<c, b>> \in steps PROVE PathIn(steps, a, b, n + 1)
  <2>1. PICK p : p[0] = a /\ p[n] = c /\ \A i \in 0 .. n - 1 : <<p[i], p[i + 1]>> \in steps
    BY <1>2 DEF PathIn
  <2> DEFINE q == [i \in 0 .. n + 1 |-> IF i = n + 1 THEN b ELSE p[i]]
  <2>2. q[0] = a /\ q[n + 1] = b
    BY <2>1
  <2>3. ASSUME NEW i \in 0 .. (n + 1) - 1 PROVE <<q[i], q[i + 1]>> \in steps
    <3>1. CASE i = n
      BY <1>2, <2>1, <3>1
    <3>2. CASE i # n
      <4>1. i \in 0 .. n - 1 /\ q[i] = p[i] /\ q[i + 1] = p[i + 1]
        BY <3>2
      <4> QED
        BY <2>1, <4>1
    <3> QED
      BY <3>1, <3>2
  <2> HIDE DEF q
  <2> QED
    BY <2>2, <2>3 DEF PathIn
<1> QED
  BY <1>1, <1>2

LEMMA PathTurned ==
  ASSUME NEW steps, NEW turned, NEW a, NEW b, NEW n \in Nat \ {0}, PathIn(steps, a, b, n),
         \A x, y : <<x, y>> \in steps /\ (y = b \/ \E z : <<y, z>> \in steps)
                     /\ (x = a \/ \E z : <<z, x>> \in steps) => <<y, x>> \in turned
  PROVE  PathIn(turned, b, a, n)
<1>1. PICK p : p[0] = a /\ p[n] = b /\ \A i \in 0 .. n - 1 : <<p[i], p[i + 1]>> \in steps
  BY DEF PathIn
<1> DEFINE q == [i \in 0 .. n |-> p[n - i]]
<1>2. q[0] = b /\ q[n] = a
  BY <1>1
<1>3. ASSUME NEW i \in 0 .. n - 1 PROVE <<q[i], q[i + 1]>> \in turned
  <2> DEFINE j == n - (i + 1)
  <2>1. j \in 0 .. n - 1 /\ q[i] = p[j + 1] /\ q[i + 1] = p[j]
    BY <1>3
  <2>2. <<p[j], p[j + 1]>> \in steps
    BY <1>1, <2>1
  <2>3. p[j + 1] = b \/ \E z : <<p[j + 1], z>> \in steps
    <3>1. CASE j + 1 = n
      BY <1>1, <3>1
    <3>2. CASE j + 1 # n
      <4>1. j + 1 \in 0 .. n - 1
        BY <2>1, <3>2
      <4> QED
        BY <1>1, <4>1
    <3> QED
      BY <3>1, <3>2
  <2>4. p[j] = a \/ \E z : <<z, p[j]>> \in steps
    <3>1. CASE j = 0
      BY <1>1, <3>1
    <3>2. CASE j # 0
      <4>1. j - 1 \in 0 .. n - 1 /\ (j - 1) + 1 = j
        BY <2>1, <3>2
      <4> QED
        BY <1>1, <4>1
    <3> QED
      BY <3>1, <3>2
  <2> QED
    BY <2>1, <2>2, <2>3, <2>4
<1> HIDE DEF q
<1> QED
  BY <1>2, <1>3 DEF PathIn

(* The levels of Within are the ends of the paths up to that length.         *)
LEMMA WithinPaths ==
  ASSUME NEW g, NEW edges, Pairs(edges), NEW start, NEW depth \in Nat \ {0}, NEW k
  PROVE  k \in Within(g, edges, start, depth) <=>
           \E n \in 1 .. depth : PathIn(StepsFrom(g, edges, start), start, k, n)
<1> DEFINE snapshot == Snapshot(SymbolOf(g, start))
           steps == StepsFrom(g, edges, start)
           Next1(keys) == {e[2] : e \in {f \in edges : f[1] \in keys /\ Inside(g, f[2], snapshot)}}
           X == SUBSET {e[2] : e \in edges}
           Is(L) == L = [n \in 1 .. depth |-> IF n = 1 THEN Next1({start}) ELSE L[n - 1] \cup Next1(L[n - 1])]
           Level == CHOOSE L : Is(L)
<1>1. Within(g, edges, start, depth) = Level[depth]
  BY DEF Within
<1>2. \E L : Is(L)
  <2> DEFINE step == [s \in Nat \X X |-> s[2] \cup Next1(s[2])]
  <2>1. Next1({start}) \in X /\ step \in [Nat \X X -> X]
    OBVIOUS
  <2>2. PICK f \in [Nat -> X] : Unfolds(f, Next1({start}), step)
    <3> HIDE DEF step, X, Next1
    <3> QED
      BY <2>1, Recursion, Zenon
  <2>3. \A n \in Nat \ {0} : f[n] = f[n - 1] \cup Next1(f[n - 1])
    <3>1. \A n \in Nat, x \in X : step[<<n, x>>] = x \cup Next1(x)
      <4> HIDE DEF X, Next1
      <4> QED
        OBVIOUS
    <3>2. \A n \in Nat \ {0} : n \in Nat /\ f[n - 1] \in X
      <4> HIDE DEF X, Next1, step
      <4> QED
        BY <2>2
    <3> HIDE DEF X, Next1, step
    <3> QED
      BY <2>2, <3>1, <3>2 DEF Unfolds
  <2> HIDE DEF Next1, X, step
  <2> DEFINE L == [n \in 1 .. depth |-> f[n - 1]]
  <2>4. ASSUME NEW n \in 1 .. depth
        PROVE  L[n] = IF n = 1 THEN Next1({start}) ELSE L[n - 1] \cup Next1(L[n - 1])
    <3>1. CASE n = 1
      BY <2>2, <3>1 DEF Unfolds
    <3>2. CASE n # 1
      <4>1. n - 1 \in 1 .. depth /\ n - 1 \in Nat \ {0}
        BY <3>2
      <4>2. L[n] = f[n - 1] /\ L[n - 1] = f[(n - 1) - 1]
        BY <4>1
      <4> QED
        BY <2>3, <3>2, <4>1, <4>2
    <3> QED
      BY <3>1, <3>2
  <2>5. Is(L)
    BY <2>4
  <2> QED
    BY <2>5
<1>3. Is(Level)
  <2> HIDE DEF Is
  <2> QED
    BY <1>2
<1>4. \A keys, y : y \in Next1(keys) <=> \E x \in keys : <<x, y>> \in steps
  <2> SUFFICES ASSUME NEW keys, NEW y PROVE y \in Next1(keys) <=> \E x \in keys : <<x, y>> \in steps
    OBVIOUS
  <2>1. ASSUME y \in Next1(keys) PROVE \E x \in keys : <<x, y>> \in steps
    <3>1. PICK e \in edges : e[1] \in keys /\ Inside(g, e[2], snapshot) /\ y = e[2]
      BY <2>1
    <3>2. e = <<e[1], y>>
      BY <3>1 DEF Pairs
    <3> QED
      BY <3>1, <3>2 DEF StepsFrom
  <2>2. ASSUME NEW x \in keys, <<x, y>> \in steps PROVE y \in Next1(keys)
    <3>1. <<x, y>> \in edges /\ Inside(g, y, snapshot)
      BY <2>2 DEF StepsFrom
    <3> QED
      BY <3>1
  <2> QED
    BY <2>1, <2>2
<1> HIDE DEF steps
<1> DEFINE R == {m \in Nat : m + 1 <= depth =>
                   \A y : y \in Level[m + 1] <=> \E n \in 1 .. m + 1 : PathIn(steps, start, y, n)}
<1>5. /\ Level[1] = Next1({start})
      /\ \A n \in 2 .. depth : Level[n] = Level[n - 1] \cup Next1(Level[n - 1])
  <2> HIDE DEF Level, Next1
  <2>1. Level = [n \in 1 .. depth |-> IF n = 1 THEN Next1({start}) ELSE Level[n - 1] \cup Next1(Level[n - 1])]
    BY <1>3
  <2>2. Level[1] = Next1({start})
    BY <2>1
  <2>3. ASSUME NEW n \in 2 .. depth PROVE Level[n] = Level[n - 1] \cup Next1(Level[n - 1])
    <3>1. n \in 1 .. depth /\ n # 1
      OBVIOUS
    <3> QED
      BY <2>1, <3>1, Zenon
  <2> QED
    BY <2>2, <2>3
<1> HIDE DEF Level, Next1
<1>6. 0 \in R
  <2>1. \A y : y \in Level[1] <=> <<start, y>> \in steps
    <3> TAKE y
    <3>1. y \in Next1({start}) <=> \E x \in {start} : <<x, y>> \in steps
      BY <1>4, Zenon
    <3> QED
      BY <1>5, <3>1
  <2>2. \A y : y \in Level[1] <=> PathIn(steps, start, y, 1)
    BY <2>1, PathOfOne
  <2> QED
    BY <2>2
<1>7. ASSUME NEW m \in Nat, m \in R PROVE m + 1 \in R
  <2> SUFFICES ASSUME (m + 1) + 1 <= depth, NEW y
               PROVE  y \in Level[(m + 1) + 1] <=> \E n \in 1 .. (m + 1) + 1 : PathIn(steps, start, y, n)
    OBVIOUS
  <2> DEFINE r == m + 1
  <2>1. r \in Nat \ {0} /\ r + 1 \in 2 .. depth /\ (r + 1) - 1 = r /\ r <= depth
    OBVIOUS
  <2>2. Level[r + 1] = Level[r] \cup Next1(Level[r])
    BY <1>5, <2>1
  <2>3. \A x : x \in Level[r] <=> \E n \in 1 .. r : PathIn(steps, start, x, n)
    BY <1>7, <2>1
  <2> HIDE DEF r
  <2>4. ASSUME y \in Level[r + 1] PROVE \E n \in 1 .. r + 1 : PathIn(steps, start, y, n)
    <3>1. CASE y \in Level[r]
      <4>1. PICK n \in 1 .. r : PathIn(steps, start, y, n)
        BY <2>3, <3>1
      <4>2. n \in 1 .. r + 1
        BY <2>1
      <4> QED
        BY <4>1, <4>2
    <3>2. CASE y \in Next1(Level[r])
      <4>1. PICK x \in Level[r] : <<x, y>> \in steps
        BY <1>4, <3>2
      <4>2. PICK n \in 1 .. r : PathIn(steps, start, x, n)
        BY <2>3, <4>1
      <4>3. n \in Nat \ {0} /\ n + 1 \in 1 .. r + 1
        BY <2>1
      <4>4. PathIn(steps, start, y, n + 1)
        BY <4>1, <4>2, <4>3, PathGrows
      <4> QED
        BY <4>3, <4>4
    <3> QED
      BY <2>2, <2>4, <3>1, <3>2
  <2>5. ASSUME NEW n \in 1 .. r + 1, PathIn(steps, start, y, n) PROVE y \in Level[r + 1]
    <3>1. CASE n \in 1 .. r
      BY <2>2, <2>3, <2>5, <3>1
    <3>2. CASE n = r + 1
      <4>1. PICK x : PathIn(steps, start, x, r) /\ <<x, y>> \in steps
        BY <2>1, <2>5, <3>2, PathGrows
      <4>2. x \in Level[r]
        BY <2>1, <2>3, <4>1
      <4> QED
        BY <1>4, <2>2, <4>1, <4>2
    <3> QED
      BY <2>1, <3>1, <3>2
  <2> QED
    BY <2>4, <2>5 DEF r
<1>8. Nat \subseteq R
  <2> HIDE DEF R
  <2> QED
    BY <1>6, <1>7, Induction
<1>9. depth - 1 \in R /\ (depth - 1) + 1 = depth
  <2> HIDE DEF R
  <2> QED
    BY <1>8
<1> QED
  BY <1>1, <1>9 DEF steps

(* What is listed lies in the snapshot of the symbol it was listed for.      *)
LEMMA PathArrives ==
  ASSUME NEW steps, NEW a, NEW b, NEW n \in Nat \ {0}, PathIn(steps, a, b, n)
  PROVE  \E c : <<c, b>> \in steps
<1>1. CASE n = 1
  BY <1>1, PathOfOne
<1>2. CASE n # 1
  <2>1. n - 1 \in Nat \ {0} /\ (n - 1) + 1 = n
    BY <1>2
  <2> QED
    BY <2>1, PathGrows
<1> QED
  BY <1>1, <1>2

LEMMA SymbolFound ==
  ASSUME NEW g \in CodeGraphs, NEW s \in g.symbols
  PROVE  SymbolOf(g, s.key) = s /\ Inside(g, s.key, Snapshot(s))
BY GraphsAssumption DEF SymbolOf, Inside

LEMMA InsideFound ==
  ASSUME NEW g \in CodeGraphs, NEW k, NEW snapshot, Inside(g, k, snapshot)
  PROVE  SymbolOf(g, k) \in g.symbols /\ SymbolOf(g, k).key = k /\ Snapshot(SymbolOf(g, k)) = snapshot
<1>1. PICK s \in g.symbols : s.key = k /\ Snapshot(s) = snapshot
  BY DEF Inside
<1> QED
  BY <1>1, SymbolFound

LEMMA WithinInside ==
  ASSUME NEW g \in CodeGraphs, NEW edges, Pairs(edges), NEW start, NEW depth \in Nat \ {0},
         NEW k \in Within(g, edges, start, depth)
  PROVE  Inside(g, k, Snapshot(SymbolOf(g, start)))
<1>1. PICK n \in 1 .. depth : PathIn(StepsFrom(g, edges, start), start, k, n)
  BY WithinPaths
<1>2. PICK c : <<c, k>> \in StepsFrom(g, edges, start)
  <2>1. n \in Nat \ {0}
    OBVIOUS
  <2> QED
    BY <1>1, <2>1, PathArrives
<1> QED
  BY <1>2 DEF StepsFrom

(* Who is listed for a symbol has the symbol in its own list.                *)
LEMMA WithinTurned ==
  ASSUME NEW g \in CodeGraphs, NEW edges, NEW back, Pairs(edges), Pairs(back),
         \A x, y : <<x, y>> \in edges => <<y, x>> \in back,
         NEW s \in g.symbols, NEW depth \in Nat \ {0}, NEW k \in Within(g, edges, s.key, depth)
  PROVE  s.key \in Within(g, back, k, depth)
<1> DEFINE steps == StepsFrom(g, edges, s.key)
           turned == StepsFrom(g, back, k)
<1>1. PICK n \in 1 .. depth : PathIn(steps, s.key, k, n)
  BY WithinPaths
<1>2. Snapshot(SymbolOf(g, s.key)) = Snapshot(s) /\ Inside(g, s.key, Snapshot(s))
  BY SymbolFound
<1>3. Snapshot(SymbolOf(g, k)) = Snapshot(s)
  BY <1>2, WithinInside, InsideFound
<1>4. \A x, y : <<x, y>> \in steps => <<x, y>> \in edges /\ Inside(g, y, Snapshot(s))
  BY <1>2 DEF StepsFrom
<1>5. \A x, y : <<y, x>> \in back /\ Inside(g, x, Snapshot(s)) => <<y, x>> \in turned
  BY <1>3 DEF StepsFrom
<1> HIDE DEF steps, turned
<1>6. \A x, y : <<x, y>> \in steps /\ (y = k \/ \E z : <<y, z>> \in steps)
                  /\ (x = s.key \/ \E z : <<z, x>> \in steps) => <<y, x>> \in turned
  BY <1>2, <1>4, <1>5
<1>7. PathIn(turned, k, s.key, n)
  <2>1. n \in Nat \ {0}
    OBVIOUS
  <2> QED
    BY <1>1, <1>6, <2>1, PathTurned
<1> QED
  BY <1>7, WithinPaths DEF turned

LEMMA EdgesArePairs ==
  ASSUME NEW g \in CodeGraphs
  PROVE  /\ Pairs(g.exact) /\ Pairs(g.inherits) /\ Pairs(Turned(g.exact)) /\ Pairs(Turned(g.inherits))
         /\ \A k : Pairs(Sited(g, k)) /\ Pairs(Turned(Sited(g, k)))
         /\ \A edges : Pairs(edges) => \A x, y : <<x, y>> \in Turned(edges) <=> <<y, x>> \in edges
<1>1. Pairs(g.exact) /\ Pairs(g.inherits)
  BY GraphsAssumption DEF Pairs
<1>2. \A k : Pairs(Sited(g, k))
  BY DEF Sited, Pairs
<1>3. \A edges : Pairs(Turned(edges))
  BY DEF Turned, Pairs
<1>4. ASSUME NEW edges, Pairs(edges), NEW x, NEW y PROVE <<x, y>> \in Turned(edges) <=> <<y, x>> \in edges
  <2>1. ASSUME <<x, y>> \in Turned(edges) PROVE <<y, x>> \in edges
    <3>1. PICK e \in edges : <<x, y>> = <<e[2], e[1]>>
      BY <2>1 DEF Turned
    <3>2. e = <<e[1], e[2]>> /\ x = e[2] /\ y = e[1]
      BY <1>4, <3>1 DEF Pairs
    <3> QED
      BY <3>2
  <2>2. ASSUME <<y, x>> \in edges PROVE <<x, y>> \in Turned(edges)
    BY <2>2 DEF Turned
  <2> QED
    BY <2>1, <2>2
<1> QED
  BY <1>1, <1>2, <1>3, <1>4

(* The symbol that was resolved is one of the graph.                         *)
LEMMA ResolvedSymbol ==
  ASSUME NEW g, NEW q, ResolveSymbol(g, q).status = "ok"
  PROVE  ResolveSymbol(g, q).symbol \in g.symbols
<1>1. \A found, ambiguous : Unique(found, ambiguous).status = "ok" /\ ambiguous # "ok" =>
                              Unique(found, ambiguous).symbol \in found
  <2> TAKE found, ambiguous
  <2>1. Cardinality(found) = 1 => found # {}
    BY FS_EmptySet
  <2> QED
    BY <2>1 DEF Unique, Failed
<1> DEFINE exact == {s \in g.symbols : s.label \in q.labels /\ s.key = q.identifier}
           named == {s \in InScope(g, q) : s.qname = q.identifier}
           ending == {s \in InScope(g, q) : EndsWith(s.qname, q.identifier)}
<1>2. named \subseteq g.symbols /\ ending \subseteq g.symbols /\ exact \subseteq g.symbols
  BY DEF InScope
<1>3. CASE exact # {}
  <2>1. ResolveSymbol(g, q) = ByKey(CHOOSE s \in exact : TRUE, q)
    BY <1>3 DEF ResolveSymbol
  <2>2. (CHOOSE s \in exact : TRUE) \in g.symbols
    BY <1>3
  <2> QED
    BY <2>1, <2>2 DEF ByKey, Failed
<1>4. CASE exact = {}
  <2>1. ResolveSymbol(g, q) = ByName(g, q, named)
    BY <1>4 DEF ResolveSymbol, Failed
  <2>2. CASE named # {}
    <3>1. ByName(g, q, named) = Unique(named, "ambiguous")
      BY <2>2 DEF ByName
    <3> QED
      BY <1>1, <1>2, <2>1, <3>1
  <2>3. CASE named = {}
    <3>1. ByName(g, q, named) = Unique(ending, "ambiguous")
      BY <2>1, <2>3 DEF ByName, BySuffix, Failed
    <3> QED
      BY <1>1, <1>2, <2>1, <3>1
  <2> QED
    BY <2>2, <2>3
<1> QED
  BY <1>3, <1>4

-----------------------------------------------------------------------------
Nothing == [callers |-> {}, callees |-> {}, ancestors |-> {}, descendants |-> {}]
RowsAbout(g, key, depth) ==
  [callers     |-> Callers(g, key, depth),
   callees     |-> Callees(g, key, depth),
   ancestors   |-> Hierarchy(g, key, "ancestors", depth),
   descendants |-> Hierarchy(g, key, "descendants", depth)]
(* A request is new, or it is answered with the rows of the resolved symbol. *)
RelationsInv ==
  \E g \in CodeGraphs, q \in SymbolQuestions, depth \in CallDepths :
    \/ request = [tool |-> "relations", graph |-> g, question |-> q, depth |-> depth,
                  selected |-> None, rows |-> Nothing, status |-> "new"]
    \/ LET found == ResolveSymbol(g, q)
       IN  request = [tool |-> "relations", graph |-> g, question |-> q, depth |-> depth,
                      selected |-> found.symbol, status |-> found.status,
                      rows |-> IF found.status = "ok" THEN RowsAbout(g, found.symbol.key, depth) ELSE Nothing]

LEMMA RelationsInvariant == RelationsSpec => []RelationsInv
<1>1. RelationsInit => RelationsInv
  BY DEF RelationsInit, RelationsInv, Nothing
<1>2. RelationsInv /\ [RelationsNext]_vars => RelationsInv'
  <2> SUFFICES ASSUME RelationsInv, [RelationsNext]_vars PROVE RelationsInv'
    OBVIOUS
  <2>1. CASE AskRelations
    <3>1. PICK g \in CodeGraphs, q \in SymbolQuestions, depth \in CallDepths :
            \/ request = [tool |-> "relations", graph |-> g, question |-> q, depth |-> depth,
                          selected |-> None, rows |-> Nothing, status |-> "new"]
            \/ LET found == ResolveSymbol(g, q)
               IN  request = [tool |-> "relations", graph |-> g, question |-> q, depth |-> depth,
                              selected |-> found.symbol, status |-> found.status,
                              rows |-> IF found.status = "ok" THEN RowsAbout(g, found.symbol.key, depth)
                                       ELSE Nothing]
      BY DEF RelationsInv
    <3> DEFINE found == ResolveSymbol(g, q)
    <3>2. /\ request.graph = g /\ request.question = q /\ request.depth = depth /\ request.tool = "relations"
          /\ request = [tool |-> "relations", graph |-> g, question |-> q, depth |-> depth,
                        selected |-> request.selected, rows |-> request.rows, status |-> request.status]
          /\ found.status # "ok" => request.rows = Nothing
      BY <3>1
    <3>3. Relate(g, depth, found)
      BY <2>1, <3>2 DEF AskRelations
    <3> HIDE DEF found
    <3>4. request' = [request EXCEPT !.status = found.status, !.selected = found.symbol,
                        !.rows = IF found.status # "ok" THEN @ ELSE RowsAbout(g, found.symbol.key, depth)]
      BY <3>3 DEF Relate, RowsAbout
    <3>5. request' = [tool |-> "relations", graph |-> g, question |-> q, depth |-> depth,
                      selected |-> found.symbol, status |-> found.status,
                      rows |-> IF found.status = "ok" THEN RowsAbout(g, found.symbol.key, depth) ELSE Nothing]
      BY <3>2, <3>4
    <3> QED
      BY <3>5 DEF RelationsInv, found
  <2>2. CASE UNCHANGED vars
    BY <2>2 DEF vars, RelationsInv
  <2> QED
    BY <2>1, <2>2 DEF RelationsNext
<1> QED
  BY <1>1, <1>2, PTL DEF RelationsSpec

(* The facts about one symbol of a graph.                                    *)
LEMMA CallersAreCallees ==
  ASSUME NEW g \in CodeGraphs, NEW s \in g.symbols, NEW d \in Nat \ {0}
  PROVE  /\ \A k \in Callers(g, s.key, d) : s.key \in Callees(g, k, d) /\ Inside(g, k, Snapshot(s))
         /\ \A k \in Callees(g, s.key, d) : s.key \in Callers(g, k, d) /\ Inside(g, k, Snapshot(s))
<1>1. Snapshot(SymbolOf(g, s.key)) = Snapshot(s)
  BY SymbolFound
<1>2. \A k : Inside(g, k, Snapshot(s)) => Sited(g, k) = Sited(g, s.key)
  BY <1>1, InsideFound DEF Sited
<1>3. CASE d = 1
  <2>1. ASSUME NEW k \in Callers(g, s.key, d) PROVE s.key \in Callees(g, k, d) /\ Inside(g, k, Snapshot(s))
    <3>1. k \in Within(g, Turned(Sited(g, s.key)), s.key, 1)
      BY <1>3, <2>1 DEF Callers
    <3>2. Inside(g, k, Snapshot(s))
      BY <1>1, <3>1, EdgesArePairs, WithinInside
    <3>3. s.key \in Within(g, Sited(g, s.key), k, 1)
      BY <3>1, EdgesArePairs, WithinTurned
    <3> QED
      BY <1>2, <1>3, <3>2, <3>3 DEF Callees
  <2>2. ASSUME NEW k \in Callees(g, s.key, d) PROVE s.key \in Callers(g, k, d) /\ Inside(g, k, Snapshot(s))
    <3>1. k \in Within(g, Sited(g, s.key), s.key, 1)
      BY <1>3, <2>2 DEF Callees
    <3>2. Inside(g, k, Snapshot(s))
      BY <1>1, <3>1, EdgesArePairs, WithinInside
    <3>3. s.key \in Within(g, Turned(Sited(g, s.key)), k, 1)
      BY <3>1, EdgesArePairs, WithinTurned
    <3> QED
      BY <1>2, <1>3, <3>2, <3>3 DEF Callers
  <2> QED
    BY <2>1, <2>2
<1>4. CASE d # 1
  <2>1. ASSUME NEW k \in Callers(g, s.key, d) PROVE s.key \in Callees(g, k, d) /\ Inside(g, k, Snapshot(s))
    <3>1. k \in Within(g, Turned(g.exact), s.key, d)
      BY <1>4, <2>1 DEF Callers
    <3>2. Inside(g, k, Snapshot(s))
      BY <1>1, <3>1, EdgesArePairs, WithinInside
    <3>3. s.key \in Within(g, g.exact, k, d)
      BY <3>1, EdgesArePairs, WithinTurned
    <3> QED
      BY <1>4, <3>2, <3>3 DEF Callees
  <2>2. ASSUME NEW k \in Callees(g, s.key, d) PROVE s.key \in Callers(g, k, d) /\ Inside(g, k, Snapshot(s))
    <3>1. k \in Within(g, g.exact, s.key, d)
      BY <1>4, <2>2 DEF Callees
    <3>2. Inside(g, k, Snapshot(s))
      BY <1>1, <3>1, EdgesArePairs, WithinInside
    <3>3. s.key \in Within(g, Turned(g.exact), k, d)
      BY <3>1, EdgesArePairs, WithinTurned
    <3> QED
      BY <1>4, <3>2, <3>3 DEF Callers
  <2> QED
    BY <2>1, <2>2
<1> QED
  BY <1>3, <1>4

LEMMA AncestorsAreDescendants ==
  ASSUME NEW g \in CodeGraphs, NEW s \in g.symbols, NEW d \in Nat \ {0}
  PROVE  /\ \A k \in Hierarchy(g, s.key, "ancestors", d) :
              s.key \in Hierarchy(g, k, "descendants", d) /\ Inside(g, k, Snapshot(s))
         /\ \A k \in Hierarchy(g, s.key, "descendants", d) : Inside(g, k, Snapshot(s))
<1>1. Snapshot(SymbolOf(g, s.key)) = Snapshot(s)
  BY SymbolFound
<1>2. \A k : /\ Hierarchy(g, k, "ancestors", d) = Within(g, g.inherits, k, d)
             /\ Hierarchy(g, k, "descendants", d) = Within(g, Turned(g.inherits), k, d)
  BY DEF Hierarchy
<1>3. ASSUME NEW k \in Within(g, g.inherits, s.key, d)
      PROVE  s.key \in Within(g, Turned(g.inherits), k, d) /\ Inside(g, k, Snapshot(s))
  BY <1>1, EdgesArePairs, WithinInside, WithinTurned
<1>4. ASSUME NEW k \in Within(g, Turned(g.inherits), s.key, d) PROVE Inside(g, k, Snapshot(s))
  BY <1>1, EdgesArePairs, WithinInside
<1> QED
  BY <1>2, <1>3, <1>4

LEMMA PathIsTraced ==
  ASSUME NEW g \in CodeGraphs, NEW s, NEW k, NEW d \in Nat \ {0}, d > 1
  PROVE  PathLength(g, s, k, d) # None <=> k \in Callees(g, s, d)
<1> DEFINE lengths == {n \in 1 .. d : k \in Within(g, g.exact, s, n)}
<1>1. Pairs(g.exact)
  BY EdgesArePairs
<1>2. lengths # {} <=> k \in Within(g, g.exact, s, d)
  <2>1. ASSUME NEW n \in lengths PROVE k \in Within(g, g.exact, s, d)
    <3>1. n \in Nat \ {0} /\ k \in Within(g, g.exact, s, n) /\ n \in 1 .. d
      BY <2>1
    <3>2. PICK m \in 1 .. n : PathIn(StepsFrom(g, g.exact, s), s, k, m)
      BY <1>1, <3>1, WithinPaths
    <3>3. m \in 1 .. d
      BY <3>1
    <3> QED
      BY <1>1, <3>2, <3>3, WithinPaths
  <2>2. d \in 1 .. d
    OBVIOUS
  <2> QED
    BY <2>1, <2>2
<1>3. lengths # {} => Min(lengths) \in Nat
  <2>1. lengths \in SUBSET Nat
    OBVIOUS
  <2> HIDE DEF lengths
  <2> QED
    BY <2>1, LeastMember
<1>4. PathLength(g, s, k, d) = IF lengths = {} THEN None ELSE Min(lengths)
  BY DEF PathLength
<1>5. Callees(g, s, d) = Within(g, g.exact, s, d)
  BY DEF Callees
<1> QED
  BY <1>2, <1>3, <1>4, <1>5, GraphsAssumption

LEMMA DeadHasNoCallers ==
  ASSUME NEW g \in CodeGraphs, NEW s \in g.symbols, NEW repo, s.key \in DeadCode(g, repo, None)
  PROVE  Callers(g, s.key, 1) = {}
<1>1. PICK t \in g.symbols : t.key = s.key /\ ~\E c \in SitesOf(g, Snapshot(t)) : c.callee = t.key
  BY DEF DeadCode
<1>2. t = s
  BY <1>1, GraphsAssumption
<1> SUFFICES ASSUME NEW k \in Callers(g, s.key, 1) PROVE FALSE
  OBVIOUS
<1>3. k \in Within(g, Turned(Sited(g, s.key)), s.key, 1)
  BY DEF Callers
<1>4. PICK n \in 1 .. 1 : PathIn(StepsFrom(g, Turned(Sited(g, s.key)), s.key), s.key, k, n)
  BY <1>3, EdgesArePairs, WithinPaths
<1>5. <<s.key, k>> \in StepsFrom(g, Turned(Sited(g, s.key)), s.key)
  BY <1>4, PathOfOne
<1>6. <<k, s.key>> \in Sited(g, s.key)
  BY <1>5, EdgesArePairs DEF StepsFrom
<1>7. PICK c \in SitesOf(g, Snapshot(SymbolOf(g, s.key))) : <<k, s.key>> = <<c.caller, c.callee>>
  BY <1>6 DEF Sited
<1> QED
  BY <1>1, <1>2, <1>7, SymbolFound

(* For every graph, every symbol of it and every depth: the answers of the
   queries for callers, callees, ancestors, descendants, paths and unreferenced
   functions agree, and none leaves the snapshot (code.py:782-1046).           *)
THEOREM QueriesAgree == RelationsSpec => []RelationsAgree
<1>1. RelationsInv => RelationsAgree
  <2> SUFFICES ASSUME RelationsInv, request.status = "ok" PROVE RelationsAgree
    BY DEF RelationsAgree
  <2>1. PICK g \in CodeGraphs, q \in SymbolQuestions, d \in CallDepths :
          LET found == ResolveSymbol(g, q)
          IN  request = [tool |-> "relations", graph |-> g, question |-> q, depth |-> d,
                         selected |-> found.symbol, status |-> found.status,
                         rows |-> IF found.status = "ok" THEN RowsAbout(g, found.symbol.key, d) ELSE Nothing]
    BY DEF RelationsInv
  <2> DEFINE s == request.selected
  <2>2. ResolveSymbol(g, q).status = "ok" /\ s = ResolveSymbol(g, q).symbol
    BY <2>1
  <2>3. request.graph = g /\ request.depth = d /\ request.rows = RowsAbout(g, s.key, d)
    BY <2>1, <2>2
  <2>4. s \in g.symbols /\ d \in Nat \ {0}
    BY <2>2, ResolvedSymbol, GraphsAssumption
  <2> HIDE DEF s
  <2>5. \A k : Inside(g, k, Snapshot(s)) => Snapshot(SymbolOf(g, k)) = Snapshot(s)
    BY InsideFound
  <2>6. /\ \A k \in Callers(g, s.key, d) : s.key \in Callees(g, k, d) /\ Inside(g, k, Snapshot(s))
        /\ \A k \in Callees(g, s.key, d) : s.key \in Callers(g, k, d) /\ Inside(g, k, Snapshot(s))
    BY <2>4, CallersAreCallees
  <2>7. /\ \A k \in Hierarchy(g, s.key, "ancestors", d) :
             s.key \in Hierarchy(g, k, "descendants", d) /\ Inside(g, k, Snapshot(s))
        /\ \A k \in Hierarchy(g, s.key, "descendants", d) : Inside(g, k, Snapshot(s))
    BY <2>4, AncestorsAreDescendants
  <2>8. /\ request.rows.callers = Callers(g, s.key, d) /\ request.rows.callees = Callees(g, s.key, d)
        /\ request.rows.ancestors = Hierarchy(g, s.key, "ancestors", d)
        /\ request.rows.descendants = Hierarchy(g, s.key, "descendants", d)
        /\ DOMAIN request.rows = {"callers", "callees", "ancestors", "descendants"}
    BY <2>3 DEF RowsAbout
  <2>9. \A f \in DOMAIN request.rows : \A k \in request.rows[f] : Snapshot(SymbolOf(g, k)) = Snapshot(s)
    BY <2>5, <2>6, <2>7, <2>8
  <2>10. ASSUME NEW k, d > 1 PROVE PathLength(g, s.key, k, d) # None <=> k \in request.rows.callees
    BY <2>4, <2>8, <2>10, PathIsTraced
  <2>11. s.key \in DeadCode(g, s.repo, None) => Callers(g, s.key, 1) = {}
    BY <2>4, DeadHasNoCallers
  <2> QED
    BY <2>3, <2>6, <2>7, <2>8, <2>9, <2>10, <2>11 DEF RelationsAgree, s
<1> QED
  BY <1>1, RelationsInvariant, PTL

-----------------------------------------------------------------------------
(***************************************************************************)
(* CatalogComparison.  The pages of one pair of generations are a prefix   *)
(* of their whole difference.                                              *)
(***************************************************************************)
CorpusL(d) == CorpusOf[d]["left"]
CorpusR(d) == CorpusOf[d]["right"]
Whole(d) == Difference(CorpusL(d), CorpusR(d))

PagesInv(d) ==
  request.origins = {SidesOf(d)} =>
    /\ request.offset <= Len(Whole(d)) /\ request.changes = SubSeq(Whole(d), 1, request.offset)
    /\ request.status = "complete" => request.offset = Len(Whole(d))

ComparisonInv ==
  /\ progress = Idle
  /\ request \in [tool : {"compare"}, served : Registries, limit : PageLimits, offset : Nat,
                  changes : {request.changes}, origins : SUBSET {SidesOf(d) : d \in Registries},
                  status : {"new", "more", "complete", "invalid_graph_or_context", "deadline_exceeded"}]
  /\ IsFiniteSet(request.origins)
  /\ request.origins = {} => request.offset = 0 /\ request.changes = <<>> /\ request.status # "complete"
  /\ \A d \in Registries : PagesInv(d)

(* The rows of a difference, as the query lists them.                        *)
LEMMA RowsAre ==
  ASSUME NEW l, NEW r
  PROVE  /\ Rows(l, r) \in Seq({Compared(l, r, id) : id \in ToSet(IdentityOrder)})
         /\ \A id \in ToSet(IdentityOrder) : Differs(l, r, id) => \E row \in ToSet(Rows(l, r)) : row.id = id
         /\ Difference(l, r) \in Seq({Compared(l, r, id) : id \in ToSet(IdentityOrder)})
<1> DEFINE T == ToSet(IdentityOrder)
           S == {id \in T : Differs(l, r, id)}
           ids == Among(IdentityOrder, S)
<1>1. IdentityOrder \in Seq(T)
  BY ComparisonAssumption
<1>2. ids \in Seq(T) /\ ToSet(ids) = S
  <2>1. ids \in Seq(T)
    <3> HIDE DEF T, S
    <3> QED
      BY <1>1, AmongGrows
  <2>2. ToSet(ids) = ToSet(IdentityOrder) \cap S
    <3> HIDE DEF T, S
    <3> QED
      BY <1>1, AmongMembers
  <2> QED
    BY <2>1, <2>2
<1>3. Rows(l, r) = [n \in DOMAIN ids |-> Compared(l, r, ids[n])]
  BY DEF Rows
<1> HIDE DEF ids
<1>4. ASSUME NEW id \in T, Differs(l, r, id) PROVE \E row \in ToSet(Rows(l, r)) : row.id = id
  <2>1. PICK n \in DOMAIN ids : ids[n] = id
    BY <1>2, <1>4 DEF ToSet
  <2>2. n \in DOMAIN Rows(l, r) /\ Rows(l, r)[n].id = id
    BY <1>3, <2>1 DEF Compared
  <2> QED
    BY <2>2 DEF ToSet
<1>5. Rows(l, r) \in Seq({Compared(l, r, id) : id \in T})
  <2>1. \A n \in 1 .. Len(ids) : ids[n] \in T
    BY <1>2
  <2> QED
    BY <1>2, <1>3, <2>1
<1>6. Difference(l, r) \in Seq({Compared(l, r, id) : id \in T})
  BY <1>5 DEF Difference
<1> QED
  BY <1>4, <1>5, <1>6

(* Meanings are finite, and no more than one is none or one.                 *)
LEMMA FewMeanings ==
  ASSUME NEW S, IsFiniteSet(S), ~(Cardinality(S) > 1)
  PROVE  S = {} \/ \E x : S = {x}
<1>1. Cardinality(S) \in Nat
  BY FS_CardinalityType
<1>2. Cardinality(S) = 0 \/ Cardinality(S) = 1
  BY <1>1
<1> QED
  BY <1>2, FS_EmptySet, FS_Singleton

LEMMA FiniteMeanings ==
  ASSUME NEW d \in Registries, NEW side \in {"left", "right"}, NEW id
  PROVE  IsFiniteSet(Meanings(CorpusOf[d][side], id))
<1> DEFINE corpus == CorpusOf[d][side]
           facts == {g \in Facts(corpus) : Identity(g) = id}
<1>1. IsFiniteSet(corpus.facts)
  BY ComparisonAssumption
<1>2. IsFiniteSet(facts)
  <2>1. facts \subseteq corpus.facts
    BY DEF Facts
  <2> HIDE DEF corpus, facts
  <2> QED
    BY <1>1, <2>1, FS_Subset
<1>3. IsFiniteSet({f.meaning : f \in facts})
  <2> HIDE DEF facts
  <2> DEFINE T == {f.meaning : f \in facts}
             m == [f \in facts |-> f.meaning]
  <2>1. m \in Surjection(facts, T)
    BY DEF Surjection
  <2> HIDE DEF m, T
  <2>2. IsFiniteSet(T)
    BY <1>2, <2>1, FS_Surjection
  <2> QED
    BY <2>2 DEF T
<1> QED
  BY <1>3 DEF Meanings

(* The other way round, additions and removals change places.                *)
LEMMA ChangeMirrored ==
  ASSUME NEW ls, NEW rs, IsFiniteSet(ls), IsFiniteSet(rs)
  PROVE  /\ Change(ls, rs) = "unchanged" <=> Change(rs, ls) = "unchanged"
         /\ ls # {} \/ rs # {} => Mirror(Change(ls, rs)) = Change(rs, ls)
<1>1. CASE Cardinality(ls) > 1 \/ Cardinality(rs) > 1
  BY <1>1 DEF Change, Mirror
<1>2. CASE ~(Cardinality(ls) > 1 \/ Cardinality(rs) > 1)
  <2>1. CASE ls = {} \/ rs = {}
    BY <1>2, <2>1 DEF Change, Mirror
  <2>2. CASE ls # {} /\ rs # {}
    <3> DEFINE x == CHOOSE l \in ls : TRUE
               y == CHOOSE r \in rs : TRUE
    <3> HIDE DEF x, y
    <3>1. Change(ls, rs) = Kinds(x, y) /\ Change(rs, ls) = Kinds(y, x)
      BY <1>2, <2>2 DEF Change, x, y
    <3>2. Kinds(x, y) = Kinds(y, x)
      BY DEF Kinds
    <3>3. Mirror(Kinds(x, y)) = Kinds(x, y)
      BY DEF Kinds, Mirror
    <3> QED
      BY <3>1, <3>2, <3>3
  <2> QED
    BY <2>1, <2>2
<1> QED
  BY <1>1, <1>2

(* The other way round, a difference has the same rows with additions and
   removals exchanged.                                                       *)
LEMMA DifferenceMirrored ==
  ASSUME NEW d \in Registries
  PROVE  Mirrored(Difference(CorpusL(d), CorpusR(d))) = Difference(CorpusR(d), CorpusL(d))
<1> DEFINE l == CorpusL(d)
           r == CorpusR(d)
<1>1. \A id : IsFiniteSet(Meanings(l, id)) /\ IsFiniteSet(Meanings(r, id))
  BY FiniteMeanings DEF CorpusL, CorpusR
<1> HIDE DEF l, r
<1>2. \A id : Differs(l, r, id) <=> Differs(r, l, id)
  BY <1>1, ChangeMirrored DEF Differs, Compared
<1>3. \A id : Differs(l, r, id) => Compared(r, l, id) = [id |-> id, change |-> Mirror(Compared(l, r, id).change)]
  BY <1>1, ChangeMirrored DEF Differs, Compared
<1> DEFINE T == ToSet(IdentityOrder)
           S == {id \in T : Differs(l, r, id)}
           ids == Among(IdentityOrder, S)
<1>4. S = {id \in T : Differs(r, l, id)}
  BY <1>2
<1>5. \A n \in DOMAIN ids : Differs(l, r, ids[n])
  <2>1. IdentityOrder \in Seq(T)
    BY ComparisonAssumption
  <2>2. ToSet(ids) = ToSet(IdentityOrder) \cap S
    <3> HIDE DEF S, T
    <3> QED
      BY <2>1, AmongMembers
  <2> HIDE DEF ids
  <2> QED
    BY <2>2 DEF ToSet
<1>6. Rows(l, r) = [n \in DOMAIN ids |-> Compared(l, r, ids[n])] /\ Rows(r, l) = [n \in DOMAIN ids |-> Compared(r, l, ids[n])]
  BY <1>4 DEF Rows
<1> HIDE DEF ids
<1>7. Mirrored(Rows(l, r)) = Rows(r, l)
  <2>1. ASSUME NEW n \in DOMAIN ids
        PROVE  [Rows(l, r)[n] EXCEPT !.change = Mirror(@)] = Compared(r, l, ids[n])
    <3>1. Rows(l, r)[n] = [id |-> ids[n], change |-> Compared(l, r, ids[n]).change]
      BY <1>6 DEF Compared
    <3> QED
      BY <1>3, <1>5, <3>1
  <2>2. DOMAIN Rows(l, r) = DOMAIN ids
    BY <1>6
  <2> QED
    BY <1>6, <2>1, <2>2 DEF Mirrored
<1>8. Mirrored(<<>>) = <<>>
  BY DEF Mirrored
<1> QED
  BY <1>7, <1>8 DEF Difference, SameScope, l, r

(* What is unlike is told apart.                                             *)
LEMMA UnlikeDiffers ==
  ASSUME NEW d \in Registries, NEW id, Meanings(CorpusL(d), id) # Meanings(CorpusR(d), id)
  PROVE  Differs(CorpusL(d), CorpusR(d), id)
<1> DEFINE ls == Meanings(CorpusL(d), id)
           rs == Meanings(CorpusR(d), id)
<1>1. IsFiniteSet(ls) /\ IsFiniteSet(rs)
  BY FiniteMeanings DEF CorpusL, CorpusR
<1>2. \A m \in ls \cup rs : m = [signature |-> m.signature, condition |-> m.condition,
                                body |-> m.body, definition |-> m.definition]
  <2>1. \A side \in {"left", "right"} : \A f \in CorpusOf[d][side].facts :
          f.meaning = [signature |-> f.meaning.signature, condition |-> f.meaning.condition,
                       body |-> f.meaning.body, definition |-> f.meaning.definition]
    BY ComparisonAssumption
  <2> QED
    BY <2>1 DEF Meanings, Facts, CorpusL, CorpusR
<1> HIDE DEF ls, rs
<1>3. ls # rs
  BY DEF ls, rs
<1>4. Change(ls, rs) # "unchanged"
  <2>1. CASE Cardinality(ls) > 1 \/ Cardinality(rs) > 1 \/ ls = {} \/ rs = {}
    BY <2>1 DEF Change
  <2>2. CASE ~(Cardinality(ls) > 1 \/ Cardinality(rs) > 1) /\ ls # {} /\ rs # {}
    <3>1. PICK x, y : ls = {x} /\ rs = {y}
      BY <1>1, <2>2, FewMeanings
    <3>2. x # y
      BY <1>3, <3>1
    <3>3. x.signature # y.signature \/ x.condition # y.condition \/ x.body # y.body \/ x.definition # y.definition
      <4>1. /\ x = [signature |-> x.signature, condition |-> x.condition, body |-> x.body, definition |-> x.definition]
            /\ y = [signature |-> y.signature, condition |-> y.condition, body |-> y.body, definition |-> y.definition]
        BY <1>2, <3>1
      <4> QED
        BY <3>2, <4>1
    <3>4. Change(ls, rs) = Kinds(x, y)
      BY <2>2, <3>1 DEF Change
    <3> QED
      BY <3>3, <3>4 DEF Kinds
  <2> QED
    BY <2>1, <2>2
<1> QED
  BY <1>3, <1>4 DEF Differs, Compared, ls, rs

-----------------------------------------------------------------------------
LEMMA ComparisonInitial == ComparisonInit => ComparisonInv
<1> SUFFICES ASSUME ComparisonInit PROVE ComparisonInv
  OBVIOUS
<1>1. PICK d \in Registries, limit \in PageLimits :
        request = [tool |-> "compare", served |-> d, limit |-> limit, offset |-> 0,
                   changes |-> <<>>, origins |-> {}, status |-> "new"]
  BY DEF ComparisonInit
<1>2. IsFiniteSet({})
  BY FS_EmptySet
<1>3. \A e : {} # {SidesOf(e)}
  OBVIOUS
<1> QED
  BY <1>1, <1>2, <1>3 DEF ComparisonInit, ComparisonInv, PagesInv

(* A page of a difference of which the rows before it have been read.        *)
LEMMA PageGrows ==
  ASSUME NEW T, NEW rows \in Seq(T), NEW offset \in Nat, offset <= Len(rows), NEW limit \in Nat
  PROVE  LET page == Window(rows, offset, limit)
         IN  /\ offset + Len(page) <= Len(rows) /\ Len(page) \in Nat
             /\ SubSeq(rows, 1, offset) \o page = SubSeq(rows, 1, offset + Len(page))
             /\ Len(page) # limit => offset + Len(page) = Len(rows)
<1> DEFINE end == IF Len(rows) < offset + limit THEN Len(rows) ELSE offset + limit
           page == Window(rows, offset, limit)
<1>1. end \in Nat /\ offset <= end /\ end <= Len(rows) /\ (end - offset # limit => end = Len(rows))
  OBVIOUS
<1>2. page = SubSeq(rows, offset + 1, end)
  BY DEF Window
<1> HIDE DEF end, page
<1>3. page \in Seq(T) /\ Len(page) = end - offset /\ \A k \in 1 .. end - offset : page[k] = rows[offset + k]
  BY <1>1, <1>2
<1>4. SubSeq(rows, 1, offset) \o page = SubSeq(rows, 1, end)
  <2> DEFINE a == SubSeq(rows, 1, offset)
             b == SubSeq(rows, 1, end)
  <2>1. a \in Seq(T) /\ Len(a) = offset /\ \A k \in 1 .. offset : a[k] = rows[k]
    BY <1>1
  <2>2. b \in Seq(T) /\ Len(b) = end /\ \A k \in 1 .. end : b[k] = rows[k]
    BY <1>1
  <2> HIDE DEF a, b
  <2>3. /\ a \o page \in Seq(T) /\ Len(a \o page) = Len(a) + Len(page)
        /\ \A k \in 1 .. Len(a) + Len(page) : (a \o page)[k] = IF k <= Len(a) THEN a[k] ELSE page[k - Len(a)]
    BY <1>3, <2>1, ConcatProperties, Zenon
  <2>4. Len(a) + Len(page) = end
    BY <1>1, <1>3, <2>1
  <2>5. ASSUME NEW k \in 1 .. end PROVE (a \o page)[k] = b[k]
    <3>1. (a \o page)[k] = IF k <= offset THEN a[k] ELSE page[k - offset]
      BY <2>1, <2>3, <2>4
    <3>2. CASE k <= offset
      BY <2>1, <2>2, <3>1, <3>2
    <3>3. CASE ~(k <= offset)
      <4>1. k - offset \in 1 .. end - offset /\ offset + (k - offset) = k
        BY <1>1, <3>3
      <4>2. page[k - offset] = rows[offset + (k - offset)]
        BY <1>3, <4>1, Zenon
      <4>3. page[k - offset] = rows[k]
        BY <4>1, <4>2, Zenon
      <4> QED
        BY <2>2, <3>1, <3>3, <4>3
    <3> QED
      BY <3>2, <3>3
  <2>6. a \o page = b
    <3>1. Len(a \o page) = Len(b)
      BY <2>2, <2>3, <2>4
    <3>2. \A k \in 1 .. Len(b) : (a \o page)[k] = b[k]
      BY <2>2, <2>5
    <3> QED
      BY <2>2, <2>3, <3>1, <3>2, SeqEqual
  <2> QED
    BY <2>6 DEF a, b
<1>5. offset + Len(page) = end
  BY <1>1, <1>3
<1> QED
  BY <1>1, <1>3, <1>4, <1>5 DEF page

LEMMA ComparisonStep == ComparisonInv /\ [ComparisonNext]_vars => ComparisonInv'
<1> SUFFICES ASSUME ComparisonInv, [ComparisonNext]_vars PROVE ComparisonInv'
  OBVIOUS
<1>1. CASE UNCHANGED vars
  BY <1>1 DEF vars, ComparisonInv, PagesInv
<1>2. ASSUME NEW status \in {"invalid_graph_or_context", "deadline_exceeded"}, Answer(status) PROVE ComparisonInv'
  BY <1>2 DEF Answer, ComparisonInv, PagesInv
<1>3. CASE CompareRestart
  BY <1>3 DEF CompareRestart, ComparisonInv, PagesInv
<1>4. ASSUME request.status \in {"new", "more"}, ReadPage(Difference(Left, Right)), UNCHANGED progress
      PROVE  ComparisonInv'
  <2> DEFINE s == request.served
             rows == Whole(s)
             page == Window(rows, request.offset, request.limit)
  <2>1. s \in Registries /\ Difference(Left, Right) = rows /\ Sides = SidesOf(s)
    BY DEF ComparisonInv, Left, Right, CorpusL, CorpusR, Whole, Sides
  <2>2. rows \in Seq({Compared(CorpusL(s), CorpusR(s), id) : id \in ToSet(IdentityOrder)})
    BY RowsAre DEF Whole
  <2>3. request.limit \in Nat /\ request.limit # 0
    BY ComparisonAssumption DEF ComparisonInv
  <2>4. /\ request'.tool = "compare" /\ request'.served = s /\ request'.limit = request.limit
        /\ request'.changes = request.changes \o page /\ request'.origins = request.origins \cup {SidesOf(s)}
        /\ request'.offset = request.offset + Len(page)
        /\ request'.status = IF Len(page) = request.limit THEN "more" ELSE "complete"
        /\ request' = [tool |-> "compare", served |-> s, limit |-> request.limit, offset |-> request.offset + Len(page),
                       changes |-> request.changes \o page, origins |-> request.origins \cup {SidesOf(s)},
                       status |-> IF Len(page) = request.limit THEN "more" ELSE "complete"]
    BY <1>4, <2>1 DEF ReadPage, ComparisonInv
  <2>5. Len(page) \in Nat
    <3> HIDE DEF rows
    <3>1. page \in Seq({Compared(CorpusL(s), CorpusR(s), id) : id \in ToSet(IdentityOrder)})
      BY <2>2, <2>3 DEF Window, ComparisonInv
    <3> HIDE DEF page
    <3> QED
      BY <3>1
  <2>6. IsFiniteSet(request'.origins) /\ request'.origins # {}
    BY <2>4, FS_AddElement DEF ComparisonInv
  <2>7. request'.origins \in SUBSET {SidesOf(d) : d \in Registries}
    BY <2>1, <2>4 DEF ComparisonInv
  <2>8. ASSUME NEW d \in Registries, request'.origins = {SidesOf(d)} PROVE PagesInv(d)'
    <3>1. SidesOf(s) = SidesOf(d)
      BY <2>4, <2>8
    <3>2. Whole(d) = rows
      BY <2>1, <3>1, ComparisonAssumption DEF Whole, CorpusL, CorpusR
    <3>3. request.origins = {} \/ request.origins = {SidesOf(d)}
      BY <2>4, <2>8
    <3>4. request.offset <= Len(rows) /\ request.changes = SubSeq(rows, 1, request.offset) /\ request.offset \in Nat
      <4> HIDE DEF rows
      <4>1. CASE request.origins = {}
        <5>1. request.offset = 0 /\ request.changes = <<>>
          BY <4>1 DEF ComparisonInv
        <5>2. SubSeq(rows, 1, 0) = <<>> /\ 0 <= Len(rows)
          BY <2>2
        <5> QED
          BY <5>1, <5>2
      <4>2. CASE request.origins = {SidesOf(d)}
        <5>1. request.offset \in Nat
          BY DEF ComparisonInv
        <5>2. PagesInv(d)
          BY DEF ComparisonInv
        <5> QED
          BY <3>2, <4>2, <5>1, <5>2 DEF PagesInv
      <4> QED
        BY <3>3, <4>1, <4>2
    <3> HIDE DEF rows
    <3>5. /\ request.offset + Len(page) <= Len(rows)
          /\ SubSeq(rows, 1, request.offset) \o page = SubSeq(rows, 1, request.offset + Len(page))
          /\ Len(page) # request.limit => request.offset + Len(page) = Len(rows)
      BY <2>2, <2>3, <3>4, PageGrows
    <3> HIDE DEF page
    <3> QED
      BY <2>4, <3>2, <3>4, <3>5 DEF PagesInv
  <2>9. progress' = Idle
    BY <1>4 DEF ComparisonInv
  <2>10. \A d \in Registries : PagesInv(d)'
    BY <2>8 DEF PagesInv
  <2>11. request' \in [tool : {"compare"}, served : Registries, limit : PageLimits, offset : Nat,
                       changes : {request'.changes}, origins : SUBSET {SidesOf(d) : d \in Registries},
                       status : {"new", "more", "complete", "invalid_graph_or_context", "deadline_exceeded"}]
    <3> HIDE DEF rows, page, s
    <3>1. request.offset + Len(page) \in Nat /\ request.limit \in PageLimits
      BY <2>5 DEF ComparisonInv
    <3> QED
      BY <2>1, <2>4, <2>7, <3>1
  <2> HIDE DEF rows, page, s
  <2> QED
    BY <2>6, <2>9, <2>10, <2>11 DEF ComparisonInv
<1> QED
  BY <1>1, <1>2, <1>3, <1>4 DEF ComparisonNext, ComparePage, CompareLate

(* Pages of one pair of generations, whatever the limits and whatever the
   server was restarted with between them, add up to the whole difference; it
   is the mirror image of that of the other way round, and hides nothing
   (federation.py:595-606, 735-770).                                         *)
THEOREM PagesAddUp == ComparisonSpec => []ComparisonConsistent
<1>1. ComparisonInv => ComparisonConsistent
  <2> SUFFICES ASSUME ComparisonInv, request.status = "complete", Cardinality(request.origins) = 1
               PROVE  \E d \in Registries :
                        /\ request.origins = {SidesOf(d)}
                        /\ request.changes = Whole(d)
                        /\ Mirrored(request.changes) = Difference(CorpusR(d), CorpusL(d))
                        /\ \A id \in ToSet(IdentityOrder) :
                             Meanings(CorpusL(d), id) # Meanings(CorpusR(d), id) =>
                               \E row \in ToSet(request.changes) : row.id = id
    BY DEF ComparisonConsistent, SidesOf, Whole, CorpusL, CorpusR
  <2>1. PICK o : request.origins = {o}
    BY FS_Singleton DEF ComparisonInv
  <2>2. PICK d \in Registries : o = SidesOf(d)
    BY <2>1 DEF ComparisonInv
  <2>3. Whole(d) \in Seq({Compared(CorpusL(d), CorpusR(d), id) : id \in ToSet(IdentityOrder)})
    BY RowsAre DEF Whole
  <2>4. request.changes = SubSeq(Whole(d), 1, Len(Whole(d)))
    BY <2>1, <2>2 DEF ComparisonInv, PagesInv
  <2>5. request.changes = Whole(d)
    BY <2>3, <2>4
  <2>6. Mirrored(request.changes) = Difference(CorpusR(d), CorpusL(d))
    BY <2>5, DifferenceMirrored DEF Whole
  <2>7. ASSUME NEW id \in ToSet(IdentityOrder), Meanings(CorpusL(d), id) # Meanings(CorpusR(d), id)
        PROVE  \E row \in ToSet(request.changes) : row.id = id
    <3>1. ~SameScope(CorpusL(d), CorpusR(d))
      <4>1. CASE SameScope(CorpusL(d), CorpusR(d))
        <5>1. CorpusL(d).facts = CorpusR(d).facts
          BY <4>1, ComparisonAssumption DEF CorpusL, CorpusR
        <5>2. Meanings(CorpusL(d), id) = Meanings(CorpusR(d), id)
          BY <5>1 DEF Meanings, Facts
        <5> QED
          BY <2>7, <5>2
      <4> QED
        BY <4>1
    <3>2. request.changes = Rows(CorpusL(d), CorpusR(d))
      BY <2>5, <3>1 DEF Whole, Difference
    <3>3. Differs(CorpusL(d), CorpusR(d), id)
      BY <2>7, UnlikeDiffers
    <3>4. \E row \in ToSet(Rows(CorpusL(d), CorpusR(d))) : row.id = id
      BY <3>3, RowsAre, Zenon
    <3> QED
      BY <3>2, <3>4
  <2> QED
    BY <2>1, <2>2, <2>5, <2>6, <2>7
<1> QED
  BY <1>1, ComparisonInitial, ComparisonStep, PTL DEF ComparisonSpec

-----------------------------------------------------------------------------
(***************************************************************************)
(* SymbolDiscovery.  The pages of an index that stays are a prefix of one  *)
(* ranking, of the snapshot that the cursor is bound to.                   *)
(***************************************************************************)
AllRows == UNION {IndexRows(ix) : ix \in ToSet(Indexes)}
Pool(rows, q, repo, commit) ==
  Window(Among(rows, {r \in ToSet(rows) : r.repo = repo /\ r.commit = commit /\ q.kind \in {None, r.kind}}),
         0, CandidatePool)
GraphPart(ix, q, repo, commit) == IF q.mode = "lexical" THEN <<>> ELSE Pool(ix.graph, q, repo, commit)
HitsPart(ix, q, repo, commit) == IF q.kind = "type" THEN <<>> ELSE Pool(ix.lexical, q, repo, commit)
Alive(ix, hits, repo, commit) ==
  Among(hits, {r \in ToSet(hits) : \E n \in DOMAIN ix.graph : /\ ix.graph[n].key = r.key /\ ix.graph[n].repo = repo
                                                             /\ ix.graph[n].commit = commit})
LexicalPart(ix, q, repo, commit) ==
  IF q.mode = "graph" THEN <<>> ELSE Alive(ix, HitsPart(ix, q, repo, commit), repo, commit)
Ranking(ix, q, repo, commit) ==
  Ranked(GraphPart(ix, q, repo, commit) \o LexicalPart(ix, q, repo, commit), q.scope)
AnswerRow(repo, commit) == [key : Int, repo : {repo}, commit : {commit}]
FoundRow == [key : Int, repo : {s[1] : s \in Snapshots}, commit : {s[2] : s \in Snapshots}]
Placed(rows, repo, commit) == [n \in DOMAIN rows |-> [key |-> rows[n].key, repo |-> repo, commit |-> commit]]
Answers(ix, q, repo, commit) == Placed(Ranking(ix, q, repo, commit), repo, commit)

(* Where an undisturbed search of a snapshot is when `offset` rows are read. *)
ReadSoFar(repo, commit, offset) ==
  /\ \A n \in DOMAIN request.found : request.found[n].repo = repo /\ request.found[n].commit = commit
  /\ ~request.disturbed =>
       /\ <<repo, commit>> \in Index.repositories
       /\ offset <= Len(Answers(Index, request.question, repo, commit))
       /\ request.found = SubSeq(Answers(Index, request.question, repo, commit), 1, offset)

SearchSteps == {"search.snapshots", "search.graph", "search.lexical", "search.merge", "search.rank"}
SearchTypeOK ==
  /\ request \in [tool : {"search"}, index : DOMAIN Indexes, question : SearchQuestions, cursor : {request.cursor},
                  found : Seq(FoundRow), disturbed : BOOLEAN,
                  status : {"new", "more", "complete", "invalid_query", "invalid_cursor", "repository_required",
                            "repository_not_found", "repository_revision_not_found", "lexical_unavailable"}]
  /\ \/ progress = Idle
     \/ progress \in [pc : SearchSteps, generation : Generations, repo : {progress.repo}, commit : {progress.commit},
                      offset : Nat, graph : Seq(AllRows), hits : Seq(AllRows), lexical : Seq(AllRows)]
CursorInv ==
  /\ \E repo, commit : \A n \in DOMAIN request.found : request.found[n].repo = repo /\ request.found[n].commit = commit
  /\ request.status = "new" => request.cursor = None /\ request.found = <<>>
  /\ request.status = "more" =>
       \E s \in Snapshots, g \in Generations, offset \in Nat :
         request.cursor = SearchCursor(g, request.question, s[1], s[2], offset) /\ ReadSoFar(s[1], s[2], offset)
  /\ request.status = "complete" /\ ~request.disturbed =>
       \E s \in Index.repositories : request.found = Answers(Index, request.question, s[1], s[2])
PageInv ==
  progress # Idle =>
    LET q == request.question
        ix == Index
        p == progress
    IN  /\ request.status \in {"new", "more"}
        /\ p.pc = "search.snapshots" => p.graph = <<>> /\ p.lexical = <<>>
        /\ p.pc # "search.snapshots" => <<p.repo, p.commit>> \in Snapshots /\ ReadSoFar(p.repo, p.commit, p.offset)
        /\ p.pc = "search.graph" => q.mode # "lexical" /\ p.lexical = <<>>
        /\ p.pc \in {"search.lexical", "search.merge"} =>
             q.mode # "graph" /\ (~request.disturbed => p.graph = GraphPart(ix, q, p.repo, p.commit))
        /\ p.pc = "search.merge" /\ ~request.disturbed => p.hits = HitsPart(ix, q, p.repo, p.commit)
        /\ p.pc = "search.rank" /\ ~request.disturbed =>
             p.graph = GraphPart(ix, q, p.repo, p.commit) /\ p.lexical = LexicalPart(ix, q, p.repo, p.commit)
SearchInv == SearchTypeOK /\ CursorInv /\ PageInv

(* What the rows of an index are.                                            *)
LEMMA RowsOfIndex == \A r \in AllRows : r.key \in Int /\ r.score \in Int
<1> SUFFICES ASSUME NEW r \in AllRows PROVE r.key \in Int /\ r.score \in Int
  OBVIOUS
<1>1. PICK ix \in ToSet(Indexes) : r \in IndexRows(ix)
  BY Zenon DEF AllRows
<1>2. \A x \in IndexRows(ix) : x.key \in Int /\ x.score \in Int
  BY SearchAssumption, Zenon
<1> QED
  BY <1>1, <1>2

(* A ranking lists the keys of the rows in scope, each once.                 *)
LEMMA RankedIs ==
  ASSUME NEW rows \in Seq(AllRows), NEW scope
  PROVE  /\ Ranked(rows, scope) \in Seq([key : Int, score : Int])
         /\ \A m, n \in 1 .. Len(Ranked(rows, scope)) :
              Ranked(rows, scope)[m].key = Ranked(rows, scope)[n].key => m = n
         /\ {e.key : e \in ToSet(Ranked(rows, scope))} = {r.key : r \in ScopedRows(rows, scope)}
<1> DEFINE W == ScopedRows(rows, scope)
           E == {[key |-> r.key, score |-> r.score] : r \in Best(W)}
           R == {p \in E \X E : Before(p[1], p[2])}
           f == Ordered(E, R)
<1>1. W \in SUBSET AllRows /\ IsFiniteSet(W)
  <2>1. IsFiniteSet(ToSet(rows)) /\ ToSet(rows) \subseteq AllRows
    BY FiniteRows
  <2>2. W \subseteq ToSet(rows)
    BY DEF ScopedRows
  <2> HIDE DEF W
  <2> QED
    BY <2>1, <2>2, FS_Subset
<1> HIDE DEF W
<1>2. Best(W) \in SUBSET W /\ IsFiniteSet(Best(W))
  <2>1. Best(W) \subseteq W
    BY DEF Best
  <2> QED
    BY <1>1, <2>1, FS_Subset
<1>3. IsFiniteSet(E)
  <2> DEFINE g == [r \in Best(W) |-> [key |-> r.key, score |-> r.score]]
  <2>1. E = {g[r] : r \in Best(W)}
    OBVIOUS
  <2> HIDE DEF g
  <2>2. IsFiniteSet({g[r] : r \in Best(W)})
    BY <1>2, FiniteImage
  <2> QED
    BY <2>1, <2>2
<1>4. E \subseteq [key : Int, score : Int]
  BY <1>1, <1>2, RowsOfIndex
<1>5. \A a, b \in E : a.key = b.key => a = b
  <2> SUFFICES ASSUME NEW r \in Best(W), NEW s \in Best(W), r.key = s.key PROVE r.score = s.score
    OBVIOUS
  <2>1. r.score <= s.score /\ s.score <= r.score
    BY DEF Best
  <2>2. r.score \in Int /\ s.score \in Int
    BY <1>1, <1>2, RowsOfIndex
  <2> QED
    BY <2>1, <2>2
<1>6. \A a, b \in E : <<a, b>> \in R <=> a.score > b.score \/ (a.score = b.score /\ a.key < b.key)
  BY DEF Before
<1> HIDE DEF R, E
<1>7. /\ \A a \in E : <<a, a>> \notin R
      /\ \A a, b, c \in E : <<a, b>> \in R /\ <<b, c>> \in R => <<a, c>> \in R
      /\ \A a, b \in E : a # b => <<a, b>> \in R \/ <<b, a>> \in R
  <2>1. \A a \in E : a.key \in Int /\ a.score \in Int
    BY <1>4
  <2>2. \A a \in E : <<a, a>> \notin R
    BY <1>6, <2>1
  <2>3. \A a, b, c \in E : <<a, b>> \in R /\ <<b, c>> \in R => <<a, c>> \in R
    <3> SUFFICES ASSUME NEW a \in E, NEW b \in E, NEW c \in E, <<a, b>> \in R, <<b, c>> \in R PROVE <<a, c>> \in R
      OBVIOUS
    <3>1. /\ a.score > b.score \/ (a.score = b.score /\ a.key < b.key)
          /\ b.score > c.score \/ (b.score = c.score /\ b.key < c.key)
      BY <1>6
    <3>2. a.score > c.score \/ (a.score = c.score /\ a.key < c.key)
      BY <2>1, <3>1
    <3> QED
      BY <1>6, <3>2
  <2>4. \A a, b \in E : a # b => <<a, b>> \in R \/ <<b, a>> \in R
    BY <1>5, <1>6, <2>1
  <2> QED
    BY <2>2, <2>3, <2>4
<1>8. /\ f \in Seq(E) /\ Len(f) = Cardinality(E) /\ Cardinality(E) \in Nat /\ ToSet(f) = E
      /\ \A m, n \in 1 .. Cardinality(E) : m < n => <<f[m], f[n]>> \in R
  BY <1>3, <1>7, OrderedIs
<1>9. Ranked(rows, scope) = f
  BY DEF Ranked, ByScore, W, E, R
<1> HIDE DEF f
<1>10. f \in Seq([key : Int, score : Int])
  BY <1>4, <1>8, SeqMonotonic
<1>11. ASSUME NEW m \in 1 .. Len(f), NEW n \in 1 .. Len(f), f[m].key = f[n].key PROVE m = n
  <2>1. f[m] \in E /\ f[n] \in E
    BY <1>8
  <2>2. f[m] = f[n]
    BY <1>5, <1>11, <2>1
  <2>3. ~(m < n) /\ ~(n < m)
    <3>1. <<f[m], f[m]>> \notin R
      BY <1>7, <2>1
    <3> QED
      BY <1>8, <2>2, <3>1
  <2> QED
    BY <2>3
<1>12. {e.key : e \in E} = {r.key : r \in W}
  <2>1. ASSUME NEW r \in W PROVE \E b \in Best(W) : b.key = r.key
    <3> DEFINE K == {s \in W : s.key = r.key}
               g == [s \in K |-> s.score]
               scores == {g[s] : s \in K}
    <3>1. IsFiniteSet(K)
      BY <1>1, FS_Subset
    <3>2. IsFiniteSet(scores)
      <4> HIDE DEF K, g
      <4> QED
        BY <3>1, FiniteImage
    <3>3. scores \in SUBSET Int /\ scores # {}
      BY <1>1, RowsOfIndex
    <3>4. Max(scores) \in scores /\ \A x \in scores : x <= Max(scores)
      <4> HIDE DEF scores
      <4> QED
        BY <3>2, <3>3, FiniteMax
    <3>5. PICK b \in K : b.score = Max(scores)
      BY <3>4
    <3>6. \A s \in W : b.key = s.key => s.score <= b.score
      BY <3>4, <3>5
    <3> QED
      BY <3>5, <3>6 DEF Best
  <2>2. {e.key : e \in E} = {b.key : b \in Best(W)}
    <3>1. \A e \in E : \E b \in Best(W) : e.key = b.key
      BY DEF E
    <3>2. \A b \in Best(W) : [key |-> b.key, score |-> b.score] \in E
      BY DEF E
    <3> QED
      BY <3>1, <3>2
  <2> QED
    BY <1>2, <2>1, <2>2
<1> QED
  BY <1>8, <1>9, <1>10, <1>11, <1>12 DEF W

(* A cursor is never taken for the absence of one.                           *)
LEMMA CursorIsNotNone ==
  ASSUME NEW q \in SearchQuestions, NEW s \in Snapshots, NEW g \in Generations, NEW offset \in Nat
  PROVE  SearchCursor(g, q, s[1], s[2], offset) # None
<1> DEFINE b == [q EXCEPT !.repo = s[1], !.commit = s[2]]
<1>1. b \in UNION {Bound(x) : x \in SearchQuestions}
  <2>1. b \in Bound(q)
    BY DEF Bound
  <2> HIDE DEF b
  <2> QED
    BY <2>1
<1>2. SearchCursor(g, q, s[1], s[2], offset) = [generation |-> g, q |-> b, offset |-> offset]
  BY DEF SearchCursor
<1> HIDE DEF b
<1> QED
  BY <1>1, <1>2, CursorAssumption

(* The candidates of a snapshot.                                             *)
LEMMA PoolIs ==
  ASSUME NEW T, NEW rows \in Seq(T), NEW q, NEW repo, NEW commit
  PROVE  /\ Pool(rows, q, repo, commit) \in Seq(T)
         /\ \A r \in ToSet(Pool(rows, q, repo, commit)) :
              r \in ToSet(rows) /\ r.repo = repo /\ r.commit = commit /\ q.kind \in {None, r.kind}
<1> DEFINE S == {r \in ToSet(rows) : r.repo = repo /\ r.commit = commit /\ q.kind \in {None, r.kind}}
           w == Among(rows, S)
<1>1. w \in Seq(T) /\ ToSet(w) = S
  <2>1. ToSet(rows) \cap S = S
    OBVIOUS
  <2> HIDE DEF S
  <2> QED
    BY <2>1, AmongGrows, AmongMembers
<1>2. Pool(rows, q, repo, commit) = Window(w, 0, CandidatePool)
  BY DEF Pool
<1> HIDE DEF w
<1>3. Window(w, 0, CandidatePool) \in Seq(T) /\ ToSet(Window(w, 0, CandidatePool)) \subseteq ToSet(w)
  <2> DEFINE k == IF Len(w) < CandidatePool THEN Len(w) ELSE CandidatePool
  <2>1. CandidatePool \in Nat /\ Len(w) \in Nat
    BY <1>1, SearchAssumption
  <2>2. k \in 0 .. Len(w)
    BY <2>1
  <2>3. Window(w, 0, CandidatePool) = SubSeq(w, 1, k)
    BY <2>1 DEF Window
  <2> HIDE DEF k
  <2>4. SubSeq(w, 1, k) \in Seq(T) /\ Len(SubSeq(w, 1, k)) = k /\ \A n \in 1 .. k : SubSeq(w, 1, k)[n] = w[n]
    BY <1>1, <2>2
  <2> DEFINE v == SubSeq(w, 1, k)
  <2>5. \A n \in DOMAIN v : n \in DOMAIN w /\ v[n] = w[n]
    BY <1>1, <2>2, <2>4
  <2> HIDE DEF v
  <2>6. ToSet(v) \subseteq ToSet(w)
    BY <2>5 DEF ToSet
  <2> QED
    BY <2>3, <2>4, <2>6 DEF v
<1> QED
  BY <1>1, <1>2, <1>3

(* All of them, if they are few and the rows are listed once.                *)
LEMMA PoolIsWhole ==
  ASSUME NEW T, NEW rows \in Seq(T), NEW q, NEW repo, NEW commit,
         \A a, b \in 1 .. Len(rows) : rows[a] = rows[b] => a = b,
         Cardinality({r \in ToSet(rows) : r.repo = repo /\ r.commit = commit /\ q.kind \in {None, r.kind}}) <= CandidatePool
  PROVE  ToSet(Pool(rows, q, repo, commit)) =
           {r \in ToSet(rows) : r.repo = repo /\ r.commit = commit /\ q.kind \in {None, r.kind}}
<1> DEFINE S == {r \in ToSet(rows) : r.repo = repo /\ r.commit = commit /\ q.kind \in {None, r.kind}}
           w == Among(rows, S)
<1>1. w \in Seq(T) /\ ToSet(w) = S /\ \A a, b \in 1 .. Len(w) : w[a] = w[b] => a = b
  <2>1. ToSet(rows) \cap S = S
    OBVIOUS
  <2> HIDE DEF S
  <2> QED
    BY <2>1, AmongGrows, AmongMembers, AmongOnce
<1>2. Pool(rows, q, repo, commit) = Window(w, 0, CandidatePool)
  BY DEF Pool
<1>3. Cardinality(S) <= CandidatePool
  OBVIOUS
<1> HIDE DEF w, S
<1>4. Len(w) <= CandidatePool
  BY <1>1, <1>3, LengthOnce
<1>5. Window(w, 0, CandidatePool) = w
  <2>1. CandidatePool \in Nat /\ Len(w) \in Nat
    BY <1>1, SearchAssumption
  <2>2. Window(w, 0, CandidatePool) = SubSeq(w, 1, Len(w))
    BY <1>4, <2>1 DEF Window
  <2>3. SubSeq(w, 1, Len(w)) = w
    BY <1>1
  <2> QED
    BY <2>2, <2>3
<1> QED
  BY <1>1, <1>2, <1>5 DEF S

(* What an index gives to a question about a snapshot, from its two sources. *)
LEMMA PartsAre ==
  ASSUME NEW ix \in ToSet(Indexes), NEW q, NEW repo, NEW commit
  PROVE  LET g == GraphPart(ix, q, repo, commit)
             h == HitsPart(ix, q, repo, commit)
             l == LexicalPart(ix, q, repo, commit)
         IN  /\ g \in Seq(AllRows) /\ h \in Seq(AllRows) /\ l \in Seq(AllRows)
             /\ \A r \in ToSet(g) : r \in OfSnapshot(ix, q, <<repo, commit>>)
             /\ \A r \in ToSet(l) :
                  /\ r \in IndexRows(ix) /\ q.kind \in {None, r.kind}
                  /\ \E t \in ToSet(ix.graph) : t.key = r.key /\ t.repo = repo /\ t.commit = commit
<1> DEFINE g == GraphPart(ix, q, repo, commit)
           h == HitsPart(ix, q, repo, commit)
           l == LexicalPart(ix, q, repo, commit)
           S == {r \in ToSet(h) : \E n \in DOMAIN ix.graph : /\ ix.graph[n].key = r.key /\ ix.graph[n].repo = repo
                                                              /\ ix.graph[n].commit = commit}
<1>1. ix.graph \in Seq(IndexRows(ix)) /\ ix.lexical \in Seq(IndexRows(ix))
  BY SearchAssumption
<1>2. IndexRows(ix) \subseteq AllRows
  BY DEF AllRows
<1>3. ToSet(<<>>) = {} /\ \A T : <<>> \in Seq(T)
  BY DEF ToSet
<1>4. g \in Seq(IndexRows(ix)) /\ \A r \in ToSet(g) : r \in OfSnapshot(ix, q, <<repo, commit>>)
  <2>1. CASE q.mode = "lexical"
    BY <1>3, <2>1 DEF GraphPart
  <2>2. CASE q.mode # "lexical"
    <3>1. g = Pool(ix.graph, q, repo, commit)
      BY <2>2 DEF GraphPart
    <3> HIDE DEF g
    <3>2. /\ g \in Seq(IndexRows(ix))
          /\ \A r \in ToSet(g) : r \in ToSet(ix.graph) /\ r.repo = repo /\ r.commit = commit /\ q.kind \in {None, r.kind}
      BY <1>1, <3>1, PoolIs
    <3> QED
      BY <3>2 DEF OfSnapshot
  <2> QED
    BY <2>1, <2>2
<1>5. h \in Seq(IndexRows(ix)) /\ \A r \in ToSet(h) : r \in IndexRows(ix) /\ q.kind \in {None, r.kind}
  <2>1. CASE q.kind = "type"
    BY <1>3, <2>1 DEF HitsPart
  <2>2. CASE q.kind # "type"
    <3>1. h = Pool(ix.lexical, q, repo, commit)
      BY <2>2 DEF HitsPart
    <3> HIDE DEF h
    <3>2. /\ h \in Seq(IndexRows(ix))
          /\ \A r \in ToSet(h) : r \in ToSet(ix.lexical) /\ q.kind \in {None, r.kind}
      BY <1>1, <3>1, PoolIs
    <3> QED
      BY <3>2 DEF IndexRows
  <2> QED
    BY <2>1, <2>2
<1> HIDE DEF h
<1>6. l \in Seq(IndexRows(ix)) /\ ToSet(l) \subseteq S
  <2>1. CASE q.mode = "graph"
    BY <1>3, <2>1 DEF LexicalPart
  <2>2. CASE q.mode # "graph"
    <3>1. l = Among(h, S)
      BY <2>2 DEF LexicalPart, Alive, h
    <3> HIDE DEF S, l
    <3> QED
      BY <1>5, <3>1, AmongGrows, AmongMembers
  <2> QED
    BY <2>1, <2>2
<1>7. \A r \in S : \E t \in ToSet(ix.graph) : t.key = r.key /\ t.repo = repo /\ t.commit = commit
  BY DEF ToSet
<1>8. S \subseteq ToSet(h)
  OBVIOUS
<1> HIDE DEF g, l, S
<1>9. g \in Seq(AllRows) /\ h \in Seq(AllRows) /\ l \in Seq(AllRows)
  BY <1>2, <1>4, <1>5, <1>6, SeqMonotonic
<1> QED
  BY <1>4, <1>5, <1>6, <1>7, <1>8, <1>9 DEF g, h, l

(* The answers, in their order.                                              *)
LEMMA AnswersAre ==
  ASSUME NEW ix \in ToSet(Indexes), NEW q, NEW repo, NEW commit
  PROVE  /\ Answers(ix, q, repo, commit) \in Seq(AnswerRow(repo, commit))
         /\ \A m, n \in 1 .. Len(Answers(ix, q, repo, commit)) :
              Answers(ix, q, repo, commit)[m].key = Answers(ix, q, repo, commit)[n].key => m = n
         /\ {Answers(ix, q, repo, commit)[n].key : n \in DOMAIN Answers(ix, q, repo, commit)} =
              {r.key : r \in ScopedRows(GraphPart(ix, q, repo, commit) \o LexicalPart(ix, q, repo, commit), q.scope)}
<1> DEFINE R == Ranking(ix, q, repo, commit)
           A == Answers(ix, q, repo, commit)
           rows == GraphPart(ix, q, repo, commit) \o LexicalPart(ix, q, repo, commit)
<1>1. rows \in Seq(AllRows)
  <2>1. GraphPart(ix, q, repo, commit) \in Seq(AllRows) /\ LexicalPart(ix, q, repo, commit) \in Seq(AllRows)
    BY PartsAre
  <2> QED
    BY <2>1
<1>2. R = Ranked(rows, q.scope)
  BY DEF Ranking
<1> HIDE DEF rows, R
<1>3. /\ R \in Seq([key : Int, score : Int]) /\ \A m, n \in 1 .. Len(R) : R[m].key = R[n].key => m = n
      /\ {e.key : e \in ToSet(R)} = {r.key : r \in ScopedRows(rows, q.scope)}
  BY <1>1, <1>2, RankedIs
<1>4. A = [n \in DOMAIN R |-> [key |-> R[n].key, repo |-> repo, commit |-> commit]]
  BY DEF Answers, Placed, R
<1> HIDE DEF A
<1>5. DOMAIN R = 1 .. Len(R) /\ Len(R) \in Nat
  BY <1>3
<1>6. \A n \in 1 .. Len(R) : A[n] = [key |-> R[n].key, repo |-> repo, commit |-> commit] /\ R[n].key \in Int
  <2>1. \A n \in 1 .. Len(R) : R[n] \in [key : Int, score : Int]
    BY <1>3, ElementOfSeq
  <2> QED
    BY <1>4, <1>5, <2>1
<1>7. A \in Seq(AnswerRow(repo, commit)) /\ Len(A) = Len(R) /\ DOMAIN A = 1 .. Len(R)
  <2> DEFINE X == AnswerRow(repo, commit)
  <2>1. ASSUME NEW n \in 1 .. Len(R) PROVE A[n] \in X
    <3> DEFINE k == R[n].key
    <3>1. A[n] = [key |-> k, repo |-> repo, commit |-> commit] /\ k \in Int
      BY <1>6
    <3> HIDE DEF k
    <3>2. [key |-> k, repo |-> repo, commit |-> commit] \in X
      BY <3>1 DEF AnswerRow
    <3> QED
      BY <3>1, <3>2
  <2> HIDE DEF X
  <2>2. A \in [1 .. Len(R) -> X]
    BY <1>4, <1>5, <2>1
  <2>3. A \in Seq(X) /\ Len(A) = Len(R) /\ DOMAIN A = 1 .. Len(R)
    BY <1>5, <2>2
  <2> QED
    BY <2>3 DEF X
<1>8. {A[n].key : n \in DOMAIN A} = {e.key : e \in ToSet(R)}
  <2>1. \A n \in DOMAIN A : A[n].key = R[n].key /\ n \in DOMAIN R
    BY <1>5, <1>6, <1>7
  <2>2. \A n \in DOMAIN R : A[n].key = R[n].key /\ n \in DOMAIN A
    BY <1>5, <1>6, <1>7
  <2> QED
    BY <2>1, <2>2 DEF ToSet
<1>9. \A n \in 1 .. Len(A) : A[n].key = R[n].key
  BY <1>6, <1>7
<1> QED
  BY <1>3, <1>5, <1>7, <1>8, <1>9 DEF A, R, rows

(* They are what the question should give, each once.                        *)
LEMMA AnswersRight ==
  ASSUME NEW ix \in ToSet(Indexes), NEW q, NEW repo, NEW commit
  PROVE  LET A == Answers(ix, q, repo, commit)
             keys == {A[n].key : n \in DOMAIN A}
         IN  /\ Cardinality(keys) = Len(A)
             /\ q.mode # "lexical" => Exhausts(keys, q, OfSnapshot(ix, q, <<repo, commit>>))
<1> DEFINE A == Answers(ix, q, repo, commit)
           keys == {A[n].key : n \in DOMAIN A}
           g == GraphPart(ix, q, repo, commit)
           l == LexicalPart(ix, q, repo, commit)
           rows == OfSnapshot(ix, q, <<repo, commit>>)
           wanted == {r.key : r \in {t \in rows : q.scope \in {"all", t.scope}}}
<1>1. /\ A \in Seq(AnswerRow(repo, commit)) /\ Len(A) \in Nat
      /\ \A m, n \in 1 .. Len(A) : A[m].key = A[n].key => m = n
      /\ keys = {r.key : r \in ScopedRows(g \o l, q.scope)}
  <2>1. A \in Seq(AnswerRow(repo, commit))
    BY AnswersAre
  <2>2. \A m, n \in 1 .. Len(A) : A[m].key = A[n].key => m = n
    BY AnswersAre, Zenon
  <2>3. keys = {r.key : r \in ScopedRows(g \o l, q.scope)}
    BY AnswersAre, Zenon
  <2> HIDE DEF A, keys
  <2> QED
    BY <2>1, <2>2, <2>3
<1>2. Cardinality(keys) = Len(A)
  <2> DEFINE u == [n \in 1 .. Len(A) |-> A[n].key]
  <2> HIDE DEF A
  <2>1. DOMAIN A = 1 .. Len(A) /\ \A n \in 1 .. Len(A) : A[n].key \in Int
    <3>1. \A n \in 1 .. Len(A) : A[n] \in AnswerRow(repo, commit)
      BY <1>1, ElementOfSeq
    <3> QED
      BY <1>1, <3>1 DEF AnswerRow
  <2>2. u \in Seq(Int) /\ Len(u) = Len(A) /\ DOMAIN u = 1 .. Len(A) /\ \A n \in 1 .. Len(A) : u[n] = A[n].key
    BY <1>1, <2>1
  <2> HIDE DEF u
  <2>3. ToSet(u) = keys
    BY <2>1, <2>2 DEF ToSet
  <2>4. Cardinality(ToSet(u)) = Len(u)
    BY <1>1, <2>2, LengthOnce
  <2> QED
    BY <2>2, <2>3, <2>4
<1> HIDE DEF A, keys
<1>3. /\ g \in Seq(AllRows) /\ l \in Seq(AllRows)
      /\ \A r \in ToSet(g) : r \in rows
      /\ \A r \in ToSet(l) :
           /\ r \in IndexRows(ix) /\ q.kind \in {None, r.kind}
           /\ \E t \in ToSet(ix.graph) : t.key = r.key /\ t.repo = repo /\ t.commit = commit
  BY PartsAre
<1>4. ToSet(g \o l) = ToSet(g) \cup ToSet(l)
  <2> HIDE DEF g, l
  <2> QED
    BY <1>3, MembersOfBoth
<1>5. keys \subseteq wanted
  <2> SUFFICES ASSUME NEW r \in ScopedRows(g \o l, q.scope) PROVE r.key \in wanted
    BY <1>1
  <2>1. r \in ToSet(g) \cup ToSet(l) /\ q.scope \in {"all", r.scope}
    BY <1>4 DEF ScopedRows
  <2>2. CASE r \in ToSet(g)
    BY <1>3, <2>1, <2>2
  <2>3. CASE r \in ToSet(l)
    <3>1. PICK t \in ToSet(ix.graph) : t.key = r.key /\ t.repo = repo /\ t.commit = commit
      BY <1>3, <2>3
    <3>2. t \in IndexRows(ix) /\ r \in IndexRows(ix) /\ q.kind \in {None, r.kind}
      BY <1>3, <2>3 DEF IndexRows
    <3>3. t.kind = r.kind /\ t.scope = r.scope
      BY <3>1, <3>2, SearchAssumption
    <3>4. t \in rows
      BY <3>1, <3>2, <3>3 DEF OfSnapshot
    <3> QED
      BY <2>1, <3>1, <3>3, <3>4
  <2> QED
    BY <2>1, <2>2, <2>3
<1>6. ASSUME q.mode # "lexical", Cardinality(rows) <= CandidatePool PROVE keys = wanted
  <2>1. rows = {r \in ToSet(ix.graph) : r.repo = repo /\ r.commit = commit /\ q.kind \in {None, r.kind}}
    BY DEF OfSnapshot
  <2>2. ix.graph \in Seq(IndexRows(ix)) /\ \A a, b \in DOMAIN ix.graph : ix.graph[a].key = ix.graph[b].key => a = b
    BY SearchAssumption
  <2>3. \A a, b \in 1 .. Len(ix.graph) : ix.graph[a] = ix.graph[b] => a = b
    BY <2>2
  <2>4. ToSet(Pool(ix.graph, q, repo, commit)) = rows
    <3> HIDE DEF rows
    <3> QED
      BY <1>6, <2>1, <2>2, <2>3, PoolIsWhole
  <2>5. ToSet(g) = rows
    BY <1>6, <2>4 DEF GraphPart
  <2>6. \A t \in rows : q.scope \in {"all", t.scope} => t \in ScopedRows(g \o l, q.scope)
    BY <1>4, <2>5 DEF ScopedRows
  <2> QED
    BY <1>1, <1>5, <2>6
<1>7. q.mode # "lexical" => Exhausts(keys, q, rows)
  BY <1>5, <1>6 DEF Exhausts
<1> QED
  BY <1>2, <1>7 DEF A, keys

(* The steps, from the first one.                                            *)
LEMMA SearchInitial == SearchInit => SearchInv
<1> SUFFICES ASSUME SearchInit PROVE SearchInv
  OBVIOUS
<1>1. PICK q \in SearchQuestions :
        request = [tool |-> "search", index |-> 1, question |-> q, cursor |-> None,
                   found |-> <<>>, disturbed |-> FALSE, status |-> "new"]
  BY DEF SearchInit
<1>2. progress = Idle
  BY DEF SearchInit
<1>3. 1 \in DOMAIN Indexes
  BY SearchAssumption
<1>4. SearchTypeOK
  BY <1>1, <1>2, <1>3 DEF SearchTypeOK
<1>5. CursorInv
  BY <1>1 DEF CursorInv
<1> QED
  BY <1>2, <1>4, <1>5 DEF SearchInv, PageInv

(* What the types say of the request.                                        *)
LEMMA SearchIs ==
  ASSUME SearchTypeOK
  PROVE  /\ request = [tool |-> "search", index |-> request.index, question |-> request.question,
                       cursor |-> request.cursor, found |-> request.found, disturbed |-> request.disturbed,
                       status |-> request.status]
         /\ request.tool = "search" /\ request.index \in DOMAIN Indexes /\ request.question \in SearchQuestions
         /\ request.found \in Seq(FoundRow) /\ request.disturbed \in BOOLEAN /\ Index \in ToSet(Indexes)
         /\ Index.repositories \subseteq Snapshots
<1>1. /\ request = [tool |-> "search", index |-> request.index, question |-> request.question,
                    cursor |-> request.cursor, found |-> request.found, disturbed |-> request.disturbed,
                    status |-> request.status]
      /\ request.tool = "search" /\ request.index \in DOMAIN Indexes /\ request.question \in SearchQuestions
      /\ request.found \in Seq(FoundRow) /\ request.disturbed \in BOOLEAN
  BY DEF SearchTypeOK
<1>2. Index \in ToSet(Indexes)
  BY <1>1 DEF Index, ToSet
<1>3. Index.repositories \subseteq Snapshots
  BY <1>2 DEF Snapshots
<1> QED
  BY <1>1, <1>2, <1>3

(* Where a search is, and its cursor, depend on the request alone.           *)
LEMMA SamePages ==
  ASSUME UNCHANGED request, NEW repo, NEW commit, NEW offset
  PROVE  ReadSoFar(repo, commit, offset)' <=> ReadSoFar(repo, commit, offset)
<1>1. Index' = Index
  BY DEF Index
<1> QED
  BY <1>1, Zenon DEF ReadSoFar

LEMMA CursorKept == CursorInv /\ UNCHANGED request => CursorInv'
<1> SUFFICES ASSUME CursorInv, UNCHANGED request PROVE CursorInv'
  OBVIOUS
<1>1. Index' = Index
  BY DEF Index
<1>2. (\E repo, commit : \A n \in DOMAIN request.found : request.found[n].repo = repo /\ request.found[n].commit = commit)'
  <2>1. PICK repo, commit : \A n \in DOMAIN request.found : /\ request.found[n].repo = repo
                                                           /\ request.found[n].commit = commit
    BY DEF CursorInv
  <2>2. \A n \in DOMAIN request'.found : request'.found[n].repo = repo /\ request'.found[n].commit = commit
    BY <2>1
  <2> QED
    BY <2>2
<1>3. (request.status = "new" => request.cursor = None /\ request.found = <<>>)'
  BY DEF CursorInv
<1>4. ASSUME request.status = "more"
      PROVE  (\E s \in Snapshots, g \in Generations, offset \in Nat :
                request.cursor = SearchCursor(g, request.question, s[1], s[2], offset) /\ ReadSoFar(s[1], s[2], offset))'
  <2>1. PICK s \in Snapshots, g \in Generations, offset \in Nat :
          request.cursor = SearchCursor(g, request.question, s[1], s[2], offset) /\ ReadSoFar(s[1], s[2], offset)
    BY <1>4 DEF CursorInv
  <2>2. ReadSoFar(s[1], s[2], offset)'
    BY <2>1, SamePages
  <2>3. request'.cursor = SearchCursor(g, request'.question, s[1], s[2], offset)
    BY <2>1
  <2> QED
    BY <2>2, <2>3
<1>5. (request.status = "complete" /\ ~request.disturbed =>
        \E s \in Index.repositories : request.found = Answers(Index, request.question, s[1], s[2]))'
  BY <1>1, Zenon DEF CursorInv
<1> QED
  BY <1>2, <1>3, <1>4, <1>5 DEF CursorInv

(* A step that leaves the request alone.                                     *)
LEMMA SearchGoesOn ==
  ASSUME SearchInv, UNCHANGED request,
         progress' \in [pc : SearchSteps, generation : Generations, repo : {progress'.repo},
                        commit : {progress'.commit}, offset : Nat, graph : Seq(AllRows), hits : Seq(AllRows),
                        lexical : Seq(AllRows)],
         PageInv'
  PROVE  SearchInv'
<1>1. SearchTypeOK'
  BY DEF SearchInv, SearchTypeOK
<1>2. CursorInv'
  BY CursorKept DEF SearchInv
<1> QED
  BY <1>1, <1>2 DEF SearchInv

(* A request that is refused.                                                *)
LEMMA SearchRefused ==
  ASSUME SearchInv,
         NEW status \in {"invalid_query", "invalid_cursor", "repository_required", "repository_not_found",
                         "repository_revision_not_found", "lexical_unavailable"},
         Answer(status)
  PROVE  SearchInv'
<1>1. request' = [request EXCEPT !.status = status] /\ progress' = Idle
  BY DEF Answer
<1>2. /\ request'.tool = "search" /\ request'.index = request.index /\ request'.question = request.question
      /\ request'.cursor = request.cursor /\ request'.found = request.found
      /\ request'.disturbed = request.disturbed /\ request'.status = status
  BY <1>1, SearchIs DEF SearchInv
<1>3. SearchTypeOK'
  BY <1>1, SearchIs DEF SearchInv, SearchTypeOK
<1>4. CursorInv'
  <2>1. PICK repo, commit : \A n \in DOMAIN request.found : /\ request.found[n].repo = repo
                                                           /\ request.found[n].commit = commit
    BY DEF SearchInv, CursorInv
  <2>2. \A n \in DOMAIN request'.found : request'.found[n].repo = repo /\ request'.found[n].commit = commit
    BY <1>2, <2>1
  <2>3. request'.status \notin {"new", "more", "complete"}
    BY <1>2
  <2> QED
    BY <2>2, <2>3 DEF CursorInv
<1> QED
  BY <1>1, <1>3, <1>4 DEF SearchInv, PageInv

(* A first page, or the next: the cursor decides what it continues.          *)
LEMMA SearchBegins == SearchInv /\ BeginSearch => SearchInv'
<1> SUFFICES ASSUME SearchInv, BeginSearch PROVE SearchInv'
  OBVIOUS
<1>1. CASE Answer("invalid_query") \/ Answer("invalid_cursor")
  BY <1>1, SearchRefused
<1>2. CASE /\ progress' = [pc |-> "search.snapshots", generation |-> Index.generation,
                           repo |-> None, commit |-> None, offset |-> 0,
                           graph |-> <<>>, hits |-> <<>>, lexical |-> <<>>]
           /\ request' = [request EXCEPT !.disturbed = @ /\ request.cursor # None]
  <2>1. /\ request'.tool = "search" /\ request'.index = request.index /\ request'.question = request.question
        /\ request'.cursor = request.cursor /\ request'.found = request.found
        /\ request'.disturbed = (request.disturbed /\ request.cursor # None) /\ request'.status = request.status
    BY <1>2, SearchIs DEF SearchInv
  <2>2. request.status \in {"new", "more"}
    BY DEF BeginSearch
  <2>3. Index.generation \in Generations
    BY SearchIs DEF SearchInv, Generations
  <2>4. SearchTypeOK'
    <3>1. request' \in [tool : {"search"}, index : DOMAIN Indexes, question : SearchQuestions,
                        cursor : {request'.cursor}, found : Seq(FoundRow), disturbed : BOOLEAN,
                        status : {"new", "more", "complete", "invalid_query", "invalid_cursor",
                                  "repository_required", "repository_not_found",
                                  "repository_revision_not_found", "lexical_unavailable"}]
      BY <1>2, <2>1, SearchIs DEF SearchInv, SearchTypeOK
    <3>2. progress' \in [pc : SearchSteps, generation : Generations, repo : {progress'.repo},
                         commit : {progress'.commit}, offset : Nat, graph : Seq(AllRows), hits : Seq(AllRows),
                         lexical : Seq(AllRows)]
      BY <1>2, <2>3 DEF SearchSteps
    <3> QED
      BY <3>1, <3>2 DEF SearchTypeOK
  <2>5. CursorInv'
    <3>1. CASE request.status = "new"
      BY <2>1, <3>1 DEF SearchInv, CursorInv
    <3>2. CASE request.status = "more"
      <4>1. PICK s \in Snapshots, g \in Generations, offset \in Nat :
              request.cursor = SearchCursor(g, request.question, s[1], s[2], offset) /\ ReadSoFar(s[1], s[2], offset)
        BY <3>2 DEF SearchInv, CursorInv
      <4>2. request.cursor # None
        BY <4>1, CursorIsNotNone, SearchIs DEF SearchInv
      <4>3. request' = request
        BY <1>2, <4>2, SearchIs DEF SearchInv
      <4> QED
        BY <4>3, CursorKept DEF SearchInv
    <3> QED
      BY <2>2, <3>1, <3>2
  <2>6. PageInv'
    BY <1>2, <2>1, <2>2 DEF PageInv, Idle
  <2> QED
    BY <2>4, <2>5, <2>6 DEF SearchInv
<1> QED
  BY <1>1, <1>2 DEF BeginSearch

(* A cursor continues what it was given for.                                 *)
LEMMA SnapshotChosen ==
  ASSUME SearchInv, progress.pc = "search.snapshots",
         NEW repo, NEW commit, <<repo, commit>> \in Index.repositories, Choose(request.question, repo, commit)
  PROVE  SearchInv'
<1> DEFINE q == request.question
           offset == Offset(q, repo, commit)
<1>1. CASE Answer("invalid_cursor")
  BY <1>1, SearchRefused
<1>2. CASE /\ ~(offset < 0)
           /\ progress' = [progress EXCEPT
                !.repo = repo, !.commit = commit, !.offset = offset,
                !.pc = IF q.mode = "lexical" THEN "search.lexical" ELSE "search.graph"]
           /\ UNCHANGED request
  <2>1. progress # Idle /\ request.status \in {"new", "more"} /\ progress.graph = <<>> /\ progress.lexical = <<>>
    BY DEF SearchInv, PageInv, Idle
  <2>2. offset \in Nat /\ ReadSoFar(repo, commit, offset)
    <3>1. CASE request.cursor = None
      <4>1. request.status # "more"
        <5> SUFFICES ASSUME request.status = "more" PROVE FALSE
          OBVIOUS
        <5>1. PICK s \in Snapshots, g \in Generations, k \in Nat :
                request.cursor = SearchCursor(g, request.question, s[1], s[2], k)
          BY DEF SearchInv, CursorInv
        <5> QED
          BY <3>1, <5>1, CursorIsNotNone, SearchIs DEF SearchInv
      <4>2. request.found = <<>> /\ offset = 0
        BY <2>1, <3>1, <4>1 DEF SearchInv, CursorInv, Offset
      <4>3. Answers(Index, q, repo, commit) \in Seq(AnswerRow(repo, commit))
        BY AnswersAre, SearchIs DEF SearchInv
      <4> DEFINE A == Answers(Index, q, repo, commit)
      <4> HIDE DEF A
      <4>4. SubSeq(A, 1, 0) = <<>> /\ 0 <= Len(A)
        BY <4>3 DEF A
      <4> QED
        BY <4>2, <4>4 DEF ReadSoFar, A
    <3>2. CASE request.cursor # None
      <4>1. PICK s \in Snapshots, g \in Generations, k \in Nat :
              request.cursor = SearchCursor(g, q, s[1], s[2], k) /\ ReadSoFar(s[1], s[2], k)
        BY <2>1, <3>2 DEF SearchInv, CursorInv
      <4>2. /\ request.cursor.q = [q EXCEPT !.repo = s[1], !.commit = s[2]]
            /\ request.cursor.offset = k
        BY <4>1 DEF SearchCursor
      <4>3. request.cursor.q = [q EXCEPT !.repo = repo, !.commit = commit] /\ offset = k
        BY <1>2, <3>2, <4>2 DEF Offset
      <4>4. s[1] = repo /\ s[2] = commit
        <5>1. q = [query |-> q.query, repo |-> q.repo, commit |-> q.commit, kind |-> q.kind, mode |-> q.mode,
                   scope |-> q.scope, limit |-> q.limit]
          BY SearchAssumption, SearchIs DEF SearchInv
        <5>2. /\ [q EXCEPT !.repo = s[1], !.commit = s[2]].repo = s[1]
              /\ [q EXCEPT !.repo = s[1], !.commit = s[2]].commit = s[2]
              /\ [q EXCEPT !.repo = repo, !.commit = commit].repo = repo
              /\ [q EXCEPT !.repo = repo, !.commit = commit].commit = commit
          BY <5>1
        <5> QED
          BY <4>2, <4>3, <5>2
      <4> QED
        BY <4>1, <4>3, <4>4
    <3> QED
      BY <3>1, <3>2
  <2> HIDE DEF offset
  <2>a. PICK k \in Nat : k = offset
    BY <2>2
  <2>3. /\ progress \in [pc : SearchSteps, generation : Generations, repo : {progress.repo}, commit : {progress.commit},
                         offset : Nat, graph : Seq(AllRows), hits : Seq(AllRows), lexical : Seq(AllRows)]
        /\ q.mode \in {"graph", "hybrid", "lexical"}
    BY <2>1, SearchAssumption, SearchIs DEF SearchInv, SearchTypeOK
  <2>4. /\ progress'.repo = repo /\ progress'.commit = commit /\ progress'.offset = offset
        /\ progress'.graph = <<>> /\ progress'.lexical = <<>> /\ progress' # Idle
        /\ progress'.pc = IF q.mode = "lexical" THEN "search.lexical" ELSE "search.graph"
    BY <1>2, <2>1, <2>3 DEF Idle
  <2>5. progress' \in [pc : SearchSteps, generation : Generations, repo : {progress'.repo},
                       commit : {progress'.commit}, offset : Nat, graph : Seq(AllRows), hits : Seq(AllRows),
                       lexical : Seq(AllRows)]
    BY <1>2, <2>2, <2>3, <2>4 DEF SearchSteps
  <2>6. <<repo, commit>> \in Snapshots
    BY SearchIs DEF SearchInv
  <2>7. ReadSoFar(repo, commit, k)'
    BY <1>2, <2>2, <2>a, SamePages
  <2>8. ReadSoFar(progress.repo, progress.commit, progress.offset)'
    BY <2>4, <2>7, <2>a DEF ReadSoFar
  <2>9. PageInv'
    BY <1>2, <2>1, <2>4, <2>6, <2>8 DEF PageInv, GraphPart
  <2> QED
    BY <1>2, <2>5, <2>9, SearchGoesOn
<1> QED
  BY <1>1, <1>2 DEF Choose

(* The last commit exists, there being finitely many.                        *)
LEMMA SnapshotsChosen == SearchInv /\ ChooseSnapshot => SearchInv'
<1> SUFFICES ASSUME SearchInv, ChooseSnapshot PROVE SearchInv'
  OBVIOUS
<1> DEFINE q == request.question
<1>1. CASE Answer("repository_required")
  BY <1>1, SearchRefused
<1>2. CASE \E repo \in IF q.repo = None THEN Repositories ELSE {q.repo} :
             IF CommitsOf(repo) = {} THEN Answer("repository_not_found")
             ELSE IF q.commit # None /\ q.commit \notin CommitsOf(repo)
             THEN Answer("repository_revision_not_found")
             ELSE Choose(q, repo, IF q.commit # None THEN q.commit ELSE Max(CommitsOf(repo)))
  <2>1. PICK repo :
          IF CommitsOf(repo) = {} THEN Answer("repository_not_found")
          ELSE IF q.commit # None /\ q.commit \notin CommitsOf(repo)
          THEN Answer("repository_revision_not_found")
          ELSE Choose(q, repo, IF q.commit # None THEN q.commit ELSE Max(CommitsOf(repo)))
    BY <1>2
  <2>2. CASE Answer("repository_not_found") \/ Answer("repository_revision_not_found")
    BY <2>2, SearchRefused
  <2>3. CASE /\ CommitsOf(repo) # {} /\ ~(q.commit # None /\ q.commit \notin CommitsOf(repo))
             /\ Choose(q, repo, IF q.commit # None THEN q.commit ELSE Max(CommitsOf(repo)))
    <3>1. CommitsOf(repo) \in SUBSET Int /\ IsFiniteSet(CommitsOf(repo))
      <4> DEFINE S == {t \in Index.repositories : t[1] = repo}
                 f == [s \in S |-> s[2]]
      <4>1. IsFiniteSet(Index.repositories) /\ \A s \in Index.repositories : s[2] \in Int
        BY SearchAssumption, SearchIs DEF SearchInv
      <4>2. IsFiniteSet(S) /\ S \subseteq Index.repositories
        BY <4>1, FS_Subset
      <4> HIDE DEF S
      <4>3. CommitsOf(repo) = {f[s] : s \in S}
        BY DEF CommitsOf, S
      <4> HIDE DEF f
      <4>4. IsFiniteSet({f[s] : s \in S})
        BY <4>2, FiniteImage
      <4> QED
        BY <4>1, <4>2, <4>3, <4>4 DEF f
    <3>2. PICK commit \in CommitsOf(repo) : Choose(q, repo, commit)
      <4>1. Max(CommitsOf(repo)) \in CommitsOf(repo)
        BY <2>3, <3>1, FiniteMax
      <4> QED
        BY <2>3, <4>1
    <3>3. <<repo, commit>> \in Index.repositories
      <4>1. PICK s \in Index.repositories : s[1] = repo /\ s[2] = commit
        BY DEF CommitsOf
      <4>2. s = <<s[1], s[2]>>
        BY SearchAssumption, SearchIs DEF SearchInv
      <4> QED
        BY <4>1, <4>2
    <3> QED
      BY <3>2, <3>3, SnapshotChosen DEF ChooseSnapshot
  <2> QED
    BY <2>1, <2>2, <2>3
<1> QED
  BY <1>1, <1>2 DEF ChooseSnapshot

(* What the types say of the search that is under way.                       *)
LEMMA SearchAtHand ==
  ASSUME SearchInv, progress # Idle
  PROVE  /\ progress \in [pc : SearchSteps, generation : Generations, repo : {progress.repo}, commit : {progress.commit},
                          offset : Nat, graph : Seq(AllRows), hits : Seq(AllRows), lexical : Seq(AllRows)]
         /\ Index \in ToSet(Indexes) /\ request.question \in SearchQuestions
         /\ request.question.mode \in {"graph", "hybrid", "lexical"}
         /\ Index.graph \in Seq(AllRows) /\ Index.lexical \in Seq(AllRows)
<1>1. Index \in ToSet(Indexes) /\ request.question \in SearchQuestions
  BY SearchIs DEF SearchInv
<1>2. IndexRows(Index) \subseteq AllRows
  BY <1>1 DEF AllRows
<1>3. Index.graph \in Seq(IndexRows(Index)) /\ Index.lexical \in Seq(IndexRows(Index))
  BY <1>1, SearchAssumption
<1>4. Index.graph \in Seq(AllRows) /\ Index.lexical \in Seq(AllRows)
  BY <1>2, <1>3, SeqMonotonic
<1> QED
  BY <1>1, <1>4, SearchAssumption DEF SearchInv, SearchTypeOK

(* A search that reads on stays where it is.                                 *)
LEMMA PlaceKept ==
  ASSUME UNCHANGED request, progress'.repo = progress.repo, progress'.commit = progress.commit,
         progress'.offset = progress.offset, ReadSoFar(progress.repo, progress.commit, progress.offset)
  PROVE  ReadSoFar(progress.repo, progress.commit, progress.offset)'
<1>1. Index' = Index
  BY DEF Index
<1> QED
  BY <1>1, Zenon DEF ReadSoFar

(* The reads of one page, one after another.                                 *)
LEMMA GraphSearched == SearchInv /\ SearchGraph => SearchInv'
<1> SUFFICES ASSUME SearchInv, SearchGraph PROVE SearchInv'
  OBVIOUS
<1> DEFINE q == request.question
           pool == Candidates(Index.graph, progress)
<1>1. /\ progress.pc = "search.graph" /\ UNCHANGED request
      /\ progress' = [progress EXCEPT
           !.graph = pool, !.pc = IF q.mode = "hybrid" THEN "search.lexical" ELSE "search.rank"]
  BY DEF SearchGraph
<1>2. progress # Idle
  BY <1>1 DEF Idle
<1>3. pool = Pool(Index.graph, q, progress.repo, progress.commit)
  BY DEF Candidates, Pool
<1>4. pool \in Seq(AllRows)
  BY <1>2, <1>3, SearchAtHand, PoolIs
<1>5. pool = GraphPart(Index, q, progress.repo, progress.commit) /\ q.mode \in {"graph", "hybrid"} /\ progress.lexical = <<>>
  BY <1>1, <1>2, <1>3, SearchAtHand DEF SearchInv, PageInv, GraphPart
<1> HIDE DEF pool
<1>6. /\ progress'.repo = progress.repo /\ progress'.commit = progress.commit /\ progress'.offset = progress.offset
      /\ progress'.graph = pool /\ progress'.lexical = <<>> /\ progress' # Idle
      /\ progress'.pc = IF q.mode = "hybrid" THEN "search.lexical" ELSE "search.rank"
  BY <1>1, <1>2, <1>5, SearchAtHand DEF Idle
<1>7. progress' \in [pc : SearchSteps, generation : Generations, repo : {progress'.repo},
                     commit : {progress'.commit}, offset : Nat, graph : Seq(AllRows), hits : Seq(AllRows),
                     lexical : Seq(AllRows)]
  BY <1>1, <1>2, <1>4, <1>6, SearchAtHand DEF SearchSteps
<1>8. <<progress.repo, progress.commit>> \in Snapshots /\ ReadSoFar(progress.repo, progress.commit, progress.offset)
      /\ request.status \in {"new", "more"}
  BY <1>1, <1>2 DEF SearchInv, PageInv
<1>9. ReadSoFar(progress.repo, progress.commit, progress.offset)'
  BY <1>1, <1>6, <1>8, PlaceKept
<1>10. Index' = Index
  BY <1>1 DEF Index
<1>11. PageInv'
  BY <1>1, <1>5, <1>6, <1>8, <1>9, <1>10 DEF PageInv, LexicalPart
<1> QED
  BY <1>1, <1>7, <1>11, SearchGoesOn

LEMMA LexicalSearched == SearchInv /\ SearchLexical => SearchInv'
<1> SUFFICES ASSUME SearchInv, SearchLexical PROVE SearchInv'
  OBVIOUS
<1> DEFINE q == request.question
           hits == IF q.kind = "type" THEN <<>> ELSE Candidates(Index.lexical, progress)
<1>1. /\ progress.pc = "search.lexical" /\ UNCHANGED request
      /\ progress' = [progress EXCEPT !.hits = hits, !.pc = "search.merge"]
  BY DEF SearchLexical
<1>2. progress # Idle
  BY <1>1 DEF Idle
<1>3. hits = HitsPart(Index, q, progress.repo, progress.commit)
  BY DEF Candidates, Pool, HitsPart
<1> HIDE DEF hits
<1>4. hits \in Seq(AllRows)
  BY <1>2, <1>3, SearchAtHand, PartsAre
<1>6. /\ progress'.repo = progress.repo /\ progress'.commit = progress.commit /\ progress'.offset = progress.offset
      /\ progress'.graph = progress.graph /\ progress'.hits = hits /\ progress' # Idle /\ progress'.pc = "search.merge"
  BY <1>1, <1>2, SearchAtHand DEF Idle
<1>7. progress' \in [pc : SearchSteps, generation : Generations, repo : {progress'.repo},
                     commit : {progress'.commit}, offset : Nat, graph : Seq(AllRows), hits : Seq(AllRows),
                     lexical : Seq(AllRows)]
  BY <1>1, <1>2, <1>4, <1>6, SearchAtHand DEF SearchSteps
<1>8. /\ <<progress.repo, progress.commit>> \in Snapshots /\ ReadSoFar(progress.repo, progress.commit, progress.offset)
      /\ request.status \in {"new", "more"} /\ q.mode # "graph"
      /\ ~request.disturbed => progress.graph = GraphPart(Index, q, progress.repo, progress.commit)
  BY <1>1, <1>2 DEF SearchInv, PageInv
<1>9. ReadSoFar(progress.repo, progress.commit, progress.offset)'
  BY <1>1, <1>6, <1>8, PlaceKept
<1>10. Index' = Index
  BY <1>1 DEF Index
<1>11. PageInv'
  BY <1>1, <1>3, <1>6, <1>8, <1>9, <1>10 DEF PageInv
<1> QED
  BY <1>1, <1>7, <1>11, SearchGoesOn

LEMMA HitsMerged == SearchInv /\ MergeHits => SearchInv'
<1> SUFFICES ASSUME SearchInv, MergeHits PROVE SearchInv'
  OBVIOUS
<1> DEFINE q == request.question
           S == {r \in ToSet(progress.hits) : InGraph(r)}
           merged == Among(progress.hits, S)
<1>1. /\ progress.pc = "search.merge" /\ UNCHANGED request
      /\ progress' = [progress EXCEPT !.lexical = merged, !.pc = "search.rank"]
  BY DEF MergeHits
<1>2. progress # Idle
  BY <1>1 DEF Idle
<1>3. merged = Alive(Index, progress.hits, progress.repo, progress.commit)
  BY DEF Alive, InGraph
<1>4. merged \in Seq(AllRows)
  <2>1. progress.hits \in Seq(AllRows)
    BY <1>2, SearchAtHand
  <2> HIDE DEF S
  <2> QED
    BY <2>1, AmongGrows
<1> HIDE DEF merged
<1>6. /\ progress'.repo = progress.repo /\ progress'.commit = progress.commit /\ progress'.offset = progress.offset
      /\ progress'.graph = progress.graph /\ progress'.lexical = merged /\ progress' # Idle
      /\ progress'.pc = "search.rank"
  BY <1>1, <1>2, SearchAtHand DEF Idle
<1>7. progress' \in [pc : SearchSteps, generation : Generations, repo : {progress'.repo},
                     commit : {progress'.commit}, offset : Nat, graph : Seq(AllRows), hits : Seq(AllRows),
                     lexical : Seq(AllRows)]
  BY <1>1, <1>2, <1>4, <1>6, SearchAtHand DEF SearchSteps
<1>8. /\ <<progress.repo, progress.commit>> \in Snapshots /\ ReadSoFar(progress.repo, progress.commit, progress.offset)
      /\ request.status \in {"new", "more"} /\ q.mode # "graph"
      /\ ~request.disturbed => /\ progress.graph = GraphPart(Index, q, progress.repo, progress.commit)
                               /\ progress.hits = HitsPart(Index, q, progress.repo, progress.commit)
  BY <1>1, <1>2 DEF SearchInv, PageInv
<1>9. ReadSoFar(progress.repo, progress.commit, progress.offset)'
  BY <1>1, <1>6, <1>8, PlaceKept
<1>10. Index' = Index
  BY <1>1 DEF Index
<1>11. ~request.disturbed => merged = LexicalPart(Index, q, progress.repo, progress.commit)
  BY <1>3, <1>8 DEF LexicalPart
<1>12. PageInv'
  BY <1>1, <1>6, <1>8, <1>9, <1>10, <1>11 DEF PageInv
<1> QED
  BY <1>1, <1>7, <1>12, SearchGoesOn

(* A content is replaced: nothing but the snapshot of the pages is sure.     *)
LEMMA IndexChanged == SearchInv /\ Reindex => SearchInv'
<1> SUFFICES ASSUME SearchInv, Reindex PROVE SearchInv'
  OBVIOUS
<1>1. /\ request.index < Len(Indexes) /\ UNCHANGED progress
      /\ request' = [request EXCEPT !.index = @ + 1, !.disturbed = TRUE]
  BY DEF Reindex
<1>2. /\ request'.tool = "search" /\ request'.index = request.index + 1 /\ request'.question = request.question
      /\ request'.cursor = request.cursor /\ request'.found = request.found
      /\ request'.disturbed = TRUE /\ request'.status = request.status
  BY <1>1, SearchIs DEF SearchInv
<1>3. request.index + 1 \in DOMAIN Indexes
  BY <1>1, SearchAssumption, SearchIs DEF SearchInv
<1>4. SearchTypeOK'
  <2>1. request' \in [tool : {"search"}, index : DOMAIN Indexes, question : SearchQuestions,
                      cursor : {request'.cursor}, found : Seq(FoundRow), disturbed : BOOLEAN,
                      status : {"new", "more", "complete", "invalid_query", "invalid_cursor",
                                "repository_required", "repository_not_found",
                                "repository_revision_not_found", "lexical_unavailable"}]
    BY <1>1, <1>2, <1>3, SearchIs DEF SearchInv, SearchTypeOK
  <2> QED
    BY <1>1, <2>1 DEF SearchInv, SearchTypeOK
<1>5. ASSUME NEW repo, NEW commit, NEW offset, ReadSoFar(repo, commit, offset)
      PROVE  ReadSoFar(repo, commit, offset)'
  BY <1>2, <1>5 DEF ReadSoFar
<1>6. CursorInv'
  <2>1. PICK repo, commit : \A n \in DOMAIN request.found : /\ request.found[n].repo = repo
                                                           /\ request.found[n].commit = commit
    BY DEF SearchInv, CursorInv
  <2>2. (\E r, c : \A n \in DOMAIN request.found : request.found[n].repo = r /\ request.found[n].commit = c)'
    <3>1. \A n \in DOMAIN request'.found : request'.found[n].repo = repo /\ request'.found[n].commit = commit
      BY <1>2, <2>1
    <3> QED
      BY <3>1
  <2>3. ASSUME request.status = "more"
        PROVE  (\E s \in Snapshots, g \in Generations, offset \in Nat :
                  request.cursor = SearchCursor(g, request.question, s[1], s[2], offset) /\ ReadSoFar(s[1], s[2], offset))'
    <3>1. PICK s \in Snapshots, g \in Generations, offset \in Nat :
            request.cursor = SearchCursor(g, request.question, s[1], s[2], offset) /\ ReadSoFar(s[1], s[2], offset)
      BY <2>3 DEF SearchInv, CursorInv
    <3>2. ReadSoFar(s[1], s[2], offset)'
      BY <1>5, <3>1
    <3>3. request'.cursor = SearchCursor(g, request'.question, s[1], s[2], offset)
      BY <1>2, <3>1
    <3> QED
      BY <3>2, <3>3
  <2> QED
    BY <1>2, <2>2, <2>3 DEF SearchInv, CursorInv
<1>7. progress.pc # "search.snapshots" /\ progress # Idle => ReadSoFar(progress.repo, progress.commit, progress.offset)'
  <2> SUFFICES ASSUME progress.pc # "search.snapshots", progress # Idle
               PROVE  ReadSoFar(progress.repo, progress.commit, progress.offset)'
    OBVIOUS
  <2>1. ReadSoFar(progress.repo, progress.commit, progress.offset)
    BY DEF SearchInv, PageInv
  <2> QED
    BY <1>1, <1>2, <2>1 DEF ReadSoFar
<1>8. PageInv'
  BY <1>1, <1>2, <1>7 DEF SearchInv, PageInv
<1> QED
  BY <1>4, <1>6, <1>8 DEF SearchInv

(* The next page of a ranking that is read up to an offset.                  *)
LEMMA RankingGrows ==
  ASSUME NEW T, NEW rows \in Seq(T), NEW repo, NEW commit, NEW offset \in Nat, offset <= Len(rows), NEW limit \in Nat
  PROVE  SubSeq(Placed(rows, repo, commit), 1, offset) \o Placed(Window(rows, offset, limit), repo, commit) =
           SubSeq(Placed(rows, repo, commit), 1, IF Len(rows) > offset + limit THEN offset + limit ELSE Len(rows))
<1> DEFINE A == Placed(rows, repo, commit)
           end == IF Len(rows) > offset + limit THEN offset + limit ELSE Len(rows)
           page == Window(rows, offset, limit)
           B == Placed(page, repo, commit)
           a == SubSeq(A, 1, offset)
           all == SubSeq(A, 1, end)
           X == {A[n] : n \in 1 .. Len(rows)}
<1>1. end \in Nat /\ offset <= end /\ end <= Len(rows) /\ Len(rows) \in Nat
  OBVIOUS
<1>2. page = SubSeq(rows, offset + 1, end)
  <2>1. (IF Len(rows) < offset + limit THEN Len(rows) ELSE offset + limit) = end
    OBVIOUS
  <2> QED
    BY <2>1 DEF Window
<1> HIDE DEF end, page
<1>3. page \in Seq(T) /\ Len(page) = end - offset /\ \A k \in 1 .. end - offset : page[k] = rows[offset + k]
  BY <1>1, <1>2
<1>4. /\ DOMAIN A = 1 .. Len(rows)
      /\ \A n \in 1 .. Len(rows) : A[n] = [key |-> rows[n].key, repo |-> repo, commit |-> commit]
  <2>1. DOMAIN rows = 1 .. Len(rows)
    OBVIOUS
  <2> QED
    BY <2>1 DEF Placed
<1>5. /\ DOMAIN B = 1 .. end - offset
      /\ \A n \in 1 .. end - offset : B[n] = [key |-> page[n].key, repo |-> repo, commit |-> commit]
  <2>1. DOMAIN page = 1 .. end - offset
    BY <1>1, <1>3
  <2> QED
    BY <2>1 DEF Placed
<1>a. B = [n \in 1 .. end - offset |-> [key |-> page[n].key, repo |-> repo, commit |-> commit]]
  BY <1>1, <1>3 DEF Placed
<1>b. A = [n \in 1 .. Len(rows) |-> [key |-> rows[n].key, repo |-> repo, commit |-> commit]]
  BY DEF Placed
<1> HIDE DEF A, B
<1>6. A \in Seq(X) /\ Len(A) = Len(rows)
  <2>1. \A n \in 1 .. Len(rows) : A[n] \in X
    OBVIOUS
  <2> HIDE DEF X
  <2>2. A \in [1 .. Len(rows) -> X]
    BY <1>b, <2>1
  <2> QED
    BY <1>1, <2>2
<1>7. \A k \in 1 .. end - offset : B[k] = A[offset + k]
  <2> TAKE k \in 1 .. end - offset
  <2>1. offset + k \in 1 .. Len(rows) /\ page[k] = rows[offset + k]
    BY <1>1, <1>3
  <2> QED
    BY <1>4, <1>5, <2>1
<1>8. B \in Seq(X) /\ Len(B) = end - offset
  <2>1. \A k \in 1 .. end - offset : B[k] \in X
    <3> TAKE k \in 1 .. end - offset
    <3>1. offset + k \in 1 .. Len(rows)
      BY <1>1
    <3> QED
      BY <1>7, <3>1
  <2> HIDE DEF X
  <2>2. B \in [1 .. end - offset -> X]
    BY <1>a, <2>1
  <2>3. end - offset \in Nat
    BY <1>1
  <2> QED
    BY <2>2, <2>3
<1> HIDE DEF X
<1>9. a \in Seq(X) /\ Len(a) = offset /\ \A k \in 1 .. offset : a[k] = A[k]
  BY <1>1, <1>6
<1>10. all \in Seq(X) /\ Len(all) = end /\ \A k \in 1 .. end : all[k] = A[k]
  BY <1>1, <1>6
<1> HIDE DEF a, all
<1>11. a \o B = all
  <2>1. /\ a \o B \in Seq(X) /\ Len(a \o B) = Len(a) + Len(B)
        /\ \A n \in 1 .. Len(a) + Len(B) : (a \o B)[n] = IF n <= Len(a) THEN a[n] ELSE B[n - Len(a)]
    BY <1>8, <1>9, ConcatProperties
  <2> DEFINE u == a \o B
  <2> HIDE DEF u
  <2>2. u \in Seq(X) /\ Len(u) = end
    BY <1>1, <1>8, <1>9, <2>1 DEF u
  <2>3. \A n \in 1 .. end : u[n] = all[n]
    <3> TAKE n \in 1 .. end
    <3>0. n \in 1 .. Len(a) + Len(B) /\ Len(a) = offset
      BY <1>1, <1>8, <1>9
    <3>1. u[n] = IF n <= offset THEN a[n] ELSE B[n - offset]
      BY <2>1, <3>0, Zenon DEF u
    <3>2. CASE n <= offset
      BY <1>1, <1>9, <1>10, <3>1, <3>2
    <3>3. CASE ~(n <= offset)
      <4>1. n - offset \in 1 .. end - offset /\ offset + (n - offset) = n
        BY <1>1, <3>3
      <4>2. B[n - offset] = A[offset + (n - offset)]
        BY <1>7, <4>1
      <4>3. u[n] = A[n]
        BY <3>1, <3>3, <4>1, <4>2
      <4> QED
        BY <1>10, <4>3
    <3> QED
      BY <3>2, <3>3
  <2>4. u = all
    BY <1>10, <2>2, <2>3, SeqEqual
  <2> QED
    BY <2>4 DEF u
<1> QED
  BY <1>11 DEF a, B, all, A, end, page

(* The rows of any page, of a ranking that need not be the one before.       *)
LEMMA PageIs ==
  ASSUME NEW rows \in Seq([key : Int, score : Int]), NEW offset \in Nat, NEW limit \in Nat,
         NEW s \in Snapshots
  PROVE  Placed(Window(rows, offset, limit), s[1], s[2]) \in Seq(FoundRow)
<1> DEFINE T == [key : Int, score : Int]
           end == IF Len(rows) < offset + limit THEN Len(rows) ELSE offset + limit
           page == Window(rows, offset, limit)
<1>1. end \in Nat /\ end <= Len(rows)
  OBVIOUS
<1>2. page \in Seq(T)
  <2>1. page = SubSeq(rows, offset + 1, end)
    BY DEF Window
  <2> HIDE DEF end, T
  <2>2. \A i \in offset + 1 .. end : i \in 1 .. Len(rows)
    BY <1>1
  <2>3. rows \in Seq(T)
    BY DEF T
  <2>4. SubSeq(rows, offset + 1, end) \in Seq(T)
    BY <1>1, <2>2, <2>3, SubSeqProperties
  <2> QED
    BY <2>1, <2>4
<1> HIDE DEF page
<1>3. DOMAIN page = 1 .. Len(page) /\ Len(page) \in Nat /\ \A n \in 1 .. Len(page) : page[n].key \in Int
  <2>1. \A n \in 1 .. Len(page) : page[n] \in T
    BY <1>2, ElementOfSeq
  <2> QED
    BY <1>2, <2>1
<1>4. \A k \in Int : [key |-> k, repo |-> s[1], commit |-> s[2]] \in FoundRow
  BY DEF FoundRow
<1>5. Placed(page, s[1], s[2]) \in [1 .. Len(page) -> FoundRow]
  BY <1>3, <1>4 DEF Placed
<1>6. Placed(page, s[1], s[2]) \in Seq(FoundRow)
  <2> DEFINE P == Placed(page, s[1], s[2])
             X == FoundRow
  <2>1. P \in [1 .. Len(page) -> X] /\ Len(page) \in Nat
    BY <1>3, <1>5
  <2> HIDE DEF P, X
  <2>2. P \in Seq(X)
    BY <2>1
  <2> QED
    BY <2>2 DEF P, X
<1> QED
  BY <1>6 DEF page

(* The page that is reported, and the cursor after it.                       *)
LEMMA PageRanked == SearchInv /\ RankPage => SearchInv'
<1> SUFFICES ASSUME SearchInv, RankPage PROVE SearchInv'
  OBVIOUS
<1> DEFINE q == request.question
           p == progress
           rows == Ranked(p.graph \o p.lexical, q.scope)
           offset == p.offset
           end == offset + q.limit
           more == Len(rows) > end
           page == Placed(Window(rows, offset, q.limit), p.repo, p.commit)
           A == Answers(Index, q, p.repo, p.commit)
<1>1. /\ p.pc = "search.rank" /\ progress' = Idle
      /\ request' = [request EXCEPT
           !.found = @ \o page,
           !.cursor = IF more THEN SearchCursor(p.generation, q, p.repo, p.commit, end) ELSE None,
           !.status = IF more THEN "more" ELSE "complete"]
  BY DEF RankPage, Report, Placed
<1>2. progress # Idle
  BY <1>1 DEF Idle
<1>3. p.graph \in Seq(AllRows) /\ p.lexical \in Seq(AllRows) /\ offset \in Nat /\ p.generation \in Generations
      /\ q \in SearchQuestions /\ q.limit \in Nat
  BY <1>2, SearchAtHand, SearchAssumption
<1>4. rows \in Seq([key : Int, score : Int])
  <2>1. p.graph \o p.lexical \in Seq(AllRows)
    BY <1>3, ConcatProperties
  <2> QED
    BY <2>1, RankedIs
<1>5. /\ <<p.repo, p.commit>> \in Snapshots /\ ReadSoFar(p.repo, p.commit, offset)
      /\ ~request.disturbed => /\ p.graph = GraphPart(Index, q, p.repo, p.commit)
                               /\ p.lexical = LexicalPart(Index, q, p.repo, p.commit)
  BY <1>1, <1>2 DEF SearchInv, PageInv
<1>6. ~request.disturbed => A = Placed(rows, p.repo, p.commit)
  BY <1>5 DEF Answers, Ranking
<1>7. page \in Seq(FoundRow)
  <2>1. PICK s \in Snapshots : s = <<p.repo, p.commit>>
    BY <1>5
  <2>2. s[1] = p.repo /\ s[2] = p.commit
    BY <2>1
  <2> HIDE DEF rows
  <2>3. Placed(Window(rows, offset, q.limit), s[1], s[2]) \in Seq(FoundRow)
    BY <1>3, <1>4, PageIs
  <2> QED
    BY <2>2, <2>3
<1>8. \A n \in DOMAIN page : page[n].repo = p.repo /\ page[n].commit = p.commit
  BY DEF Placed
<1>9. ~request.disturbed =>
        /\ <<p.repo, p.commit>> \in Index.repositories /\ Len(A) = Len(rows) /\ offset <= Len(rows)
        /\ request.found \o page = SubSeq(A, 1, IF more THEN end ELSE Len(rows))
        /\ A \in Seq(AnswerRow(p.repo, p.commit))
  <2> SUFFICES ASSUME ~request.disturbed
               PROVE  /\ <<p.repo, p.commit>> \in Index.repositories /\ Len(A) = Len(rows) /\ offset <= Len(rows)
                      /\ request.found \o page = SubSeq(A, 1, IF more THEN end ELSE Len(rows))
                      /\ A \in Seq(AnswerRow(p.repo, p.commit))
    OBVIOUS
  <2>1. /\ <<p.repo, p.commit>> \in Index.repositories /\ offset <= Len(A) /\ request.found = SubSeq(A, 1, offset)
    BY <1>5 DEF ReadSoFar
  <2>2. A \in Seq(AnswerRow(p.repo, p.commit))
    BY <1>2, AnswersAre, SearchAtHand
  <2> HIDE DEF A, rows
  <2>3. Len(A) = Len(rows)
    <3>1. DOMAIN A = 1 .. Len(rows) /\ Len(rows) \in Nat
      BY <1>4, <1>6 DEF Placed
    <3>2. DOMAIN A = 1 .. Len(A) /\ Len(A) \in Nat
      BY <2>2
    <3> QED
      BY <3>1, <3>2
  <2>4. SubSeq(A, 1, offset) \o page = SubSeq(A, 1, IF more THEN end ELSE Len(rows))
    <3>1. offset <= Len(rows)
      BY <2>1, <2>3
    <3>2. SubSeq(Placed(rows, p.repo, p.commit), 1, offset) \o Placed(Window(rows, offset, q.limit), p.repo, p.commit) =
            SubSeq(Placed(rows, p.repo, p.commit), 1,
                   IF Len(rows) > offset + q.limit THEN offset + q.limit ELSE Len(rows))
      BY <1>3, <1>4, <3>1, RankingGrows
    <3>3. A = Placed(rows, p.repo, p.commit)
      BY <1>6
    <3> QED
      BY <3>2, <3>3
  <2> QED
    BY <2>1, <2>2, <2>3, <2>4
<1> HIDE DEF rows, page, A
<1>10. request.found \in Seq(FoundRow) /\ request.disturbed \in BOOLEAN
  BY SearchIs DEF SearchInv
<1> DEFINE found == request.found \o page
<1>11. found \in Seq(FoundRow) /\ \A n \in DOMAIN found : found[n].repo = p.repo /\ found[n].commit = p.commit
  <2>1. /\ found \in Seq(FoundRow) /\ Len(found) = Len(request.found) + Len(page)
        /\ \A n \in 1 .. Len(request.found) + Len(page) :
             found[n] = IF n <= Len(request.found) THEN request.found[n] ELSE page[n - Len(request.found)]
    BY <1>7, <1>10, ConcatProperties
  <2>2. \A n \in DOMAIN request.found : request.found[n].repo = p.repo /\ request.found[n].commit = p.commit
    BY <1>5 DEF ReadSoFar
  <2> HIDE DEF found
  <2>3. /\ DOMAIN found = 1 .. Len(request.found) + Len(page) /\ DOMAIN page = 1 .. Len(page)
        /\ DOMAIN request.found = 1 .. Len(request.found) /\ Len(page) \in Nat /\ Len(request.found) \in Nat
    BY <1>7, <1>10, <2>1
  <2>4. ASSUME NEW n \in 1 .. Len(request.found) + Len(page)
        PROVE  found[n].repo = p.repo /\ found[n].commit = p.commit
    <3>1. CASE n <= Len(request.found)
      BY <2>1, <2>2, <2>3, <3>1
    <3>2. CASE ~(n <= Len(request.found))
      <4>1. n - Len(request.found) \in DOMAIN page
        BY <2>3, <3>2
      <4>2. found[n] = page[n - Len(request.found)]
        BY <2>1, <3>2, Zenon
      <4> QED
        BY <1>8, <4>1, <4>2
    <3> QED
      BY <3>1, <3>2
  <2> QED
    BY <2>1, <2>3, <2>4
<1>12. /\ request'.tool = "search" /\ request'.index = request.index /\ request'.question = q
       /\ request'.found = found /\ request'.disturbed = request.disturbed
       /\ request'.cursor = IF more THEN SearchCursor(p.generation, q, p.repo, p.commit, end) ELSE None
       /\ request'.status = IF more THEN "more" ELSE "complete"
  BY <1>1, SearchIs DEF SearchInv
<1>13. SearchTypeOK'
  <2>1. request' \in [tool : {"search"}, index : DOMAIN Indexes, question : SearchQuestions,
                      cursor : {request'.cursor}, found : Seq(FoundRow), disturbed : BOOLEAN,
                      status : {"new", "more", "complete", "invalid_query", "invalid_cursor",
                                "repository_required", "repository_not_found",
                                "repository_revision_not_found", "lexical_unavailable"}]
    <3> HIDE DEF found, more
    <3> QED
      BY <1>1, <1>11, <1>12, SearchIs DEF SearchInv, found
  <2> QED
    BY <1>1, <2>1 DEF SearchTypeOK
<1>14. Index' = Index
  BY <1>12 DEF Index
<1>15. PICK s \in Snapshots, g \in Generations, k \in Nat :
         s = <<p.repo, p.commit>> /\ g = p.generation /\ k = end
  BY <1>3, <1>5
<1>16. s[1] = p.repo /\ s[2] = p.commit
  BY <1>15
<1> HIDE DEF found
<1>17. more => ReadSoFar(s[1], s[2], k)'
  <2> SUFFICES ASSUME more PROVE ReadSoFar(s[1], s[2], k)'
    OBVIOUS
  <2>1. \A n \in DOMAIN request'.found : request'.found[n].repo = s[1] /\ request'.found[n].commit = s[2]
    BY <1>11, <1>12, <1>16
  <2>2. ASSUME ~request'.disturbed
        PROVE  /\ <<s[1], s[2]>> \in Index'.repositories
               /\ k <= Len(Answers(Index', request'.question, s[1], s[2]))
               /\ request'.found = SubSeq(Answers(Index', request'.question, s[1], s[2]), 1, k)
    <3>1. Answers(Index', request'.question, s[1], s[2]) = A /\ ~request.disturbed
      BY <1>12, <1>14, <1>16, <2>2 DEF A
    <3>2. /\ <<p.repo, p.commit>> \in Index.repositories /\ Len(A) = Len(rows)
          /\ found = SubSeq(A, 1, k)
      BY <1>9, <1>15, <3>1 DEF found
    <3>3. k <= Len(A)
      BY <1>3, <1>4, <1>15, <3>2
    <3> QED
      BY <1>12, <1>14, <1>16, <3>1, <3>2, <3>3
  <2> QED
    BY <2>1, <2>2 DEF ReadSoFar
<1>18. CursorInv'
  <2>1. (\E r, c : \A n \in DOMAIN request.found : request.found[n].repo = r /\ request.found[n].commit = c)'
    <3>1. \A n \in DOMAIN request'.found : request'.found[n].repo = s[1] /\ request'.found[n].commit = s[2]
      BY <1>11, <1>12, <1>16
    <3> QED
      BY <3>1
  <2>2. request'.status # "new"
    BY <1>12
  <2>3. ASSUME request'.status = "more"
        PROVE  request'.cursor = SearchCursor(g, request'.question, s[1], s[2], k) /\ ReadSoFar(s[1], s[2], k)'
    BY <1>12, <1>15, <1>16, <1>17, <2>3
  <2>4. ASSUME request'.status = "complete", ~request'.disturbed
        PROVE  s \in Index'.repositories /\ request'.found = Answers(Index', request'.question, s[1], s[2])
    <3>1. Answers(Index', request'.question, s[1], s[2]) = A /\ ~request.disturbed /\ ~more
      BY <1>12, <1>14, <1>16, <2>4 DEF A
    <3>2. /\ <<p.repo, p.commit>> \in Index.repositories /\ Len(A) = Len(rows)
          /\ found = SubSeq(A, 1, Len(A)) /\ A \in Seq(AnswerRow(p.repo, p.commit))
      BY <1>9, <3>1 DEF found
    <3>3. SubSeq(A, 1, Len(A)) = A
      BY <3>2
    <3> QED
      BY <1>12, <1>14, <1>15, <3>1, <3>2, <3>3
  <2> QED
    BY <2>1, <2>2, <2>3, <2>4 DEF CursorInv
<1> QED
  BY <1>1, <1>13, <1>18 DEF SearchInv, PageInv

LEMMA SearchStep == SearchInv /\ [SearchNext]_vars => SearchInv'
<1> SUFFICES ASSUME SearchInv, [SearchNext]_vars PROVE SearchInv'
  OBVIOUS
<1>1. CASE BeginSearch
  BY <1>1, SearchBegins
<1>2. CASE ChooseSnapshot
  BY <1>2, SnapshotsChosen
<1>3. CASE SearchGraph
  BY <1>3, GraphSearched
<1>4. CASE SearchLexical
  BY <1>4, LexicalSearched
<1>5. CASE LexicalMissing
  BY <1>5, SearchRefused DEF LexicalMissing
<1>6. CASE MergeHits
  BY <1>6, HitsMerged
<1>7. CASE RankPage
  BY <1>7, PageRanked
<1>8. CASE Reindex
  BY <1>8, IndexChanged
<1>9. CASE UNCHANGED vars
  <2>1. UNCHANGED request /\ UNCHANGED progress
    BY <1>9 DEF vars
  <2>2. CursorInv'
    BY <2>1, CursorKept DEF SearchInv
  <2>3. Index' = Index
    BY <2>1 DEF Index
  <2>4. ReadSoFar(progress.repo, progress.commit, progress.offset) =>
          ReadSoFar(progress.repo, progress.commit, progress.offset)'
    BY <2>1, PlaceKept
  <2>5. PageInv'
    BY <2>1, <2>3, <2>4 DEF SearchInv, PageInv
  <2> QED
    BY <2>1, <2>2, <2>5 DEF SearchInv, SearchTypeOK
<1> QED
  BY <1>1, <1>2, <1>3, <1>4, <1>5, <1>6, <1>7, <1>8, <1>9 DEF SearchNext

(* What the pages are when the last one is read.                             *)
LEMMA SearchBounds == SearchInv => DiscoveryPagesOnce
<1> SUFFICES ASSUME SearchInv
             PROVE  /\ \A m, n \in DOMAIN request.found : /\ request.found[m].repo = request.found[n].repo
                                                          /\ request.found[m].commit = request.found[n].commit
                    /\ request.status = "complete" /\ ~request.disturbed =>
                         LET keys == {request.found[n].key : n \in DOMAIN request.found}
                         IN  /\ Cardinality(keys) = Len(request.found)
                             /\ request.question.mode # "lexical" =>
                                  \E s \in Index.repositories :
                                    Exhausts(keys, request.question, OfSnapshot(Index, request.question, s))
  BY Zenon DEF DiscoveryPagesOnce
<1>1. \A m, n \in DOMAIN request.found : /\ request.found[m].repo = request.found[n].repo
                                         /\ request.found[m].commit = request.found[n].commit
  BY DEF SearchInv, CursorInv
<1>2. ASSUME request.status = "complete", ~request.disturbed
      PROVE  LET keys == {request.found[n].key : n \in DOMAIN request.found}
             IN  /\ Cardinality(keys) = Len(request.found)
                 /\ request.question.mode # "lexical" =>
                      \E s \in Index.repositories :
                        Exhausts(keys, request.question, OfSnapshot(Index, request.question, s))
  <2> DEFINE q == request.question
             keys == {request.found[n].key : n \in DOMAIN request.found}
  <2>1. PICK s \in Index.repositories : request.found = Answers(Index, q, s[1], s[2])
    BY <1>2 DEF SearchInv, CursorInv
  <2>2. s = <<s[1], s[2]>> /\ Index \in ToSet(Indexes)
    BY SearchAssumption, SearchIs DEF SearchInv
  <2>3. /\ Cardinality(keys) = Len(request.found)
        /\ q.mode # "lexical" => Exhausts(keys, q, OfSnapshot(Index, q, <<s[1], s[2]>>))
    <3>1. LET A == Answers(Index, q, s[1], s[2])
              found == {A[n].key : n \in DOMAIN A}
          IN  /\ Cardinality(found) = Len(A)
              /\ q.mode # "lexical" => Exhausts(found, q, OfSnapshot(Index, q, <<s[1], s[2]>>))
      BY <2>2, AnswersRight
    <3> QED
      BY <2>1, <3>1, Zenon
  <2>4. q.mode # "lexical" => Exhausts(keys, q, OfSnapshot(Index, q, s))
    BY <2>2, <2>3
  <2> HIDE DEF keys
  <2>5. /\ Cardinality(keys) = Len(request.found)
        /\ q.mode # "lexical" => \E t \in Index.repositories : Exhausts(keys, q, OfSnapshot(Index, q, t))
    BY <2>1, <2>3, <2>4
  <2> QED
    BY <2>5 DEF keys
<1> QED
  BY <1>1, <1>2

(* Pages of a search, whatever the indexes, the questions, the limits and the
   pool: read from one content they hold every wanted symbol of one snapshot
   once, and pages of a changing index stay with the snapshot they began in
   (code.py:289-349).                                                        *)
THEOREM SearchPagesOnce == SearchSpec => []DiscoveryPagesOnce
<1>1. SearchInit => SearchInv
  BY SearchInitial
<1>2. SearchInv /\ [SearchNext]_vars => SearchInv'
  BY SearchStep
<1>3. SearchInv => DiscoveryPagesOnce
  BY SearchBounds
<1> QED
  BY <1>1, <1>2, <1>3, PTL DEF SearchSpec

-----------------------------------------------------------------------------
(***************************************************************************)
(* FederatedUsages.  What the pages have reported are the usages among the *)
(* postings up to the place the client has come to, and this place is the  *)
(* same in every deployment that the continuation is good for.             *)
(***************************************************************************)
RoutinesReaching(d, t) == {k \in Reaching(DbOf[d], t) : IsRoutine(DbOf[d], k)}
NamesFor(d, t) == NamesOf(DbOf[d], RoutinesReaching(d, t))
Intents(d) == ToSet(AppOf[d].intents)
IntentKeys == UNION {{i.key : i \in Intents(d)} : d \in Deployments}

(* The postings of the names before the index, and of the name at the index
   up to a position.                                                        *)
Told(d, t, index, after) ==
  {i \in Intents(d) : /\ ~i.dynamic
                      /\ \E m \in 1 .. Len(NamesFor(d, t)) : /\ i.name = NamesFor(d, t)[m]
                                                             /\ m < index \/ (m = index /\ i.at <= after)}
AllTold(d, t, index, after) ==
  \A i \in Intents(d) : \A m \in 1 .. Len(NamesFor(d, t)) :
    ~i.dynamic /\ i.name = NamesFor(d, t)[m] => i \in Told(d, t, index, after)
UsagesAmong(d, t, intents) ==
  {i.key : i \in {j \in intents : IsUsage(d, RoutinesReaching(d, t) \cup {t}, j)}}
Listed(found, d, t, index, after) ==
  IsInjective(found) /\ ToSet(found) = UsagesAmong(d, t, Told(d, t, index, after))

UsagesStates(p) ==
  [pc : UsagesSteps \cup {"usages.answer"}, limit : {p.limit}, late : BOOLEAN, queue : {p.queue}, visited : {p.visited},
   edges : {p.edges}, routines : {p.routines}, cut : BOOLEAN, index : Nat \ {0}, after : Nat, examined : Nat,
   seen : SUBSET IntentKeys, usages : Seq(IntentKeys), next : {None} \cup ((Nat \ {0}) \X Nat),
   stopped : BOOLEAN, more : BOOLEAN]
Statuses == {"new", "asked", "more", "complete", "incomplete", "invalid_reference", "not_found",
             "invalid_cursor", "result_too_large", "deadline_exceeded"}
UsagesRequests(r) ==
  [tool : {"usages"}, served : Deployments, target : Targets, ref : {r.ref}, cursor : {r.cursor},
   found : Seq(IntentKeys), status : Statuses]
RoomLeft(p) == p.pc = "usages.postings" => p.examined < WorkCap
UsagesTypeOK ==
  /\ request \in UsagesRequests(request)
  /\ progress = Idle \/ (request.status = "asked" /\ progress \in UsagesStates(progress) /\ RoomLeft(progress))

(* What the client holds.                                                    *)
ClientInv ==
  /\ request.cursor # None =>
       \E d \in Deployments, t \in Targets, name \in Nat \ {0}, after \in Nat :
         request.cursor = Cursor(d, t, name, after) /\ Listed(request.found, d, t, name, after)
  /\ request.status = "complete" =>
       IsInjective(request.found) /\ ToSet(request.found) = UsagesOf(request.served, request.target)

(* The walk: what was visited reaches the target; its sources were visited,
   and it was listed if it is a routine, or it is still in the queue.        *)
Expanded(p, d, k) ==
  SourcesOf(DbOf[d], {k}) \subseteq p.visited /\ (IsRoutine(DbOf[d], k) => k \in p.routines)
WalkedFrom(p, d, t) ==
  /\ p.queue \in Seq(p.visited \X Nat) /\ t \in p.visited /\ p.visited \subseteq Reaching(DbOf[d], t)
  /\ p.routines \subseteq {k \in p.visited : IsRoutine(DbOf[d], k)}
  /\ \A k \in p.visited : Expanded(p, d, k) \/ \E n \in DOMAIN p.queue : p.queue[n][1] = k
WalkOfUsages ==
  progress.pc = "usages.walk" /\ ~progress.cut => WalkedFrom(progress, request.served, request.target)

(* Where a request is.                                                       *)
AtPlace(p, found, d, t) ==
  /\ Listed(found \o p.usages, d, t, p.index, p.after)
  /\ p.seen \subseteq {i.key : i \in Told(d, t, p.index, p.after)}
NextIs(p, d, t) ==
  IF p.next = None THEN AllTold(d, t, p.index, p.after) ELSE p.next = <<p.index, p.after>>
NameRead(p, d, t) ==
  \A i \in Intents(d) : ~i.dynamic /\ i.name = NamesFor(d, t)[p.index] => i.at <= p.after
UsagesPlace(p, found, d, t) ==
  /\ AtPlace(p, found, d, t)
  /\ p.pc # "usages.walk" => p.routines = RoutinesReaching(d, t)
  /\ p.pc \in {"usages.walk", "usages.names", "usages.postings"} => ~p.stopped
  /\ p.pc \in {"usages.turn", "usages.postings"} => p.index <= Len(NamesFor(d, t))
  /\ p.pc # "usages.answer" /\ ~p.stopped => p.next = None
  /\ p.pc = "usages.answer" \/ p.stopped => NextIs(p, d, t)
  /\ p.pc = "usages.turn" /\ ~p.more /\ ~p.stopped => NameRead(p, d, t)
PlaceOfUsages ==
  progress # Idle /\ ~progress.cut => UsagesPlace(progress, request.found, request.served, request.target)
UsagesInv == UsagesTypeOK /\ ClientInv /\ WalkOfUsages /\ PlaceOfUsages

-----------------------------------------------------------------------------
(* A page is the beginning of its rows.                                      *)
LEMMA PageOf ==
  ASSUME NEW T, NEW rows \in Seq(T), NEW limit \in Nat
  PROVE  /\ Page(rows, limit).items \in Seq(T) /\ Page(rows, limit).truncated \in BOOLEAN
         /\ Len(Page(rows, limit).items) \in Nat /\ Len(Page(rows, limit).items) <= Len(rows) /\ Len(rows) \in Nat
         /\ \A n \in 1 .. Len(Page(rows, limit).items) : Page(rows, limit).items[n] = rows[n]
         /\ ~Page(rows, limit).truncated => Page(rows, limit).items = rows
         /\ Len(Page(rows, limit).items) < Len(rows) => Page(rows, limit).truncated
<1> DEFINE e == IF Len(rows) < limit THEN Len(rows) ELSE limit
           items == Page(rows, limit).items
<1>1. e \in 0 .. Len(rows) /\ Len(rows) \in Nat
  OBVIOUS
<1>2. items = SubSeq(rows, 1, e) /\ Page(rows, limit).truncated = (Len(rows) > limit)
  BY DEF Page
<1>3. ~(Len(rows) > limit) <=> e = Len(rows)
  OBVIOUS
<1> HIDE DEF e, items
<1>4. items \in Seq(T) /\ Len(items) = e /\ \A n \in 1 .. e : items[n] = rows[n]
  <2>1. \A n \in 1 .. e : n \in 1 .. Len(rows)
    BY <1>1
  <2>2. e \in Nat /\ 1 \in Nat
    BY <1>1
  <2> QED
    BY <1>1, <1>2, <2>1, <2>2, SubSeqProperties
<1>5. e = Len(rows) => items = rows
  BY <1>1, <1>4, SeqEqual
<1>6. e \in Nat /\ e <= Len(rows)
  BY <1>1
<1>7. Page(rows, limit).truncated \in BOOLEAN /\ (~Page(rows, limit).truncated <=> e = Len(rows))
  <2> DEFINE over == Len(rows) > limit
  <2>1. over = TRUE \/ over = FALSE
    BY <1>1
  <2>2. Page(rows, limit).truncated = over
    BY <1>2
  <2>3. ~over <=> e = Len(rows)
    BY <1>3
  <2> HIDE DEF over
  <2> QED
    BY <2>1, <2>2, <2>3, Zenon
<1>8. Len(items) < Len(rows) => e # Len(rows)
  BY <1>1, <1>4
<1> QED
  BY <1>1, <1>4, <1>5, <1>6, <1>7, <1>8 DEF items

-----------------------------------------------------------------------------
(* What reaches the target is closed, and the least that is.                 *)
LEMMA ReachingIs ==
  ASSUME NEW db, NEW t
  PROVE  /\ t \in Reaching(db, t)
         /\ \A k \in Reaching(db, t) : SourcesOf(db, {k}) \subseteq Reaching(db, t)
         /\ \A keys \in SUBSET Reaching(db, t) :
              t \in keys /\ (\A k \in keys : SourcesOf(db, {k}) \subseteq keys) => keys = Reaching(db, t)
<1>1. \A keys : SourcesOf(db, keys) \subseteq Ends(db, t)
  BY DEF SourcesOf, Ends
<1>2. \A keys, k : k \in keys => SourcesOf(db, {k}) \subseteq SourcesOf(db, keys)
  BY DEF SourcesOf
<1>3. \A keys : (\A k \in keys : SourcesOf(db, {k}) \subseteq keys) => SourcesOf(db, keys) \subseteq keys
  BY DEF SourcesOf
<1>4. t \in Reaching(db, t) /\ Reaching(db, t) \subseteq Ends(db, t)
  BY DEF Reaching, ReachesWithin, Ends
<1>5. ASSUME NEW k \in Reaching(db, t), NEW s \in SourcesOf(db, {k}) PROVE s \in Reaching(db, t)
  <2>1. \A keys \in SUBSET Ends(db, t) : ReachesWithin(db, t, keys) => k \in keys
    BY <1>5 DEF Reaching
  <2>2. \A keys \in SUBSET Ends(db, t) : ReachesWithin(db, t, keys) => s \in keys
    BY <1>2, <1>5, <2>1 DEF ReachesWithin
  <2> QED
    BY <1>1, <1>5, <2>2 DEF Reaching
<1>6. ASSUME NEW keys \in SUBSET Reaching(db, t), t \in keys, \A k \in keys : SourcesOf(db, {k}) \subseteq keys
      PROVE  keys = Reaching(db, t)
  <2>1. ReachesWithin(db, t, keys) /\ keys \subseteq Ends(db, t)
    BY <1>3, <1>4, <1>6 DEF ReachesWithin
  <2> QED
    BY <2>1 DEF Reaching
<1> QED
  BY <1>4, <1>5, <1>6

LEMMA RoutineFound ==
  ASSUME NEW d \in Deployments
  PROVE  /\ \A k : IsRoutine(DbOf[d], k) => /\ RoutineAt(DbOf[d], k) \in ToSet(DbOf[d].routines)
                                            /\ RoutineAt(DbOf[d], k).key = k
         /\ \A r \in ToSet(DbOf[d].routines) : IsRoutine(DbOf[d], r.key) /\ RoutineAt(DbOf[d], r.key) = r
<1> DEFINE rows == DbOf[d].routines
<1>1. \A m, n \in DOMAIN rows : rows[m].key = rows[n].key => m = n
  BY CatalogsAssumption DEF OneRowPerKey
<1>2. \A r \in ToSet(rows) : \E n \in DOMAIN rows : rows[n] = r
  BY DEF ToSet
<1>3. \A n \in DOMAIN rows : rows[n] \in ToSet(rows)
  BY DEF ToSet
<1>4. \A r, s \in ToSet(rows) : r.key = s.key => r = s
  BY <1>1, <1>2
<1> QED
  BY <1>2, <1>3, <1>4, Zenon DEF IsRoutine, RoutineAt

(* The names of routines are listed once each, whoever has them.             *)
LEMMA NamesAre ==
  ASSUME NEW d \in Deployments, NEW keys, \A k \in keys : IsRoutine(DbOf[d], k)
  PROVE  /\ Len(NamesOf(DbOf[d], keys)) \in Nat
         /\ \A m, n \in 1 .. Len(NamesOf(DbOf[d], keys)) :
              NamesOf(DbOf[d], keys)[m] = NamesOf(DbOf[d], keys)[n] => m = n
         /\ \A k \in keys : \E m \in 1 .. Len(NamesOf(DbOf[d], keys)) :
              NamesOf(DbOf[d], keys)[m] = RoutineAt(DbOf[d], k).name
<1> DEFINE all == ToSet(DbOf[d].routines)
           f == [r \in all |-> r.name]
           names == {RoutineAt(DbOf[d], k).name : k \in keys}
           R == {p \in names \X names : p[1] < p[2]}
           list == Ordered(names, R)
<1>1. list = NamesOf(DbOf[d], keys)
  BY DEF NamesOf
<1>2. \A k \in keys : RoutineAt(DbOf[d], k) \in all
  BY RoutineFound
<1>3. IsFiniteSet(all) /\ \A r \in all : r.name \in Int
  BY CatalogsAssumption, FiniteRows DEF IsListing
<1> HIDE DEF all
<1>4. names \in SUBSET {f[r] : r \in all}
  BY <1>2
<1>5. IsFiniteSet({f[r] : r \in all})
  <2> HIDE DEF f
  <2> QED
    BY <1>3, FiniteImage
<1>6. IsFiniteSet(names)
  BY <1>4, <1>5, FS_Subset
<1>7. \A x \in names : x \in Int
  BY <1>2, <1>3
<1> HIDE DEF names
<1>8. /\ \A a, b \in names : <<a, b>> \in R <=> a < b
      /\ \A a \in names : <<a, a>> \notin R
  BY <1>7
<1> HIDE DEF R
<1>9. /\ \A a, b, c \in names : <<a, b>> \in R /\ <<b, c>> \in R => <<a, c>> \in R
      /\ \A a, b \in names : a # b => <<a, b>> \in R \/ <<b, a>> \in R
  BY <1>7, <1>8
<1>10. /\ list \in Seq(names) /\ Len(list) = Cardinality(names) /\ Cardinality(names) \in Nat
       /\ ToSet(list) = names
       /\ \A m, n \in 1 .. Cardinality(names) : m < n => <<list[m], list[n]>> \in R
  BY <1>6, <1>8, <1>9, OrderedIs
<1> HIDE DEF list
<1>11. \A m, n \in 1 .. Len(list) : list[m] = list[n] => m = n
  <2> TAKE m, n \in 1 .. Len(list)
  <2>1. list[m] \in names /\ list[n] \in names
    BY <1>10
  <2>2. m < n => list[m] # list[n]
    BY <1>8, <1>10, <2>1
  <2>3. n < m => list[m] # list[n]
    BY <1>8, <1>10, <2>1
  <2> QED
    BY <1>10, <2>2, <2>3
<1>12. \A x \in names : \E m \in 1 .. Len(list) : list[m] = x
  BY <1>10 DEF ToSet
<1>13. \A k \in keys : RoutineAt(DbOf[d], k).name \in names
  BY DEF names
<1> QED
  BY <1>1, <1>10, <1>11, <1>12, <1>13

-----------------------------------------------------------------------------
(* The first of each meaning are some of the rows.                           *)
LEMMA SomeOfEachMeaning ==
  ASSUME NEW T, NEW hits \in Seq(T)
  PROVE  OnePerMeaning(hits) \in Seq(T) /\ ToSet(OnePerMeaning(hits)) \subseteq ToSet(hits)
<1> DEFINE D == DOMAIN hits
           at == [n \in D |-> n]
           Repeats(n) == \E m \in 1 .. n - 1 : hits[m].alias = hits[n].alias /\ hits[m].semantic = hits[n].semantic
           S == {n \in D : ~Repeats(n)}
           firsts == Among(at, S)
           one == [n \in DOMAIN firsts |-> hits[firsts[n]]]
<1>1. at \in Seq(D)
  <2>1. D = 1 .. Len(hits) /\ Len(hits) \in Nat
    OBVIOUS
  <2> QED
    BY <2>1
<1>2. one = OnePerMeaning(hits)
  BY DEF OnePerMeaning
<1> HIDE DEF at, S
<1>3. firsts \in Seq(D)
  BY <1>1, AmongGrows
<1> HIDE DEF firsts
<1>4. DOMAIN firsts = 1 .. Len(firsts) /\ Len(firsts) \in Nat /\ \A n \in DOMAIN firsts : firsts[n] \in D
  BY <1>3
<1>5. \A x \in D : hits[x] \in T /\ hits[x] \in ToSet(hits)
  BY DEF ToSet
<1> HIDE DEF D
<1>6. one \in [1 .. Len(firsts) -> T] /\ one \in [1 .. Len(firsts) -> ToSet(hits)]
  BY <1>4, <1>5
<1> HIDE DEF one
<1>7. one \in Seq(T) /\ one \in Seq(ToSet(hits))
  BY <1>4, <1>6
<1>8. ToSet(one) \subseteq ToSet(hits)
  BY <1>7, FiniteRows
<1> QED
  BY <1>2, <1>7, <1>8

(* A candidate is a routine of the catalog with the name of the evidence.    *)
LEMMA CandidatesNamed ==
  ASSUME NEW T, NEW cat, cat.routines \in Seq(T), NEW aliases, NEW i, NEW schema
  PROVE  \A n \in DOMAIN RoutineCandidates(cat, aliases, i, schema).items :
           /\ RoutineCandidates(cat, aliases, i, schema).items[n] \in ToSet(cat.routines)
           /\ RoutineCandidates(cat, aliases, i, schema).items[n].name = i.name
<1> DEFINE S == {r \in ToSet(cat.routines) :
                   /\ r.alias \in aliases /\ r.name = i.name
                   /\ schema # None => r.schema = schema
                   /\ i.kind # None => r.kind \in TargetKinds(i.kind)
                   /\ i.arity # None => AcceptsArity(r, i.arity)}
           hits == Among(cat.routines, S)
           page == Page(OnePerMeaning(hits), CandidateLimit)
<1>1. page = RoutineCandidates(cat, aliases, i, schema)
  BY DEF RoutineCandidates
<1>2. \A r \in S : r \in ToSet(cat.routines) /\ r.name = i.name
  OBVIOUS
<1> HIDE DEF S
<1>3. hits \in Seq(T) /\ ToSet(hits) = ToSet(cat.routines) \cap S
  BY AmongGrows, AmongMembers
<1> HIDE DEF hits
<1>4. OnePerMeaning(hits) \in Seq(T) /\ ToSet(OnePerMeaning(hits)) \subseteq S
  BY <1>3, SomeOfEachMeaning
<1> DEFINE one == OnePerMeaning(hits)
<1>5. CandidateLimit \in Nat
  BY CatalogsAssumption
<1> HIDE DEF one
<1>6. page.items \in Seq(T) /\ Len(page.items) <= Len(one) /\ Len(page.items) \in Nat /\ Len(one) \in Nat
      /\ \A n \in 1 .. Len(page.items) : page.items[n] = one[n]
  BY <1>4, <1>5, PageOf DEF one
<1>7. ASSUME NEW n \in DOMAIN page.items PROVE page.items[n] \in S
  <2>1. n \in 1 .. Len(page.items)
    BY <1>6, <1>7
  <2>2. n \in DOMAIN one
    BY <1>4, <1>6, <2>1 DEF one
  <2>3. one[n] \in ToSet(one)
    BY <2>2 DEF ToSet
  <2> QED
    BY <1>4, <1>6, <2>1, <2>3 DEF one
<1> QED
  BY <1>1, <1>2, <1>7

NamedIn(d, i, candidates) ==
  \A n \in DOMAIN candidates : candidates[n] \in ToSet(DbOf[d].routines) /\ candidates[n].name = i.name

LEMMA ScopeNamed ==
  ASSUME NEW d \in Deployments, NEW i, NEW context, NEW app, NEW schema,
         Scope(i, context, app, DbOf[d], schema).graph = "db"
  PROVE  NamedIn(d, i, Scope(i, context, app, DbOf[d], schema).page.items)
<1> DEFINE own == RoutineCandidates(app, app.aliases, i, schema)
           other == RoutineCandidates(DbOf[d], {DbOf[d].postgres} \cup context.visible, i, schema)
<1>1. DbOf[d].routines \in Seq(ToSet(DbOf[d].routines))
  BY CatalogsAssumption DEF IsListing
<1>2. \A n \in DOMAIN other.items : other.items[n] \in ToSet(DbOf[d].routines) /\ other.items[n].name = i.name
  BY <1>1, CandidatesNamed
<1>3. Scope(i, context, app, DbOf[d], schema) = Hide(own, other)
  BY DEF Scope
<1> HIDE DEF own, other
<1>4. Scope(i, context, app, DbOf[d], schema).page = other
  BY <1>3 DEF Hide
<1> QED
  BY <1>2, <1>4, Zenon DEF NamedIn

(* What hits the keys in the database has the name of one of their routines.  *)
LEMMA UsageNamed ==
  ASSUME NEW d \in Deployments, NEW keys, NEW i, IsUsage(d, keys, i)
  PROVE  \E k \in keys : IsRoutine(DbOf[d], k) /\ RoutineAt(DbOf[d], k).name = i.name
<1> DEFINE context == ContextOf[d]
           app == AppOf[d]
           db == DbOf[d]
           schemas == Scopes(i, context)
           scopes == [n \in DOMAIN schemas |-> Scope(i, context, app, db, schemas[n])]
           X == {Scope(i, context, app, db, schemas[n]) : n \in DOMAIN schemas}
           hit == Among(scopes, {s \in ToSet(scopes) : s.page.items # <<>>})
           found == Resolve(i, context, app, db)
<1>1. found.status \in {"exact", "ambiguous", "conditional", "receiver_unverified"} /\ found.graph = "db"
      /\ CandidateKeys(found) \cap keys # {}
  BY DEF IsUsage, Hits
<1>2. found = FirstHit(i, hit)
  BY <1>1 DEF Resolve, Unresolved
<1>3. schemas \in Seq({None, i.schema} \cup ToSet(context.searchPath))
  <2> DEFINE path == context.searchPath
  <2>1. path \in Seq(ToSet(path))
    BY CatalogsAssumption DEF IsListing
  <2> HIDE DEF path
  <2>2. schemas = <<i.schema>> \/ schemas = path \/ schemas = <<None>>
    BY DEF Scopes, path
  <2> HIDE DEF schemas
  <2>3. path \in Seq({None, i.schema} \cup ToSet(path))
    BY <2>1, SeqMonotonic
  <2>4. <<i.schema>> \in Seq({None, i.schema} \cup ToSet(path)) /\ <<None>> \in Seq({None, i.schema} \cup ToSet(path))
    OBVIOUS
  <2> QED
    BY <2>2, <2>3, <2>4 DEF path
<1>4. scopes \in Seq(X)
  <2>1. DOMAIN schemas = 1 .. Len(schemas) /\ Len(schemas) \in Nat
    BY <1>3
  <2>2. scopes \in [DOMAIN schemas -> X]
    OBVIOUS
  <2> HIDE DEF scopes, X
  <2> QED
    BY <2>1, <2>2
<1>5. \A s \in X : \E schema : s = Scope(i, context, app, db, schema)
  OBVIOUS
<1> DEFINE S == {s \in ToSet(scopes) : s.page.items # <<>>}
<1> HIDE DEF scopes, X, S
<1>6. hit = Among(scopes, S) /\ hit \in Seq(X)
  BY <1>4, AmongGrows DEF S
<1> HIDE DEF hit, found
<1>7. hit # <<>>
  BY <1>1, <1>2 DEF FirstHit, Unresolved
<1>8. hit[1] \in X /\ found.graph = hit[1].graph /\ found.candidates = hit[1].page.items
  <2>1. hit[1] \in X /\ Head(hit) = hit[1]
    BY <1>6, <1>7
  <2> QED
    BY <1>2, <1>7, <2>1 DEF FirstHit
<1>9. PICK schema : hit[1] = Scope(i, context, app, db, schema)
  BY <1>5, <1>8
<1>10. PICK n \in DOMAIN found.candidates : found.candidates[n].key \in keys
  BY <1>1 DEF CandidateKeys
<1>11. found.candidates[n] \in ToSet(db.routines) /\ found.candidates[n].name = i.name
  <2> HIDE DEF context, app
  <2>1. Scope(i, context, app, DbOf[d], schema).graph = "db"
    BY <1>1, <1>8, <1>9
  <2>2. NamedIn(d, i, Scope(i, context, app, DbOf[d], schema).page.items)
    BY <2>1, ScopeNamed
  <2>3. NamedIn(d, i, found.candidates)
    BY <1>8, <1>9, <2>2
  <2> QED
    BY <1>10, <2>3 DEF NamedIn
<1>12. IsRoutine(db, found.candidates[n].key) /\ RoutineAt(db, found.candidates[n].key) = found.candidates[n]
  BY <1>11, RoutineFound
<1> QED
  BY <1>10, <1>11, <1>12

(* When everything was told, every usage was.                                *)
LEMMA UsagesWereTold ==
  ASSUME NEW d \in Deployments, NEW t, NEW index, NEW after, AllTold(d, t, index, after)
  PROVE  UsagesAmong(d, t, Told(d, t, index, after)) = UsagesOf(d, t)
<1> DEFINE keys == RoutinesReaching(d, t) \cup {t}
<1>1. keys = {k \in Reaching(DbOf[d], t) : IsRoutine(DbOf[d], k)} \cup {t}
  BY DEF RoutinesReaching
<1>2. \A k \in RoutinesReaching(d, t) : IsRoutine(DbOf[d], k)
  BY DEF RoutinesReaching
<1>3. \A k \in keys : IsRoutine(DbOf[d], k) => k \in RoutinesReaching(d, t)
  BY ReachingIs DEF RoutinesReaching
<1> HIDE DEF keys
<1>4. ASSUME NEW i \in Intents(d), ~i.dynamic, IsUsage(d, keys, i) PROVE i \in Told(d, t, index, after)
  <2>1. PICK k \in keys : IsRoutine(DbOf[d], k) /\ RoutineAt(DbOf[d], k).name = i.name
    BY <1>4, UsageNamed
  <2>2. PICK m \in 1 .. Len(NamesFor(d, t)) : NamesFor(d, t)[m] = i.name
    BY <1>2, <1>3, <2>1, NamesAre DEF NamesFor
  <2> QED
    BY <1>4, <2>2 DEF AllTold
<1>5. \A i \in Told(d, t, index, after) : i \in Intents(d) /\ ~i.dynamic
  BY DEF Told
<1>6. UsagesOf(d, t) = {i.key : i \in {j \in Intents(d) : ~j.dynamic /\ IsUsage(d, keys, j)}}
  BY <1>1 DEF UsagesOf, Intents
<1>7. UsagesAmong(d, t, Told(d, t, index, after)) = {i.key : i \in {j \in Told(d, t, index, after) : IsUsage(d, keys, j)}}
  BY DEF UsagesAmong, keys
<1> QED
  BY <1>4, <1>5, <1>6, <1>7

(* A continuation that is good for two deployments is at the same place.     *)
LEMMA SameListed ==
  ASSUME NEW d \in Deployments, NEW e \in Deployments, NEW t, NEW u, Binding(d, t) = Binding(e, u),
         NEW found, NEW index, NEW after, Listed(found, d, t, index, after)
  PROVE  Listed(found, e, u, index, after)
<1>1. ContextOf[d] = ContextOf[e] /\ AppOf[d] = AppOf[e] /\ DbOf[d] = DbOf[e] /\ t = u
  BY CatalogsAssumption DEF Binding
<1>2. RoutinesReaching(d, t) = RoutinesReaching(e, u) /\ Intents(d) = Intents(e)
  BY <1>1, Zenon DEF RoutinesReaching, Intents
<1>3. NamesFor(d, t) = NamesFor(e, u)
  BY <1>1, <1>2, Zenon DEF NamesFor
<1>4. Told(d, t, index, after) = Told(e, u, index, after)
  BY <1>2, <1>3, Zenon DEF Told
<1>5. \A keys, i : IsUsage(d, keys, i) <=> IsUsage(e, keys, i)
  BY <1>1, Zenon DEF IsUsage
<1>6. UsagesAmong(d, t, Told(d, t, index, after)) = UsagesAmong(e, u, Told(e, u, index, after))
  BY <1>1, <1>2, <1>4, <1>5 DEF UsagesAmong
<1> QED
  BY <1>6 DEF Listed

-----------------------------------------------------------------------------
(* A page of postings is counted one posting after the other.                *)
PostingIter(iter, n, p, page) ==
  iter = [s \in SUBSET (1 .. n) |->
            IF s = {} THEN p ELSE Posting(iter[s \ {Max(s)}], page.items[Max(s)], page)]

PageRun(f, p, page) ==
  /\ f[0] = p
  /\ \A k \in 1 .. Len(page.items) : f[k] = Posting(f[k - 1], page.items[k], page)
  /\ Read(p, page) = [f[Len(page.items)] EXCEPT !.pc = "usages.turn", !.more = page.truncated]

LEMMA PostingRuns ==
  ASSUME NEW X, NEW p \in X, NEW page, NEW T, page.items \in Seq(T),
         \A q \in X, k \in 1 .. Len(page.items) : Posting(q, page.items[k], page) \in X
  PROVE  \E f \in [0 .. Len(page.items) -> X] : PageRun(f, p, page)
<1> DEFINE n == Len(page.items)
           Take(q, k) == Posting(q, page.items[k], page)
           step == [z \in (1 .. n) \X X |-> Take(z[2], z[1])]
           c == CHOOSE iter : PostingIter(iter, n, p, page)
<1>1. n \in Nat /\ DOMAIN page.items = 1 .. n
  OBVIOUS
<1>2. Read(p, page) = [c[1 .. n] EXCEPT !.pc = "usages.turn", !.more = page.truncated]
  <2>1. Read(p, page) = [(CHOOSE iter : PostingIter(iter, n, p, page))[DOMAIN page.items]
                           EXCEPT !.pc = "usages.turn", !.more = page.truncated]
    BY <1>1 DEF Read, FoldLeft, MapThenFoldSet, PostingIter
  <2> QED
    BY <1>1, <2>1
<1>3. \A k \in 1 .. n, q \in X : Take(q, k) \in X
  OBVIOUS
<1>4. step \in [(1 .. n) \X X -> X] /\ \A k \in 1 .. n, q \in X : step[<<k, q>>] = Take(q, k)
  <2> HIDE DEF Take, n
  <2> QED
    BY <1>3
<1>5. PICK iter \in [SUBSET (1 .. n) -> X] : FoldIs(iter, n, p, step)
  <2> HIDE DEF step, n
  <2> QED
    BY <1>1, <1>4, FoldExists
<1>6. PostingIter(iter, n, p, page)
  <2>1. ASSUME NEW s \in SUBSET (1 .. n), s # {}
        PROVE  step[<<Max(s), iter[s \ {Max(s)}]>>] = Take(iter[s \ {Max(s)}], Max(s))
    <3>1. Max(s) \in 1 .. n /\ iter[s \ {Max(s)}] \in X
      <4> HIDE DEF n
      <4> QED
        BY <1>1, <1>5, <2>1, GreatestMember
    <3> HIDE DEF step, n, Take
    <3> QED
      BY <1>4, <3>1
  <2>2. iter = [s \in SUBSET (1 .. n) |-> IF s = {} THEN p ELSE step[<<Max(s), iter[s \ {Max(s)}]>>]]
    <3> HIDE DEF step, n, Take
    <3> QED
      BY <1>5 DEF FoldIs
  <2>3. iter = [s \in SUBSET (1 .. n) |-> IF s = {} THEN p ELSE Take(iter[s \ {Max(s)}], Max(s))]
    <3> HIDE DEF step, n, Take
    <3> QED
      BY <2>1, <2>2
  <2> QED
    BY <2>3 DEF PostingIter
<1>7. PostingIter(c, n, p, page)
  <2> HIDE DEF n
  <2> QED
    BY <1>6
<1> DEFINE f == [k \in 0 .. n |-> c[1 .. k]]
<1> HIDE DEF c
<1>8. c[1 .. 0] = p
  <2>1. 1 .. 0 = {} /\ {} \in SUBSET (1 .. n)
    OBVIOUS
  <2> QED
    BY <1>7, <2>1 DEF PostingIter
<1>9. ASSUME NEW k \in 1 .. n PROVE c[1 .. k] = Take(c[1 .. k - 1], k)
  <2>1. k - 1 \in Nat /\ (k - 1) + 1 = k
    OBVIOUS
  <2>2. Max(1 .. k) = k /\ (1 .. k) \ {Max(1 .. k)} = 1 .. k - 1
    BY <2>1, GreatestOf
  <2>3. 1 .. k \in SUBSET (1 .. n) /\ 1 .. k # {}
    <3> HIDE DEF n
    <3>1. (\A x \in 1 .. k : x \in 1 .. n) /\ k \in 1 .. k
      BY <1>1
    <3> QED
      BY <3>1
  <2> QED
    BY <1>7, <2>2, <2>3 DEF PostingIter
<1>10. f[0] = p /\ (\A k \in 1 .. n : f[k] = Take(f[k - 1], k))
       /\ Read(p, page) = [f[n] EXCEPT !.pc = "usages.turn", !.more = page.truncated]
  BY <1>1, <1>2, <1>8, <1>9
<1> DEFINE V == {k \in Nat : k <= n => f[k] \in X}
<1>11. 0 \in V
  <2> HIDE DEF f
  <2> QED
    BY <1>10
<1>12. ASSUME NEW k \in Nat, k \in V PROVE k + 1 \in V
  <2> SUFFICES ASSUME k + 1 <= n PROVE f[k + 1] \in X
    OBVIOUS
  <2>1. k + 1 \in 1 .. n /\ (k + 1) - 1 = k /\ f[k] \in X
    BY <1>12
  <2>2. f[k + 1] = Take(f[k], k + 1)
    <3> HIDE DEF f, Take, n
    <3> QED
      BY <1>10, <2>1
  <2> HIDE DEF f, Take, n
  <2> QED
    BY <1>3, <2>1, <2>2
<1>13. Nat \subseteq V
  <2> HIDE DEF V
  <2> QED
    BY <1>11, <1>12, Induction
<1>14. f \in [0 .. n -> X]
  <2>1. \A k \in 0 .. n : f[k] \in X
    <3> HIDE DEF f
    <3>1. \A k \in 0 .. n : k \in Nat /\ k <= n
      BY <1>1
    <3> QED
      BY <1>13, <3>1
  <2> QED
    BY <2>1
<1>15. PageRun(f, p, page)
  BY <1>10 DEF PageRun
<1> QED
  BY <1>14, <1>15

-----------------------------------------------------------------------------
LEMMA IntentsAre ==
  ASSUME NEW d \in Deployments
  PROVE  /\ AppOf[d].intents \in Seq(Intents(d))
         /\ \A i \in Intents(d) : i.at \in Nat \ {0} /\ i.key \in IntentKeys
         /\ \A i, j \in Intents(d) : i.key = j.key => i = j
         /\ \A i, j \in Intents(d) : i.at = j.at => i = j
<1> DEFINE rows == AppOf[d].intents
<1>1. /\ rows \in Seq(ToSet(rows)) /\ \A i \in ToSet(rows) : i.at \in Nat \ {0}
      /\ \A m, n \in DOMAIN rows : rows[m].key = rows[n].key => m = n
      /\ \A m, n \in DOMAIN rows : m < n => rows[m].at < rows[n].at
  BY CatalogsAssumption DEF IsListing, OneRowPerKey
<1>2. \A i \in Intents(d) : i.key \in IntentKeys
  BY DEF IntentKeys
<1>3. Intents(d) = ToSet(rows)
  BY DEF Intents
<1> HIDE DEF rows
<1>4. \A i \in ToSet(rows) : \E n \in DOMAIN rows : rows[n] = i
  BY DEF ToSet
<1>5. DOMAIN rows = 1 .. Len(rows) /\ Len(rows) \in Nat
  BY <1>1
<1>6. \A m, n \in DOMAIN rows : rows[m].at \in Nat /\ (rows[m].at = rows[n].at => m = n)
  <2> TAKE m, n \in DOMAIN rows
  <2>1. rows[m].at \in Nat /\ rows[n].at \in Nat
    BY <1>1
  <2>2. m < n \/ n < m \/ m = n
    BY <1>5
  <2> QED
    BY <1>1, <2>1, <2>2
<1> QED
  BY <1>1, <1>2, <1>3, <1>4, <1>6 DEF rows

(* The next posting of a name is the next to be told.                        *)
FollowsAt(d, t, index, after, i) ==
  LET names == NamesFor(d, t)
  IN  /\ index \in 1 .. Len(names) /\ after \in Nat
      /\ i \in Intents(d) /\ ~i.dynamic /\ i.name = names[index] /\ i.at > after
      /\ \A j \in Intents(d) : ~j.dynamic /\ j.name = names[index] /\ j.at > after /\ j.at <= i.at => j = i
      /\ \A m, n \in 1 .. Len(names) : names[m] = names[n] => m = n

LEMMA ToldNext ==
  ASSUME NEW d \in Deployments, NEW t, NEW index, NEW after, NEW i, FollowsAt(d, t, index, after, i)
  PROVE  Told(d, t, index, i.at) = Told(d, t, index, after) \cup {i} /\ i \notin Told(d, t, index, after)
<1> DEFINE names == NamesFor(d, t)
<1> USE DEF FollowsAt
<1>1. i.at \in Nat /\ \A j \in Intents(d) : j.at \in Nat
  BY IntentsAre
<1>2. i \in Told(d, t, index, i.at)
  BY <1>1 DEF Told
<1>3. i \notin Told(d, t, index, after)
  <2> SUFFICES ASSUME i \in Told(d, t, index, after) PROVE FALSE
    OBVIOUS
  <2>1. PICK m \in 1 .. Len(names) : i.name = names[m] /\ (m < index \/ (m = index /\ i.at <= after))
    BY DEF Told
  <2>2. m = index
    BY <2>1
  <2> QED
    BY <1>1, <2>1, <2>2
<1>4. ASSUME NEW j \in Told(d, t, index, after) PROVE j \in Told(d, t, index, i.at)
  <2>1. PICK m \in 1 .. Len(names) : j.name = names[m] /\ (m < index \/ (m = index /\ j.at <= after))
    BY <1>4 DEF Told
  <2>2. j \in Intents(d) /\ ~j.dynamic
    BY <1>4 DEF Told
  <2>3. j.at <= after => j.at <= i.at
    BY <1>1, <2>2
  <2> QED
    BY <2>1, <2>2, <2>3 DEF Told
<1>5. ASSUME NEW j \in Told(d, t, index, i.at), j # i PROVE j \in Told(d, t, index, after)
  <2>1. PICK m \in 1 .. Len(names) : j.name = names[m] /\ (m < index \/ (m = index /\ j.at <= i.at))
    BY <1>5 DEF Told
  <2>2. j \in Intents(d) /\ ~j.dynamic
    BY <1>5 DEF Told
  <2>3. m = index => j.at <= after
    BY <1>1, <1>5, <2>1, <2>2
  <2> QED
    BY <2>1, <2>2, <2>3 DEF Told
<1> QED
  BY <1>2, <1>3, <1>4, <1>5

LEMMA ListedNext ==
  ASSUME NEW d \in Deployments, NEW t, NEW index, NEW after, NEW i \in Intents(d),
         Told(d, t, index, i.at) = Told(d, t, index, after) \cup {i}, i \notin Told(d, t, index, after),
         NEW found \in Seq(IntentKeys), NEW usages \in Seq(IntentKeys), NEW next,
         Listed(found \o usages, d, t, index, after),
         next = IF IsUsage(d, RoutinesReaching(d, t) \cup {t}, i) THEN Append(usages, i.key) ELSE usages
  PROVE  next \in Seq(IntentKeys) /\ Listed(found \o next, d, t, index, i.at)
<1> DEFINE told == Told(d, t, index, after)
           list == found \o usages
           yes == IsUsage(d, RoutinesReaching(d, t) \cup {t}, i)
<1>1. told \subseteq Intents(d)
  BY DEF Told
<1>2. i.key \in IntentKeys /\ \A j \in told : j.key # i.key
  BY <1>1, IntentsAre
<1>3. UsagesAmong(d, t, Told(d, t, index, i.at)) = UsagesAmong(d, t, told) \cup (IF yes THEN {i.key} ELSE {})
  BY DEF UsagesAmong
<1>4. i.key \notin UsagesAmong(d, t, told)
  BY <1>2 DEF UsagesAmong
<1>5. IsInjective(list) /\ ToSet(list) = UsagesAmong(d, t, told) /\ list \in Seq(IntentKeys)
  BY DEF Listed
<1>6. found \o Append(usages, i.key) = Append(list, i.key) /\ Append(usages, i.key) \in Seq(IntentKeys)
  BY <1>2, AppendLast
<1> HIDE DEF list, told, yes
<1>7. IsInjective(Append(list, i.key)) /\ ToSet(Append(list, i.key)) = ToSet(list) \cup {i.key}
  <2> DEFINE k == i.key
             w == Append(list, k)
             L == Len(list)
  <2>1. k \in IntentKeys /\ k \notin ToSet(list)
    BY <1>2, <1>4, <1>5
  <2> HIDE DEF k
  <2>2. DOMAIN w = 1 .. L + 1 /\ DOMAIN list = 1 .. L /\ L \in Nat /\ w[L + 1] = k /\ \A n \in 1 .. L : w[n] = list[n]
    BY <1>5, <2>1
  <2> HIDE DEF w, L
  <2>3. \A n \in 1 .. L : list[n] # k
    BY <2>1, <2>2 DEF ToSet
  <2>4. \A n \in 1 .. L + 1 : n \in 1 .. L \/ n = L + 1
    BY <2>2
  <2>5. \A n \in 1 .. L : n \in 1 .. L + 1 /\ L + 1 \in 1 .. L + 1
    BY <2>2
  <2>6. L + 1 \in 1 .. L + 1
    BY <2>2
  <2>7. IsInjective(w)
    BY <1>5, <2>2, <2>3, <2>4 DEF IsInjective
  <2>8. ToSet(w) = ToSet(list) \cup {k}
    BY <2>2, <2>4, <2>5, <2>6, Zenon DEF ToSet
  <2> QED
    BY <2>7, <2>8 DEF w, k
<1>8. CASE yes
  <2>1. next = Append(usages, i.key)
    BY <1>8 DEF yes
  <2> QED
    BY <1>3, <1>5, <1>6, <1>7, <1>8, <2>1 DEF Listed, told
<1>9. CASE ~yes
  <2>1. next = usages
    BY <1>9 DEF yes
  <2> QED
    BY <1>3, <1>5, <1>9, <2>1 DEF Listed, told, list
<1> QED
  BY <1>8, <1>9

-----------------------------------------------------------------------------
(* The records that a page may make of the state it was read in.             *)
PageStates(p) ==
  [pc : {p.pc}, limit : {p.limit}, late : {p.late}, queue : {p.queue}, visited : {p.visited}, edges : {p.edges},
   routines : {p.routines}, cut : {p.cut}, index : {p.index}, after : Nat, examined : Nat, seen : SUBSET IntentKeys,
   usages : Seq(IntentKeys), next : {None} \cup ((Nat \ {0}) \X Nat), stopped : BOOLEAN, more : {p.more}]

Tells(r, q, i, page, p) ==
  /\ r.after = i.at /\ r.seen = q.seen \cup {i.key}
  /\ r.usages = IF IsUsage(request.served, p.routines \cup {request.target}, i) THEN Append(q.usages, i.key) ELSE q.usages
  /\ ~r.stopped => r.next = q.next
  /\ r.stopped => r.next = IF page.truncated \/ i # Last(page.items) \/ p.index < Len(Names)
                           THEN <<p.index, i.at>> ELSE q.next

LEMMA PostingIs ==
  ASSUME NEW p, p.index \in Nat \ {0}, NEW q \in PageStates(p), NEW i, i.at \in Nat, i.key \in IntentKeys, NEW page
  PROVE  /\ Posting(q, i, page) \in PageStates(p)
         /\ q.stopped => Posting(q, i, page) = q
         /\ ~q.stopped /\ i.key \notin q.seen => Tells(Posting(q, i, page), q, i, page, p)
<1> DEFINE list == IF IsUsage(request.served, q.routines \cup {request.target}, i)
                   THEN Append(q.usages, i.key) ELSE q.usages
           u == [q EXCEPT !.examined = @ + 1, !.after = i.at, !.seen = @ \cup {i.key}, !.usages = list]
           v == [q EXCEPT !.examined = @ + 1, !.after = i.at]
           n == IF page.truncated \/ i # Last(page.items) \/ p.index < Len(Names) THEN <<p.index, i.at>> ELSE q.next
           w == [u EXCEPT !.stopped = TRUE, !.next = n]
<1>1. list \in Seq(IntentKeys) /\ q.routines = p.routines /\ q.index = p.index
  <2>1. q.usages \in Seq(IntentKeys) /\ q.routines = p.routines /\ q.index = p.index
    BY DEF PageStates
  <2>2. Append(q.usages, i.key) \in Seq(IntentKeys)
    BY <2>1
  <2> QED
    BY <2>1, <2>2
<1>2. n \in {None} \cup ((Nat \ {0}) \X Nat)
  BY DEF PageStates
<1>3. Posting(q, i, page) = IF q.stopped THEN q ELSE IF i.key \in q.seen THEN v
                            ELSE IF Len(u.usages) >= u.limit THEN w ELSE u
  <2>1. Posting(q, i, page) = IF q.stopped THEN q ELSE IF i.key \in q.seen THEN v ELSE Counted(u, i, page)
    BY DEF Posting
  <2>2. u.index = p.index /\ u.next = q.next
    BY DEF PageStates
  <2>3. AtLimit(u, i, page) = w
    <3> HIDE DEF u
    <3> QED
      BY <2>2 DEF AtLimit
  <2> HIDE DEF u, v, w
  <2> QED
    BY <2>1, <2>3 DEF Counted
<1> HIDE DEF list, n
<1>4. /\ u \in PageStates(p) /\ u.after = i.at /\ u.seen = q.seen \cup {i.key} /\ u.usages = list /\ u.next = q.next
      /\ u.stopped = q.stopped /\ v \in PageStates(p)
  <2>1. q.examined + 1 \in Nat /\ q.seen \cup {i.key} \in SUBSET IntentKeys
    BY DEF PageStates
  <2> DEFINE examined == q.examined + 1
             seen == q.seen \cup {i.key}
             at == i.at
  <2> HIDE DEF examined, seen, at
  <2>2. examined \in Nat /\ seen \in SUBSET IntentKeys /\ at \in Nat
    BY <2>1 DEF examined, seen, at
  <2>3. u = [q EXCEPT !.examined = examined, !.after = at, !.seen = seen, !.usages = list]
        /\ v = [q EXCEPT !.examined = examined, !.after = at]
    BY DEF examined, seen, at
  <2> HIDE DEF u, v
  <2>4. u \in PageStates(p) /\ v \in PageStates(p)
    BY <1>1, <2>2, <2>3 DEF PageStates
  <2>5. u.after = at /\ u.seen = seen /\ u.usages = list /\ u.next = q.next /\ u.stopped = q.stopped
    BY <2>3 DEF PageStates
  <2> QED
    BY <2>4, <2>5 DEF at, seen
<1> HIDE DEF u, v
<1>5. /\ w \in PageStates(p) /\ w.after = i.at /\ w.seen = q.seen \cup {i.key} /\ w.usages = list /\ w.next = n
      /\ w.stopped = TRUE
  BY <1>2, <1>4 DEF PageStates
<1> HIDE DEF w
<1>6. q.stopped => Posting(q, i, page) = q
  BY <1>3
<1>7. Posting(q, i, page) \in PageStates(p)
  BY <1>3, <1>4, <1>5
<1>8. ASSUME ~q.stopped, i.key \notin q.seen
      PROVE  /\ Posting(q, i, page).after = i.at /\ Posting(q, i, page).seen = q.seen \cup {i.key}
             /\ Posting(q, i, page).usages = list
             /\ ~Posting(q, i, page).stopped => Posting(q, i, page).next = q.next
             /\ Posting(q, i, page).stopped => Posting(q, i, page).next = n
  <2>1. Posting(q, i, page) = w \/ Posting(q, i, page) = u
    BY <1>3, <1>8
  <2>2. ~u.stopped
    BY <1>4, <1>8
  <2> QED
    BY <1>4, <1>5, <2>1, <2>2
<1> QED
  BY <1>1, <1>6, <1>7, <1>8 DEF list, n, Tells

-----------------------------------------------------------------------------
(* A page of the postings of a name: the first of those after a position.    *)
IsPostings(rows, d, name, after) ==
  /\ rows \in Seq(Intents(d))
  /\ ToSet(rows) = {i \in Intents(d) : i.name = name /\ ~i.dynamic /\ i.at > after}
  /\ \A m, n \in 1 .. Len(rows) : m < n => rows[m].at < rows[n].at
BeginsWith(rows, page, d) ==
  /\ page.items \in Seq(Intents(d)) /\ page.truncated \in BOOLEAN
  /\ Len(page.items) \in Nat /\ Len(page.items) <= Len(rows) /\ Len(rows) \in Nat
  /\ \A n \in 1 .. Len(page.items) : page.items[n] = rows[n]
  /\ ~page.truncated => page.items = rows

LEMMA PostingsAre ==
  ASSUME NEW d \in Deployments, NEW name, NEW after, NEW limit \in Nat
  PROVE  \E rows : IsPostings(rows, d, name, after) /\ BeginsWith(rows, ReverseIntents(AppOf[d], name, after, limit), d)
<1> DEFINE all == AppOf[d].intents
           S == {i \in ToSet(all) : i.name = name /\ ~i.dynamic /\ i.at > after}
           R == {p \in Intents(d) \X Intents(d) : p[1].at < p[2].at}
           rows == Among(all, S)
           page == Page(rows, limit)
<1>1. all \in Seq(Intents(d)) /\ Intents(d) = ToSet(all)
  BY IntentsAre DEF Intents
<1>2. \A m, n \in 1 .. Len(all) : m < n => <<all[m], all[n]>> \in R
  <2> TAKE m, n \in 1 .. Len(all)
  <2>1. m \in DOMAIN all /\ n \in DOMAIN all
    BY <1>1
  <2>2. m < n => all[m].at < all[n].at
    BY <2>1, CatalogsAssumption
  <2>3. all[m] \in Intents(d) /\ all[n] \in Intents(d)
    BY <1>1, <2>1
  <2> HIDE DEF all
  <2> QED
    BY <2>2, <2>3
<1>3. \A a, b \in Intents(d) : <<a, b>> \in R => a.at < b.at
  OBVIOUS
<1>4. page = ReverseIntents(AppOf[d], name, after, limit)
  BY DEF ReverseIntents
<1>5. S = {i \in Intents(d) : i.name = name /\ ~i.dynamic /\ i.at > after}
  BY <1>1
<1> HIDE DEF all, R, S
<1>6. \A m, n \in 1 .. Len(rows) : m < n => <<rows[m], rows[n]>> \in R
  BY <1>1, <1>2, AmongInOrder
<1>7. rows \in Seq(Intents(d)) /\ ToSet(rows) = ToSet(all) \cap S
  BY <1>1, AmongGrows, AmongMembers
<1> HIDE DEF rows
<1>8. IsPostings(rows, d, name, after)
  <2>1. \A m \in 1 .. Len(rows) : rows[m] \in Intents(d)
    BY <1>7
  <2>2. \A m, n \in 1 .. Len(rows) : m < n => rows[m].at < rows[n].at
    BY <1>3, <1>6, <2>1
  <2>3. ToSet(rows) = S
    BY <1>1, <1>5, <1>7
  <2> QED
    BY <1>5, <1>7, <2>2, <2>3 DEF IsPostings
<1>9. BeginsWith(rows, page, d)
  <2>1. /\ page.items \in Seq(Intents(d)) /\ page.truncated \in BOOLEAN
        /\ Len(page.items) \in Nat /\ Len(page.items) <= Len(rows) /\ Len(rows) \in Nat
        /\ \A n \in 1 .. Len(page.items) : page.items[n] = rows[n]
        /\ ~page.truncated => page.items = rows
    BY <1>7, PageOf
  <2> HIDE DEF page
  <2> QED
    BY <2>1, Zenon DEF BeginsWith
<1> QED
  BY <1>4, <1>8, <1>9

(* The page that was counted up to its k-th posting.                         *)
CountedTo(q, k, rows, p, found, d, t) ==
  /\ AtPlace(q, found, d, t)
  /\ q.stopped => NextIs(q, d, t)
  /\ ~q.stopped => q.next = None /\ q.after = IF k = 0 THEN p.after ELSE rows[k].at

LEMMA PostingCounted ==
  ASSUME NEW d \in Deployments, NEW t, request.served = d, request.target = t, Names = NamesFor(d, t),
         NEW found \in Seq(IntentKeys), NEW p, p.index \in 1 .. Len(NamesFor(d, t)), p.after \in Nat,
         p.routines = RoutinesReaching(d, t),
         NEW rows, NEW page, IsPostings(rows, d, NamesFor(d, t)[p.index], p.after), BeginsWith(rows, page, d),
         NEW k \in 1 .. Len(page.items), NEW q \in PageStates(p), CountedTo(q, k - 1, rows, p, found, d, t)
  PROVE  CountedTo(Posting(q, page.items[k], page), k, rows, p, found, d, t)
<1> DEFINE i == page.items[k]
           r == Posting(q, i, page)
           names == NamesFor(d, t)
           told == Told(d, t, p.index, q.after)
<1>1. /\ k \in 1 .. Len(rows) /\ Len(rows) \in Nat /\ i = rows[k] /\ Len(page.items) <= Len(rows)
      /\ Len(page.items) \in Nat
  BY DEF BeginsWith
<1>2. /\ \A n \in 1 .. Len(rows) : rows[n] \in Intents(d) /\ rows[n].name = names[p.index] /\ ~rows[n].dynamic
                                   /\ rows[n].at > p.after
      /\ \A j \in Intents(d) : ~j.dynamic /\ j.name = names[p.index] /\ j.at > p.after =>
                                 \E n \in 1 .. Len(rows) : rows[n] = j
      /\ \A m, n \in 1 .. Len(rows) : m < n => rows[m].at < rows[n].at
  <2>1. rows \in Seq(Intents(d)) /\ ToSet(rows) = {j \in Intents(d) : j.name = names[p.index] /\ ~j.dynamic /\ j.at > p.after}
        /\ \A m, n \in 1 .. Len(rows) : m < n => rows[m].at < rows[n].at
    BY DEF IsPostings
  <2>2. DOMAIN rows = 1 .. Len(rows)
    BY <2>1
  <2> HIDE DEF names
  <2>3. \A n \in 1 .. Len(rows) : rows[n] \in ToSet(rows)
    BY <2>2 DEF ToSet
  <2>4. \A j \in ToSet(rows) : \E n \in 1 .. Len(rows) : rows[n] = j
    BY <2>2 DEF ToSet
  <2> QED
    BY <2>1, <2>3, <2>4
<1>3. \A n \in 1 .. Len(rows) : rows[n].at \in Nat
  BY <1>2, IntentsAre
<1>4. i \in Intents(d) /\ i.at \in Nat /\ i.key \in IntentKeys
  BY <1>1, <1>2, IntentsAre
<1>5. p.index \in Nat \ {0}
  OBVIOUS
<1> HIDE DEF i
<1>6. /\ q.stopped => r = q
      /\ ~q.stopped /\ i.key \notin q.seen => Tells(r, q, i, page, p)
  BY <1>4, <1>5, PostingIs
<1>7. r \in PageStates(p)
  BY <1>4, <1>5, PostingIs
<1> HIDE DEF r, names
<1>8. CASE q.stopped
  <2>1. AtPlace(q, found, d, t) /\ NextIs(q, d, t)
    BY <1>8 DEF CountedTo
  <2>2. r = q
    BY <1>6, <1>8
  <2>3. CountedTo(q, k, rows, p, found, d, t)
    BY <1>8, <2>1 DEF CountedTo
  <2>4. CountedTo(r, k, rows, p, found, d, t)
    BY <2>2, <2>3
  <2> QED
    BY <2>4 DEF r, i
<1>9. CASE ~q.stopped
  <2>1. q.next = None /\ q.after = IF k - 1 = 0 THEN p.after ELSE rows[k - 1].at
    BY <1>9 DEF CountedTo
  <2>2. q.after \in Nat /\ q.after >= p.after /\ i.at > q.after
    <3>1. CASE k = 1
      BY <1>1, <1>2, <2>1, <3>1
    <3>2. CASE k # 1
      <4>1. k - 1 \in 1 .. Len(rows) /\ k - 1 < k
        BY <1>1, <3>2
      <4>2. rows[k - 1].at < rows[k].at /\ rows[k - 1].at > p.after /\ rows[k - 1].at \in Nat /\ rows[k].at \in Nat
        BY <1>1, <1>2, <1>3, <4>1
      <4>3. q.after = rows[k - 1].at /\ i.at = rows[k].at
        BY <1>1, <2>1, <3>2
      <4> QED
        BY <4>2, <4>3
    <3> QED
      BY <3>1, <3>2
  <2>3. ASSUME NEW j \in Intents(d), ~j.dynamic, j.name = names[p.index], j.at > q.after, j.at <= i.at PROVE j = i
    <3>1. j.at \in Nat /\ j.at > p.after
      BY <2>2, <2>3, IntentsAre
    <3>2. PICK m \in 1 .. Len(rows) : rows[m] = j
      BY <1>2, <2>3, <3>1
    <3>3. ~(k < m)
      <4>1. k < m => rows[k].at < rows[m].at
        BY <1>1, <1>2
      <4> QED
        BY <1>1, <1>4, <2>3, <3>1, <3>2, <4>1
    <3>4. ~(m < k)
      <4> SUFFICES ASSUME m < k PROVE FALSE
        OBVIOUS
      <4>1. k - 1 \in 1 .. Len(rows) /\ k - 1 # 0 /\ (m < k - 1 \/ m = k - 1)
        BY <1>1
      <4>2. q.after = rows[k - 1].at
        BY <2>1, <4>1
      <4>3. m < k - 1 => rows[m].at < rows[k - 1].at
        BY <1>2, <4>1
      <4>4. j.at <= q.after
        BY <2>2, <3>1, <3>2, <4>1, <4>2, <4>3
      <4> QED
        BY <2>2, <2>3, <3>1, <4>4
    <3> QED
      BY <1>1, <3>2, <3>3, <3>4
  <2>4. \A m, n \in 1 .. Len(names) : names[m] = names[n] => m = n
    <3>1. \A x \in RoutinesReaching(d, t) : IsRoutine(DbOf[d], x)
      BY DEF RoutinesReaching
    <3> QED
      BY <3>1, NamesAre DEF NamesFor, names
  <2>5. ~i.dynamic /\ i.name = names[p.index]
    BY <1>1, <1>2
  <2>6. Told(d, t, p.index, i.at) = told \cup {i} /\ i \notin told
    <3> HIDE DEF told
    <3>1. Told(d, t, p.index, i.at) = Told(d, t, p.index, q.after) \cup {i} /\ i \notin Told(d, t, p.index, q.after)
      <4>1. FollowsAt(d, t, p.index, q.after, i)
        BY <1>4, <2>2, <2>3, <2>4, <2>5 DEF names, FollowsAt
      <4> QED
        BY <4>1, ToldNext
    <3> QED
      BY <3>1 DEF told
  <2>7. q.index = p.index /\ q.usages \in Seq(IntentKeys) /\ r.index = p.index
    BY <1>7 DEF PageStates
  <2>8. Listed(found \o q.usages, d, t, p.index, q.after) /\ q.seen \subseteq {j.key : j \in told}
    BY <2>7 DEF CountedTo, AtPlace
  <2>9. i.key \notin q.seen
    <3>1. told \subseteq Intents(d)
      BY DEF Told
    <3>2. \A j \in told : j.key # i.key
      BY <1>4, <2>6, <3>1, IntentsAre
    <3> HIDE DEF told
    <3> QED
      BY <2>8, <3>2
  <2>10. /\ r.after = i.at /\ r.seen = q.seen \cup {i.key}
         /\ r.usages = IF IsUsage(d, RoutinesReaching(d, t) \cup {t}, i) THEN Append(q.usages, i.key) ELSE q.usages
         /\ ~r.stopped => r.next = None
         /\ r.stopped => r.next = IF page.truncated \/ i # Last(page.items) \/ p.index < Len(names)
                                  THEN <<p.index, i.at>> ELSE None
    BY <1>6, <1>9, <2>1, <2>9 DEF names, Tells
  <2>11. Listed(found \o r.usages, d, t, p.index, i.at)
    <3>1. Told(d, t, p.index, i.at) = Told(d, t, p.index, q.after) \cup {i} /\ i \notin Told(d, t, p.index, q.after)
      BY <2>6 DEF told
    <3> QED
      BY <1>4, <2>7, <2>8, <2>10, <3>1, ListedNext
  <2>12. AtPlace(r, found, d, t)
    <3>1. r.seen \subseteq {j.key : j \in Told(d, t, p.index, i.at)}
      BY <2>6, <2>8, <2>10
    <3> QED
      BY <2>7, <2>10, <2>11, <3>1 DEF AtPlace
  <2>13. ASSUME r.stopped PROVE NextIs(r, d, t)
    <3>1. CASE page.truncated \/ i # Last(page.items) \/ p.index < Len(names)
      <4>1. r.next = <<r.index, r.after>>
        BY <2>7, <2>10, <2>13, <3>1
      <4>2. r.next # None
        <5>1. <<p.index, i.at>> \in Nat \X Nat
          BY <1>4, <1>5
        <5> QED
          BY <2>7, <2>10, <4>1, <5>1, ContinuationAssumption
      <4> QED
        BY <4>1, <4>2 DEF NextIs
    <3>2. CASE ~(page.truncated \/ i # Last(page.items) \/ p.index < Len(names))
      <4>1. page.items = rows /\ i = rows[Len(rows)] /\ Len(rows) \in 1 .. Len(rows)
        <5>1. page.items = rows
          BY <3>2 DEF BeginsWith
        <5> QED
          BY <1>1, <3>2, <5>1 DEF Last
      <4>2. ASSUME NEW j \in Intents(d), NEW m \in 1 .. Len(names), ~j.dynamic, j.name = names[m]
            PROVE  j \in Told(d, t, p.index, i.at)
        <5>1. m < p.index \/ m = p.index
          <6>1. Len(names) \in Nat
            <7>1. \A x \in RoutinesReaching(d, t) : IsRoutine(DbOf[d], x)
              BY DEF RoutinesReaching
            <7> QED
              BY <7>1, NamesAre DEF NamesFor, names
          <6>2. p.index \in 1 .. Len(names)
            BY DEF names
          <6> QED
            BY <3>2, <6>1, <6>2
        <5>2. CASE m = p.index
          <6>1. j.at <= p.after => j.at <= i.at
            BY <1>4, <2>2, IntentsAre
          <6>2. j.at > p.after => j.at <= i.at
            <7> SUFFICES ASSUME j.at > p.after PROVE j.at <= i.at
              OBVIOUS
            <7>1. PICK n \in 1 .. Len(rows) : rows[n] = j
              BY <1>2, <4>2, <5>2
            <7>2. n < Len(rows) => rows[n].at < rows[Len(rows)].at
              BY <1>2, <4>1
            <7>3. n < Len(rows) \/ n = Len(rows)
              BY <1>1
            <7> QED
              BY <1>3, <4>1, <7>1, <7>2, <7>3
          <6>3. j.at \in Nat
            BY IntentsAre
          <6> QED
            BY <4>2, <5>2, <6>1, <6>2, <6>3 DEF Told, names
        <5>3. CASE m < p.index
          BY <4>2, <5>3 DEF Told, names
        <5> QED
          BY <5>1, <5>2, <5>3
      <4>3. r.next = None
        BY <2>10, <2>13, <3>2
      <4> QED
        BY <2>7, <2>10, <4>2, <4>3 DEF NextIs, AllTold, names
    <3> QED
      BY <3>1, <3>2
  <2>14. ~r.stopped => r.next = None /\ r.after = IF k = 0 THEN p.after ELSE rows[k].at
    BY <1>1, <2>10
  <2> QED
    BY <2>12, <2>13, <2>14 DEF CountedTo, r, i
<1> QED
  BY <1>8, <1>9

-----------------------------------------------------------------------------
(* The whole page.                                                           *)
LEMMA PageRuns ==
  ASSUME NEW d \in Deployments, NEW p, p.index \in Nat \ {0}, p \in PageStates(p),
         NEW rows, NEW page, BeginsWith(rows, page, d)
  PROVE  \E f \in [0 .. Len(page.items) -> PageStates(p)] : PageRun(f, p, page)
<1>1. page.items \in Seq(Intents(d))
  BY DEF BeginsWith
<1>2. ASSUME NEW q \in PageStates(p), NEW k \in 1 .. Len(page.items)
      PROVE  Posting(q, page.items[k], page) \in PageStates(p)
  <2>1. page.items[k] \in Intents(d)
    BY <1>1
  <2>2. page.items[k].at \in Nat /\ page.items[k].key \in IntentKeys
    BY <2>1, IntentsAre
  <2> QED
    BY <2>2, PostingIs
<1> QED
  BY <1>1, <1>2, PostingRuns

LEMMA ReadIsTyped ==
  ASSUME NEW d \in Deployments, NEW p, p.index \in Nat \ {0}, p \in PageStates(p), p \in UsagesStates(p),
         NEW rows, NEW page, BeginsWith(rows, page, d)
  PROVE  /\ Read(p, page) \in UsagesStates(Read(p, page))
         /\ Read(p, page).pc = "usages.turn" /\ Read(p, page).cut = p.cut
<1> DEFINE n == Len(page.items)
           r == Read(p, page)
<1>1. n \in Nat /\ page.truncated \in BOOLEAN
  BY DEF BeginsWith
<1>2. PICK f \in [0 .. n -> PageStates(p)] : PageRun(f, p, page)
  BY PageRuns
<1> HIDE DEF r
<1>3. f[n] \in PageStates(p)
  BY <1>1
<1> DEFINE q == f[n]
<1> HIDE DEF q
<1>4. q \in PageStates(p) /\ r = [q EXCEPT !.pc = "usages.turn", !.more = page.truncated]
  BY <1>2, <1>3 DEF q, r, PageRun
<1>5. /\ p.limit \in Limits /\ p.late \in BOOLEAN /\ p.cut \in BOOLEAN /\ "usages.turn" \in UsagesSteps
  BY DEF UsagesStates, UsagesSteps
<1>6. r \in UsagesStates(r) /\ r.pc = "usages.turn" /\ r.cut = p.cut
  BY <1>1, <1>4, <1>5 DEF PageStates, UsagesStates
<1> QED
  BY <1>6 DEF r

LEMMA PageCounted ==
  ASSUME NEW d \in Deployments, NEW t, request.served = d, request.target = t, Names = NamesFor(d, t),
         NEW found \in Seq(IntentKeys), NEW p, p.index \in 1 .. Len(NamesFor(d, t)), p.after \in Nat,
         p.routines = RoutinesReaching(d, t), p \in PageStates(p), CountedTo(p, 0, <<>>, p, found, d, t),
         NEW rows, NEW page, IsPostings(rows, d, NamesFor(d, t)[p.index], p.after), BeginsWith(rows, page, d)
  PROVE  UsagesPlace(Read(p, page), found, d, t)
<1> DEFINE n == Len(page.items)
           r == Read(p, page)
           Counted2(q, k) == CountedTo(q, k, rows, p, found, d, t)
<1>1. n \in Nat /\ page.truncated \in BOOLEAN
  BY DEF BeginsWith
<1>2. PICK f \in [0 .. n -> PageStates(p)] : PageRun(f, p, page)
  <2>1. p.index \in Nat \ {0}
    OBVIOUS
  <2> QED
    BY <2>1, PageRuns
<1>3. /\ f[0] = p /\ \A k \in 1 .. n : f[k] = Posting(f[k - 1], page.items[k], page)
      /\ r = [f[n] EXCEPT !.pc = "usages.turn", !.more = page.truncated]
  BY <1>2 DEF PageRun
<1> HIDE DEF r
<1> DEFINE V == {k \in Nat : k <= n => Counted2(f[k], k)}
<1>4. 0 \in V
  BY <1>3 DEF CountedTo
<1>5. ASSUME NEW k \in Nat, k \in V PROVE k + 1 \in V
  <2> SUFFICES ASSUME k + 1 <= n PROVE Counted2(f[k + 1], k + 1)
    OBVIOUS
  <2>1. Counted2(f[k], k) /\ k + 1 \in 1 .. n /\ (k + 1) - 1 = k
    BY <1>1, <1>5
  <2> DEFINE m == k + 1
  <2>2. m \in 1 .. Len(page.items) /\ f[m - 1] \in PageStates(p) /\ Counted2(f[m - 1], m - 1)
    BY <2>1
  <2> HIDE DEF m
  <2>3. Counted2(Posting(f[m - 1], page.items[m], page), m)
    BY <2>2, PostingCounted
  <2>4. f[m] = Posting(f[m - 1], page.items[m], page)
    BY <1>3, <2>2
  <2>5. Counted2(f[m], m)
    BY <2>3, <2>4
  <2> QED
    BY <2>5 DEF m
<1>6. n \in V
  <2> HIDE DEF V, n
  <2> QED
    BY <1>1, <1>4, <1>5, Induction
<1> DEFINE q == f[n]
<1>7. Counted2(q, n) /\ q \in PageStates(p) /\ r = [q EXCEPT !.pc = "usages.turn", !.more = page.truncated]
  BY <1>1, <1>3, <1>6
<1> HIDE DEF q, V
<1>8. /\ r.pc = "usages.turn" /\ r.more = page.truncated /\ r.routines = p.routines /\ r.index = p.index
      /\ r.after = q.after /\ r.seen = q.seen /\ r.usages = q.usages /\ r.next = q.next /\ r.stopped = q.stopped
      /\ q.index = p.index /\ q.after \in Nat
  BY <1>7 DEF PageStates
<1>9. AtPlace(r, found, d, t)
  BY <1>7, <1>8 DEF CountedTo, AtPlace
<1>10. r.stopped => NextIs(r, d, t)
  BY <1>7, <1>8 DEF CountedTo, NextIs
<1>11. ~r.stopped => r.next = None
  BY <1>7, <1>8 DEF CountedTo
<1>12. ASSUME ~r.more, ~r.stopped PROVE NameRead(r, d, t)
  <2>1. page.items = rows /\ Len(rows) = n
    BY <1>8, <1>12 DEF BeginsWith
  <2>2. q.after = IF n = 0 THEN p.after ELSE rows[n].at
    BY <1>7, <1>8, <1>12 DEF CountedTo
  <2>3. rows \in Seq(Intents(d)) /\ \A i, j \in 1 .. Len(rows) : i < j => rows[i].at < rows[j].at
    BY DEF IsPostings
  <2>4. ToSet(rows) = {i \in Intents(d) : i.name = NamesFor(d, t)[p.index] /\ ~i.dynamic /\ i.at > p.after}
    BY DEF IsPostings
  <2>5. \A j \in 1 .. Len(rows) : rows[j] \in Intents(d) /\ rows[j].at \in Nat
    BY <2>3, IntentsAre
  <2>6. \A i \in ToSet(rows) : \E j \in 1 .. Len(rows) : rows[j] = i
    BY <2>3 DEF ToSet
  <2>7. q.after >= p.after
    <3>1. CASE n = 0
      BY <2>2, <3>1
    <3>2. CASE n # 0
      <4>1. n \in DOMAIN rows
        BY <1>1, <2>1, <2>3, <3>2
      <4>2. rows[n] \in ToSet(rows)
        BY <4>1 DEF ToSet
      <4>3. rows[n].at > p.after /\ rows[n].at \in Nat
        BY <2>4, <4>2, IntentsAre
      <4> QED
        BY <2>2, <3>2, <4>3
    <3> QED
      BY <3>1, <3>2
  <2>8. ASSUME NEW i \in Intents(d), ~i.dynamic, i.name = NamesFor(d, t)[p.index] PROVE i.at <= q.after
    <3>1. i.at \in Nat
      BY IntentsAre
    <3>2. CASE i.at > p.after
      <4>1. PICK j \in 1 .. Len(rows) : rows[j] = i
        BY <2>4, <2>6, <2>8, <3>2
      <4>2. j < n => rows[j].at < rows[n].at
        BY <1>1, <2>1, <2>3, <4>1
      <4>3. rows[n].at \in Nat /\ n # 0 /\ (j < n \/ j = n)
        BY <1>1, <2>1, <2>5, <4>1
      <4> QED
        BY <2>2, <3>1, <4>1, <4>2, <4>3
    <3>3. CASE ~(i.at > p.after)
      BY <1>8, <2>7, <3>1, <3>3
    <3> QED
      BY <3>2, <3>3
  <2> QED
    BY <1>8, <2>8 DEF NameRead
<1>13. p.index <= Len(NamesFor(d, t))
  OBVIOUS
<1>14. UsagesPlace(r, found, d, t)
  BY <1>8, <1>9, <1>10, <1>11, <1>12, <1>13 DEF UsagesPlace
<1> QED
  BY <1>14 DEF r

-----------------------------------------------------------------------------
(* A request at work, and a step of it that leaves the client alone.         *)
LEMMA UsagesAtHand ==
  ASSUME UsagesInv, progress.pc # "idle"
  PROVE  /\ request \in UsagesRequests(request) /\ request.status = "asked" /\ progress # Idle
         /\ request.served \in Deployments /\ request.target \in Targets /\ request.found \in Seq(IntentKeys)
         /\ progress \in UsagesStates(progress) /\ progress \in PageStates(progress) /\ RoomLeft(progress)
         /\ ~progress.cut => UsagesPlace(progress, request.found, request.served, request.target)
<1>1. progress # Idle
  BY DEF Idle
<1>2. /\ request \in UsagesRequests(request) /\ request.status = "asked"
      /\ progress \in UsagesStates(progress) /\ RoomLeft(progress)
      /\ ~progress.cut => UsagesPlace(progress, request.found, request.served, request.target)
  BY <1>1 DEF UsagesInv, UsagesTypeOK, PlaceOfUsages
<1>3. progress \in PageStates(progress)
  BY <1>2 DEF UsagesStates, PageStates
<1>4. request.served \in Deployments /\ request.target \in Targets /\ request.found \in Seq(IntentKeys)
  BY <1>2 DEF UsagesRequests
<1> QED
  BY <1>1, <1>2, <1>3, <1>4

LEMMA UsagesGoOn ==
  ASSUME UsagesInv, progress.pc # "idle", request' = request, progress' \in UsagesStates(progress'), RoomLeft(progress'),
         progress'.pc = "usages.walk" /\ ~progress'.cut => WalkedFrom(progress', request.served, request.target),
         ~progress'.cut => UsagesPlace(progress', request.found, request.served, request.target)
  PROVE  UsagesInv'
<1>1. request \in UsagesRequests(request) /\ request.status = "asked" /\ ClientInv
  BY UsagesAtHand DEF UsagesInv
<1>2. UsagesTypeOK'
  BY <1>1 DEF UsagesTypeOK
<1>3. ClientInv'
  BY <1>1 DEF ClientInv
<1>4. WalkOfUsages' /\ PlaceOfUsages'
  BY DEF WalkOfUsages, PlaceOfUsages
<1> QED
  BY <1>2, <1>3, <1>4 DEF UsagesInv

(* A request that ends without reporting anything.                           *)
LEMMA UsagesAnswered ==
  ASSUME UsagesInv, NEW status \in Statuses \ {"complete"}, Answer(status)
  PROVE  UsagesInv'
<1>1. request \in UsagesRequests(request) /\ ClientInv
  BY DEF UsagesInv, UsagesTypeOK
<1>2. request' = [request EXCEPT !.status = status] /\ progress' = Idle
  BY DEF Answer
<1>3. /\ request' \in UsagesRequests(request') /\ request'.cursor = request.cursor /\ request'.found = request.found
      /\ request'.status # "complete"
  BY <1>1, <1>2 DEF UsagesRequests
<1>4. ClientInv'
  BY <1>1, <1>3 DEF ClientInv
<1>5. UsagesTypeOK' /\ WalkOfUsages' /\ PlaceOfUsages'
  BY <1>2, <1>3 DEF UsagesTypeOK, WalkOfUsages, PlaceOfUsages, Idle
<1> QED
  BY <1>4, <1>5 DEF UsagesInv

LEMMA UsagesBegin == UsagesInit => UsagesInv
<1> SUFFICES ASSUME UsagesInit PROVE UsagesInv
  OBVIOUS
<1>1. PICK d \in Deployments, t \in Targets :
        request = [tool |-> "usages", served |-> d, target |-> t, ref |-> DbOf[d].generation, cursor |-> None,
                   found |-> <<>>, status |-> "new"]
  BY DEF UsagesInit
<1>2. progress = Idle
  BY DEF UsagesInit
<1>3. <<>> \in Seq(IntentKeys)
  OBVIOUS
<1>4. request \in UsagesRequests(request)
  BY <1>1, <1>3 DEF UsagesRequests, Statuses
<1>5. ClientInv
  BY <1>1 DEF ClientInv
<1> QED
  BY <1>2, <1>4, <1>5 DEF UsagesInv, UsagesTypeOK, WalkOfUsages, PlaceOfUsages, Idle

(* The client moves: the server is restarted, or another question is put.     *)
LEMMA UsagesClientMoves ==
  ASSUME UsagesInv, progress.pc = "idle", progress' = progress, request'.status = "new", request' \in UsagesRequests(request'),
         request'.found = request.found, request'.cursor \in {None, request.cursor}
  PROVE  UsagesInv'
<1>1. ClientInv
  BY DEF UsagesInv
<1>2. progress = Idle
  BY DEF UsagesInv, UsagesTypeOK, UsagesStates, UsagesSteps
<1>3. ClientInv'
  BY <1>1 DEF ClientInv
<1> QED
  BY <1>2, <1>3 DEF UsagesInv, UsagesTypeOK, WalkOfUsages, PlaceOfUsages, Idle

LEMMA ServerRestarts == UsagesInv /\ Restart => UsagesInv'
<1> SUFFICES ASSUME UsagesInv, Restart PROVE UsagesInv'
  OBVIOUS
<1>1. PICK d \in Deployments : request' = [request EXCEPT !.served = d, !.status = "new"]
  BY DEF Restart
<1>2. request \in UsagesRequests(request) /\ progress.pc = "idle" /\ progress' = progress
  BY DEF UsagesInv, UsagesTypeOK, Restart
<1>3. /\ request'.status = "new" /\ request' \in UsagesRequests(request')
      /\ request'.found = request.found /\ request'.cursor = request.cursor
  BY <1>1, <1>2 DEF UsagesRequests, Statuses
<1> QED
  BY <1>2, <1>3, UsagesClientMoves

LEMMA QuestionChanges ==
  ASSUME UsagesInv, NEW target \in Targets, NEW cursor, cursor \in {None, request.cursor}, ChangeQuestion(target, cursor)
  PROVE  UsagesInv'
<1>1. request' = [request EXCEPT !.target = target, !.cursor = cursor, !.status = "new", !.ref = Db.generation]
  BY DEF ChangeQuestion
<1>2. request \in UsagesRequests(request) /\ progress.pc = "idle" /\ progress' = progress
  BY DEF UsagesInv, UsagesTypeOK, ChangeQuestion
<1> DEFINE ref == Db.generation
<1> HIDE DEF ref
<1>3. request' = [request EXCEPT !.target = target, !.cursor = cursor, !.status = "new", !.ref = ref]
  BY <1>1 DEF ref
<1>4. /\ request'.status = "new" /\ request' \in UsagesRequests(request')
      /\ request'.found = request.found /\ request'.cursor = cursor
  BY <1>2, <1>3 DEF UsagesRequests, Statuses
<1> QED
  BY <1>2, <1>4, UsagesClientMoves

LEMMA NothingListed ==
  ASSUME NEW d \in Deployments, NEW t
  PROVE  Listed(<<>>, d, t, 1, 0)
<1>1. \A i \in Intents(d) : ~(i.at <= 0)
  BY IntentsAre
<1>2. Told(d, t, 1, 0) = {}
  BY <1>1 DEF Told
<1>3. UsagesAmong(d, t, {}) = {}
  BY DEF UsagesAmong
<1>4. IsInjective(<<>>) /\ ToSet(<<>>) = {}
  BY DEF IsInjective, ToSet
<1> QED
  BY <1>2, <1>3, <1>4 DEF Listed

(* The walk begins at the target, and the listing where the cursor is.       *)
LEMMA UsagesAreAsked ==
  ASSUME UsagesInv, NEW limit \in Limits, AskUsages(limit)
  PROVE  UsagesInv'
<1>1. request \in UsagesRequests(request) /\ ClientInv
  BY DEF UsagesInv, UsagesTypeOK
<1>2. CASE Answer("invalid_reference") \/ Answer("not_found") \/ Answer("invalid_cursor")
  <2>1. /\ "invalid_reference" \in Statuses \ {"complete"} /\ "not_found" \in Statuses \ {"complete"}
        /\ "invalid_cursor" \in Statuses \ {"complete"}
    BY DEF Statuses
  <2> QED
    BY <1>2, <2>1, UsagesAnswered
<1>3. CASE ~(Answer("invalid_reference") \/ Answer("not_found") \/ Answer("invalid_cursor"))
  <2> DEFINE d == request.served
             t == request.target
             c == request.cursor
             index == IF c = None THEN 1 ELSE c.name
             after == IF c = None THEN 0 ELSE c.after
             found == IF c = None THEN <<>> ELSE request.found
             queue == <<<<t, 0>>>>
  <2>1. /\ c = None \/ c.binding = Binding(d, t)
        /\ request' = [request EXCEPT !.status = "asked", !.found = IF c = None THEN <<>> ELSE @]
        /\ progress' = [pc |-> "usages.walk", limit |-> limit, late |-> FALSE,
                        queue |-> queue, visited |-> {t}, edges |-> 0, routines |-> {}, cut |-> FALSE,
                        index |-> index, after |-> after, examined |-> 0, seen |-> {}, usages |-> <<>>,
                        next |-> None, stopped |-> FALSE, more |-> FALSE]
    BY <1>3 DEF AskUsages
  <2>2. d \in Deployments /\ t \in Targets /\ request.found \in Seq(IntentKeys)
    BY <1>1 DEF UsagesRequests
  <2>3. index \in Nat \ {0} /\ after \in Nat /\ Listed(found, d, t, index, after)
    <3>1. CASE c = None
      BY <2>2, <3>1, NothingListed
    <3>2. CASE c # None
      <4>1. PICK e \in Deployments, u \in Targets, name \in Nat \ {0}, at \in Nat :
              c = Cursor(e, u, name, at) /\ Listed(request.found, e, u, name, at)
        BY <1>1, <3>2 DEF ClientInv
      <4>2. c.binding = Binding(e, u) /\ c.name = name /\ c.after = at
        BY <4>1 DEF Cursor
      <4>3. Binding(e, u) = Binding(d, t)
        BY <2>1, <3>2, <4>2
      <4>4. Listed(request.found, d, t, name, at)
        BY <2>2, <4>1, <4>3, SameListed
      <4> QED
        BY <3>2, <4>2, <4>4
    <3> QED
      BY <3>1, <3>2
  <2> HIDE DEF index, after
  <2>4. found \in Seq(IntentKeys)
    BY <2>2
  <2>5. request'.found = found /\ request'.served = d /\ request'.target = t /\ request'.cursor = c
        /\ request'.status = "asked" /\ request' \in UsagesRequests(request')
    <3>1. request' = [request EXCEPT !.status = "asked", !.found = found]
      BY <2>1
    <3> HIDE DEF found
    <3> QED
      BY <1>1, <2>4, <3>1 DEF UsagesRequests, Statuses
  <2> HIDE DEF found
  <2>6. queue \in Seq({t} \X Nat) /\ DOMAIN queue = {1} /\ queue[1][1] = t
    BY DEF queue
  <2> HIDE DEF queue
  <2>7. progress' \in UsagesStates(progress')
    <3>1. <<>> \in Seq(IntentKeys) /\ {} \in SUBSET IntentKeys
      OBVIOUS
    <3> QED
      BY <2>1, <2>3, <3>1 DEF UsagesStates, UsagesSteps
  <2>8. WalkedFrom(progress', d, t)
    <3>1. progress'.queue = queue /\ progress'.visited = {t} /\ progress'.routines = {}
      BY <2>1
    <3>2. t \in Reaching(DbOf[d], t)
      BY ReachingIs
    <3> HIDE DEF d, t
    <3> QED
      BY <2>6, <3>1, <3>2 DEF WalkedFrom
  <2>9. UsagesPlace(progress', found, d, t)
    <3>1. /\ progress'.pc = "usages.walk" /\ progress'.usages = <<>> /\ progress'.seen = {}
          /\ progress'.index = index /\ progress'.after = after /\ progress'.next = None /\ progress'.stopped = FALSE
      BY <2>1
    <3>2. found \o <<>> = found
      BY <2>4
    <3>3. AtPlace(progress', found, d, t)
      BY <2>3, <3>1, <3>2 DEF AtPlace
    <3> QED
      BY <3>1, <3>3 DEF UsagesPlace
  <2>10. ClientInv'
    <3>1. c # None => found = request.found
      BY DEF found
    <3>2. request'.cursor # None =>
            \E e \in Deployments, u \in Targets, name \in Nat \ {0}, at \in Nat :
              request'.cursor = Cursor(e, u, name, at) /\ Listed(request'.found, e, u, name, at)
      BY <1>1, <2>5, <3>1 DEF ClientInv
    <3> QED
      BY <2>5, <3>2 DEF ClientInv
  <2>11. UsagesTypeOK'
    <3>1. progress'.pc = "usages.walk"
      BY <2>1
    <3> QED
      BY <2>5, <2>7, <3>1 DEF UsagesTypeOK, RoomLeft
  <2>12. WalkOfUsages' /\ PlaceOfUsages'
    BY <2>5, <2>8, <2>9 DEF WalkOfUsages, PlaceOfUsages
  <2> QED
    BY <2>10, <2>11, <2>12 DEF UsagesInv
<1> QED
  BY <1>2, <1>3

-----------------------------------------------------------------------------
(* The page of incoming edges of a node, and what is fresh in it.            *)
LEMMA IncomingIs ==
  ASSUME NEW d \in Deployments, NEW k
  PROVE  /\ Incoming(DbOf[d], k).truncated \in BOOLEAN
         /\ IsFiniteSet(ToSet(Incoming(DbOf[d], k).items))
         /\ ~Incoming(DbOf[d], k).truncated =>
              ToSet(Incoming(DbOf[d], k).items) = {e \in ToSet(DbOf[d].edges) : e.target = k /\ e.exact}
<1> DEFINE all == DbOf[d].edges
           S == {e \in ToSet(all) : e.target = k /\ e.exact}
           rows == Among(all, S)
           page == Page(rows, PageSize)
<1>1. all \in Seq(ToSet(all)) /\ PageSize \in Nat
  BY CatalogsAssumption DEF IsListing
<1>2. page = Incoming(DbOf[d], k)
  BY DEF Incoming
<1> DEFINE T == ToSet(all)
<1> HIDE DEF all, S
<1>3. rows \in Seq(T) /\ ToSet(rows) = ToSet(all) \cap S
  BY <1>1, AmongGrows, AmongMembers
<1> HIDE DEF rows, T
<1>4. page.items \in Seq(T) /\ page.truncated \in BOOLEAN /\ (~page.truncated => page.items = rows)
  BY <1>1, <1>3, PageOf
<1> HIDE DEF page
<1>5. IsFiniteSet(ToSet(page.items))
  BY <1>4, FiniteRows
<1>6. ToSet(all) \cap S = S
  BY DEF S
<1> QED
  BY <1>2, <1>3, <1>4, <1>5, <1>6 DEF S, all

FreshIn(d, k, visited) ==
  {e.source : e \in {f \in ToSet(Incoming(DbOf[d], k).items) : EdgeAllowed(DbOf[d], f) /\ f.source \notin visited}}
FoundFresh(d, k, visited, fresh) ==
  /\ SetToSeq(fresh) \in Seq(fresh) /\ ToSet(SetToSeq(fresh)) = fresh
  /\ ~Incoming(DbOf[d], k).truncated =>
       fresh \subseteq SourcesOf(DbOf[d], {k}) /\ SourcesOf(DbOf[d], {k}) \subseteq visited \cup fresh

LEMMA FreshIs ==
  ASSUME NEW d \in Deployments, NEW k, NEW visited
  PROVE  FoundFresh(d, k, visited, FreshIn(d, k, visited))
<1> DEFINE fresh == FreshIn(d, k, visited)
           items == ToSet(Incoming(DbOf[d], k).items)
           some == {f \in items : EdgeAllowed(DbOf[d], f) /\ f.source \notin visited}
           source == [e \in items |-> e.source]
<1>1. fresh = {source[e] : e \in some}
  BY DEF FreshIn
<1>2. IsFiniteSet(items)
  BY IncomingIs
<1>3. some \in SUBSET items
  OBVIOUS
<1> HIDE DEF items, some, source, fresh
<1>4. IsFiniteSet(some)
  BY <1>2, <1>3, FS_Subset
<1>5. IsFiniteSet({source[e] : e \in some})
  BY <1>4, FiniteImage
<1>6. IsFiniteSet(fresh)
  BY <1>1, <1>5
<1>7. SetToSeq(fresh) \in Seq(fresh) /\ ToSet(SetToSeq(fresh)) = fresh
  BY <1>6, SetInOrder
<1>8. ASSUME ~Incoming(DbOf[d], k).truncated
      PROVE  fresh \subseteq SourcesOf(DbOf[d], {k}) /\ SourcesOf(DbOf[d], {k}) \subseteq visited \cup fresh
  <2>1. items = {e \in ToSet(DbOf[d].edges) : e.target = k /\ e.exact}
    BY <1>8, IncomingIs DEF items
  <2>2. fresh = {e.source : e \in {f \in items : EdgeAllowed(DbOf[d], f) /\ f.source \notin visited}}
    BY DEF items, fresh, FreshIn
  <2> QED
    BY <2>1, <2>2 DEF SourcesOf
<1> QED
  BY <1>7, <1>8 DEF fresh, FoundFresh

(* The queue after the fresh keys were put into it.                          *)
Queued(next, queue, V, fresh) ==
  /\ next \in Seq((V \cup fresh) \X Nat)
  /\ \A n \in DOMAIN queue : \E m \in DOMAIN next : next[m][1] = queue[n][1]
  /\ \A k \in fresh : \E m \in DOMAIN next : next[m][1] = k

LEMMA QueueGrows ==
  ASSUME NEW V, NEW fresh, NEW keys \in Seq(fresh), ToSet(keys) = fresh, NEW depth \in Nat, NEW queue \in Seq(V \X Nat)
  PROVE  Queued(queue \o [n \in DOMAIN keys |-> <<keys[n], depth>>], queue, V, fresh)
<1> DEFINE next == queue \o [n \in DOMAIN keys |-> <<keys[n], depth>>]
           W == (V \cup fresh) \X Nat
           rest == [n \in DOMAIN keys |-> <<keys[n], depth>>]
<1>1. DOMAIN keys = 1 .. Len(keys) /\ Len(keys) \in Nat /\ \A n \in 1 .. Len(keys) : keys[n] \in fresh
  OBVIOUS
<1>2. rest \in [1 .. Len(keys) -> W] /\ \A n \in 1 .. Len(keys) : rest[n][1] = keys[n]
  BY <1>1
<1>3. queue \in Seq(W)
  <2>1. V \X Nat \subseteq W
    OBVIOUS
  <2> HIDE DEF W
  <2> QED
    BY <2>1, SeqMonotonic
<1>4. next = queue \o rest
  OBVIOUS
<1> DEFINE N == Len(keys)
<1> HIDE DEF W, rest, next
<1>5. rest \in Seq(W) /\ Len(rest) = Len(keys)
  <2>1. rest \in [1 .. N -> W] /\ N \in Nat
    BY <1>1, <1>2
  <2> HIDE DEF N
  <2>2. rest \in Seq(W) /\ Len(rest) = N
    BY <2>1
  <2> QED
    BY <2>2 DEF N
<1>6. /\ next \in Seq(W) /\ Len(next) = Len(queue) + Len(rest)
      /\ \A n \in 1 .. Len(queue) + Len(rest) : next[n] = IF n <= Len(queue) THEN queue[n] ELSE rest[n - Len(queue)]
  <2> DEFINE joined == queue \o rest
  <2>1. /\ joined \in Seq(W) /\ Len(joined) = Len(queue) + Len(rest)
        /\ \A n \in 1 .. Len(queue) + Len(rest) : joined[n] = IF n <= Len(queue) THEN queue[n] ELSE rest[n - Len(queue)]
    BY <1>3, <1>5, ConcatProperties
  <2>2. next = joined
    BY <1>4
  <2> HIDE DEF joined
  <2> QED
    BY <2>1, <2>2
<1>7. Len(queue) \in Nat /\ DOMAIN queue = 1 .. Len(queue) /\ DOMAIN next = 1 .. Len(queue) + Len(rest) /\ Len(rest) \in Nat
  BY <1>1, <1>3, <1>5, <1>6
<1>8. ASSUME NEW n \in DOMAIN queue PROVE \E m \in DOMAIN next : next[m][1] = queue[n][1]
  <2>1. n \in DOMAIN next /\ n <= Len(queue)
    BY <1>7
  <2>2. next[n] = queue[n]
    BY <1>6, <1>7, <2>1
  <2> QED
    BY <2>1, <2>2
<1>9. ASSUME NEW k \in fresh PROVE \E m \in DOMAIN next : next[m][1] = k
  <2>1. PICK n \in 1 .. Len(keys) : keys[n] = k
    BY <1>1 DEF ToSet
  <2> DEFINE m == n + Len(queue)
  <2>2. m \in DOMAIN next /\ ~(m <= Len(queue)) /\ m - Len(queue) = n
    BY <1>5, <1>7
  <2> HIDE DEF m
  <2>3. next[m] = rest[n]
    BY <1>6, <1>7, <2>2
  <2> QED
    BY <1>2, <2>1, <2>2, <2>3
<1> QED
  BY <1>6, <1>8, <1>9 DEF W, next, Queued

(* One step of the walk: at its end everything that reaches the target was
   visited, unless the walk was cut.                                         *)
LEMMA UsagesWalkOn == UsagesInv /\ WalkIncoming => UsagesInv'
<1> SUFFICES ASSUME UsagesInv, WalkIncoming PROVE UsagesInv'
  OBVIOUS
<1> DEFINE d == request.served
           t == request.target
           found == request.found
<1>1. progress.pc = "usages.walk" /\ progress.pc # "idle" /\ request' = request
  BY DEF WalkIncoming
<1>2. /\ progress \in UsagesStates(progress) /\ d \in Deployments
      /\ ~progress.cut => UsagesPlace(progress, found, d, t)
      /\ ~progress.cut => WalkedFrom(progress, d, t)
  BY <1>1, UsagesAtHand DEF UsagesInv, WalkOfUsages
<1>3. ~progress.cut => progress.next = None /\ ~progress.stopped /\ AtPlace(progress, found, d, t)
  BY <1>1, <1>2 DEF UsagesPlace
<1> HIDE DEF d, t, found
<1>4. CASE ~MayWalk
  <2> DEFINE left == progress.queue # <<>>
  <2>1. left = TRUE \/ left = FALSE
    OBVIOUS
  <2>2. progress' = [progress EXCEPT !.pc = "usages.names", !.cut = @ \/ left \/ progress.late]
    BY <1>4 DEF WalkIncoming
  <2>3. left = FALSE => progress.queue = <<>>
    OBVIOUS
  <2> DEFINE cut == progress.cut \/ left \/ progress.late
  <2> HIDE DEF left
  <2>4. cut \in BOOLEAN /\ (~cut => ~progress.cut /\ progress.queue = <<>>)
    BY <1>2, <2>1, <2>3
  <2>5. progress' = [progress EXCEPT !.pc = "usages.names", !.cut = cut]
    BY <2>2
  <2> HIDE DEF cut
  <2>6. progress' \in UsagesStates(progress') /\ progress'.pc = "usages.names"
    BY <1>2, <2>4, <2>5 DEF UsagesStates, UsagesSteps
  <2>7. ASSUME ~progress'.cut PROVE UsagesPlace(progress', found, d, t)
    <3>1. ~progress.cut /\ progress.queue = <<>>
      BY <1>2, <2>4, <2>5, <2>7 DEF UsagesStates
    <3>2. WalkedFrom(progress, d, t)
      BY <1>2, <3>1
    <3>3. \A k \in progress.visited : Expanded(progress, d, k)
      BY <3>1, <3>2 DEF WalkedFrom
    <3>4. progress.visited = Reaching(DbOf[d], t)
      <4>1. progress.visited \in SUBSET Reaching(DbOf[d], t) /\ t \in progress.visited
        BY <3>2 DEF WalkedFrom
      <4>2. \A k \in progress.visited : SourcesOf(DbOf[d], {k}) \subseteq progress.visited
        BY <3>3 DEF Expanded
      <4> QED
        BY <4>1, <4>2, ReachingIs
    <3>5. progress.routines = RoutinesReaching(d, t)
      BY <3>2, <3>3, <3>4 DEF WalkedFrom, Expanded, RoutinesReaching
    <3>6. /\ progress'.routines = progress.routines /\ progress'.stopped = progress.stopped /\ progress'.next = progress.next
          /\ progress'.usages = progress.usages /\ progress'.seen = progress.seen /\ progress'.index = progress.index
          /\ progress'.after = progress.after
      BY <1>2, <2>5 DEF UsagesStates
    <3>7. AtPlace(progress', found, d, t)
      BY <1>3, <3>1, <3>6 DEF AtPlace
    <3> QED
      BY <1>3, <2>6, <3>1, <3>5, <3>6, <3>7 DEF UsagesPlace
  <2> QED
    BY <1>1, <2>6, <2>7, UsagesGoOn DEF d, t, found, RoomLeft
<1>5. CASE MayWalk
  <2> DEFINE node == progress.queue[1]
             k == node[1]
             page == Incoming(DbOf[d], k)
             rest == Tail(progress.queue)
             routines == progress.routines \cup (IF IsRoutine(DbOf[d], k) THEN {k} ELSE {})
             fresh == FreshIn(d, k, progress.visited)
             keys == SetToSeq(fresh)
             queue == rest \o [n \in DOMAIN keys |-> <<keys[n], node[2] + 1>>]
             walked == [progress EXCEPT !.queue = rest, !.routines = routines]
  <2>1. progress' = Expand(walked, node, page)
    BY <1>5 DEF WalkIncoming, Db, d
  <2> HIDE DEF node, page, rest, routines
  <2>2. walked.visited = progress.visited /\ walked.cut = progress.cut /\ walked.queue = rest /\ walked.edges = progress.edges
    BY <1>2 DEF UsagesStates
  <2>3. CASE node[2] >= MaxDepth
    <3>1. progress' = [walked EXCEPT !.cut = TRUE]
      BY <2>1, <2>3 DEF Expand
    <3>2. progress' = [progress EXCEPT !.queue = rest, !.routines = routines, !.cut = TRUE]
      BY <3>1
    <3>3. progress' \in UsagesStates(progress') /\ progress'.cut = TRUE
      BY <1>2, <3>2 DEF UsagesStates
    <3>4. progress'.pc = "usages.walk"
      BY <1>1, <1>2, <3>2 DEF UsagesStates
    <3> QED
      BY <1>1, <3>3, <3>4, UsagesGoOn DEF RoomLeft
  <2>4. CASE ~(node[2] >= MaxDepth)
    <3> DEFINE edges == progress.edges + Len(page.items)
               cut == progress.cut \/ page.truncated
               turned == [walked EXCEPT !.edges = @ + Len(page.items), !.cut = @ \/ page.truncated]
               source == {e.source : e \in {f \in ToSet(page.items) : EdgeAllowed(DbOf[d], f) /\ f.source \notin walked.visited}}
    <3>1. progress' = Enqueue(turned, SetToSeq(source), node[2] + 1)
      BY <2>1, <2>4 DEF Expand, Db, d
    <3>2. source = fresh
      BY <2>2 DEF FreshIn, page
    <3>3. turned = [progress EXCEPT !.queue = rest, !.routines = routines, !.edges = edges, !.cut = cut]
      BY <2>2
    <3> HIDE DEF source, fresh, edges, turned, walked
    <3>4. progress' = [turned EXCEPT !.queue = @ \o [n \in DOMAIN keys |-> <<keys[n], node[2] + 1>>],
                                     !.visited = @ \cup ToSet(keys)]
      BY <3>1, <3>2, Zenon DEF Enqueue
    <3>5. page.truncated \in BOOLEAN /\ ToSet(keys) = fresh /\ keys \in Seq(fresh)
      <4>1. SetToSeq(fresh) \in Seq(fresh) /\ ToSet(SetToSeq(fresh)) = fresh
        BY <1>2, FreshIs DEF fresh, FoundFresh
      <4>2. page.truncated \in BOOLEAN
        BY <1>2, IncomingIs DEF page
      <4> QED
        BY <4>1, <4>2
    <3> DEFINE visited == progress.visited \cup fresh
    <3>6. cut \in BOOLEAN /\ (~cut => ~progress.cut /\ ~page.truncated)
      BY <1>2, <3>5 DEF UsagesStates
    <3>7. turned.queue = rest /\ turned.visited = progress.visited
      BY <1>2, <3>3 DEF UsagesStates
    <3>8. progress' = [turned EXCEPT !.queue = queue, !.visited = visited]
      BY <3>4, <3>5, <3>7
    <3> HIDE DEF cut, queue, visited
    <3>9. progress' = [progress EXCEPT !.queue = queue, !.routines = routines, !.edges = edges, !.cut = cut, !.visited = visited]
      BY <3>3, <3>8
    <3>10. /\ progress' \in UsagesStates(progress') /\ progress'.pc = "usages.walk" /\ progress'.cut = cut
           /\ progress'.queue = queue /\ progress'.routines = routines /\ progress'.visited = visited
           /\ progress'.stopped = progress.stopped /\ progress'.next = progress.next
           /\ progress'.usages = progress.usages /\ progress'.seen = progress.seen /\ progress'.index = progress.index
           /\ progress'.after = progress.after
      BY <1>1, <1>2, <3>6, <3>9 DEF UsagesStates
    <3>11. ASSUME ~cut PROVE WalkedFrom(progress', d, t)
      <4>1. WalkedFrom(progress, d, t)
        BY <1>2, <3>6, <3>11
      <4> DEFINE V == progress.visited
                 old == progress.queue
      <4>2. /\ old \in Seq(V \X Nat) /\ t \in V /\ V \subseteq Reaching(DbOf[d], t)
            /\ progress.routines \subseteq {x \in V : IsRoutine(DbOf[d], x)}
            /\ \A x \in V : Expanded(progress, d, x) \/ \E n \in DOMAIN old : old[n][1] = x
        BY <4>1 DEF WalkedFrom
      <4>3. node \in V \X Nat /\ rest \in Seq(V \X Nat) /\ \A n \in DOMAIN old : n = 1 \/ (n - 1 \in DOMAIN rest /\ rest[n - 1] = old[n])
        <5>1. old # <<>> /\ node = old[1]
          BY <1>5 DEF MayWalk, node
        <5> DEFINE W == V \X Nat
        <5>2. old \in Seq(W)
          BY <4>2
        <5> HIDE DEF W, old
        <5>3. rest = Tail(old)
          BY DEF rest, old
        <5>4. old[1] \in W /\ Tail(old) \in Seq(W)
          BY <5>1, <5>2
        <5>5. \A n \in DOMAIN old : n = 1 \/ (n - 1 \in DOMAIN Tail(old) /\ Tail(old)[n - 1] = old[n])
          BY <5>1, <5>2
        <5> QED
          BY <5>1, <5>3, <5>4, <5>5 DEF W
      <4>4. k \in V /\ node[2] + 1 \in Nat
        BY <4>3
      <4>5. /\ queue \in Seq((V \cup fresh) \X Nat)
            /\ \A n \in DOMAIN rest : \E m \in DOMAIN queue : queue[m][1] = rest[n][1]
            /\ \A x \in fresh : \E m \in DOMAIN queue : queue[m][1] = x
        <5> DEFINE depth == node[2] + 1
        <5>1. queue = rest \o [n \in DOMAIN keys |-> <<keys[n], depth>>]
          BY DEF queue
        <5>2. depth \in Nat
          BY <4>4
        <5> HIDE DEF depth, keys, V
        <5>3. Queued(rest \o [n \in DOMAIN keys |-> <<keys[n], depth>>], rest, V, fresh)
          BY <3>5, <4>3, <5>2, QueueGrows
        <5>4. Queued(queue, rest, V, fresh)
          BY <5>1, <5>3, Zenon
        <5> QED
          BY <5>4 DEF Queued
      <4>6. fresh \subseteq SourcesOf(DbOf[d], {k}) /\ SourcesOf(DbOf[d], {k}) \subseteq V \cup fresh
        <5>1. FoundFresh(d, k, progress.visited, fresh)
          BY <1>2, FreshIs DEF fresh
        <5>2. ~Incoming(DbOf[d], k).truncated
          BY <3>6, <3>11 DEF page
        <5> QED
          BY <5>1, <5>2 DEF FoundFresh
      <4>7. SourcesOf(DbOf[d], {k}) \subseteq Reaching(DbOf[d], t)
        BY <4>2, <4>4, ReachingIs
      <4>8. IsRoutine(DbOf[d], k) => k \in routines
        BY DEF routines
      <4>9. progress.routines \subseteq routines /\ routines \subseteq {x \in V : IsRoutine(DbOf[d], x)}
        BY <4>2, <4>4 DEF routines
      <4>10. Expanded(progress', d, k)
        BY <3>10, <4>6, <4>8 DEF Expanded, visited
      <4>11. \A x \in V : Expanded(progress, d, x) => Expanded(progress', d, x)
        BY <3>10, <4>9 DEF Expanded, visited
      <4>12. ASSUME NEW x \in visited
             PROVE  Expanded(progress', d, x) \/ \E n \in DOMAIN queue : queue[n][1] = x
        <5>1. CASE x \in fresh
          BY <4>5, <5>1
        <5>2. CASE x \in V /\ Expanded(progress, d, x)
          BY <4>11, <5>2
        <5>3. CASE x \in V /\ ~Expanded(progress, d, x)
          <6>1. PICK n \in DOMAIN old : old[n][1] = x
            BY <4>2, <5>3
          <6>2. CASE n = 1
            <7>1. x = k
              BY <6>1, <6>2 DEF node
            <7> QED
              BY <4>10, <7>1
          <6>3. CASE n # 1
            <7>1. n - 1 \in DOMAIN rest /\ rest[n - 1] = old[n]
              BY <4>3, <6>3
            <7>2. PICK m \in DOMAIN queue : queue[m][1] = rest[n - 1][1]
              BY <4>5, <7>1
            <7> QED
              BY <6>1, <7>1, <7>2
          <6> QED
            BY <6>2, <6>3
        <5> QED
          BY <4>12, <5>1, <5>2, <5>3 DEF visited
      <4>13. visited \subseteq Reaching(DbOf[d], t) /\ t \in visited /\ V \subseteq visited /\ visited = V \cup fresh
        BY <4>2, <4>6, <4>7 DEF visited
      <4> HIDE DEF V, old
      <4>14. routines \subseteq {x \in visited : IsRoutine(DbOf[d], x)}
        BY <4>9, <4>13
      <4> QED
        BY <3>10, <4>5, <4>12, <4>13, <4>14 DEF WalkedFrom
    <3>12. ASSUME ~cut PROVE UsagesPlace(progress', found, d, t)
      <4>1. AtPlace(progress', found, d, t) /\ ~progress'.stopped /\ progress'.next = None
        BY <1>3, <3>6, <3>10, <3>12 DEF AtPlace
      <4> QED
        BY <3>10, <4>1 DEF UsagesPlace
    <3> QED
      BY <1>1, <3>10, <3>11, <3>12, UsagesGoOn DEF d, t, found, RoomLeft
  <2> QED
    BY <2>3, <2>4
<1> QED
  BY <1>4, <1>5

-----------------------------------------------------------------------------
(* The names of the routines that reach the target are a list.               *)
LEMMA NamesListed ==
  ASSUME NEW d \in Deployments, NEW t
  PROVE  Len(NamesOf(DbOf[d], RoutinesReaching(d, t))) \in Nat
<1>1. \A x \in RoutinesReaching(d, t) : IsRoutine(DbOf[d], x)
  BY DEF RoutinesReaching
<1> QED
  BY <1>1, NamesAre

(* The head of the outer loop.                                               *)
LEMMA NamesAreTakenInTurn == UsagesInv /\ NextName => UsagesInv'
<1> SUFFICES ASSUME UsagesInv, NextName PROVE UsagesInv'
  OBVIOUS
<1> DEFINE d == request.served
           t == request.target
           found == request.found
           names == NamesFor(d, t)
<1>1. progress.pc = "usages.names" /\ progress.pc # "idle" /\ request' = request
  BY DEF NextName
<1>2. /\ progress \in UsagesStates(progress) /\ d \in Deployments
      /\ ~progress.cut => UsagesPlace(progress, found, d, t)
  BY <1>1, UsagesAtHand
<1>3. ~progress.cut => Names = names /\ Len(names) \in Nat
  BY <1>1, <1>2, NamesListed DEF UsagesPlace, Names, NamesFor, Db
<1>4. ~progress.cut => progress.next = None /\ ~progress.stopped /\ AtPlace(progress, found, d, t)
  BY <1>1, <1>2 DEF UsagesPlace
<1> HIDE DEF d, t, found, names
<1>5. CASE progress.index <= Len(Names) /\ progress.examined < WorkCap /\ ~progress.late
  <2>1. progress' = [progress EXCEPT !.pc = "usages.turn", !.more = TRUE]
    BY <1>5 DEF NextName
  <2>2. /\ progress' \in UsagesStates(progress') /\ progress'.pc = "usages.turn" /\ progress'.more = TRUE
        /\ progress'.cut = progress.cut /\ progress'.routines = progress.routines
        /\ progress'.stopped = progress.stopped /\ progress'.next = progress.next
        /\ progress'.usages = progress.usages /\ progress'.seen = progress.seen /\ progress'.index = progress.index
        /\ progress'.after = progress.after
    BY <1>2, <2>1 DEF UsagesStates, UsagesSteps
  <2>3. ASSUME ~progress.cut PROVE UsagesPlace(progress', found, d, t)
    <3>1. AtPlace(progress', found, d, t) /\ ~progress'.stopped /\ progress'.next = None
      BY <1>4, <2>2, <2>3 DEF AtPlace
    <3>2. progress.routines = RoutinesReaching(d, t)
      BY <1>1, <1>2, <2>3 DEF UsagesPlace
    <3>3. progress'.index <= Len(NamesFor(d, t))
      BY <1>3, <1>5, <2>2, <2>3 DEF names
    <3> QED
      BY <2>2, <3>1, <3>2, <3>3 DEF UsagesPlace
  <2> QED
    BY <1>1, <2>2, <2>3, UsagesGoOn DEF d, t, found, RoomLeft
<1>6. CASE ~(progress.index <= Len(Names) /\ progress.examined < WorkCap /\ ~progress.late)
  <2> DEFINE next == IF progress.index <= Len(Names) THEN <<progress.index, progress.after>> ELSE None
  <2>1. progress' = [progress EXCEPT !.pc = "usages.answer", !.next = next]
    BY <1>6 DEF NextName
  <2>2. progress.index \in Nat \ {0} /\ progress.after \in Nat
    BY <1>2 DEF UsagesStates
  <2>3. next \in {None} \cup ((Nat \ {0}) \X Nat) /\ <<progress.index, progress.after>> # None
    BY <2>2, ContinuationAssumption
  <2>4. (progress.index <= Len(Names) => next = <<progress.index, progress.after>>)
        /\ (~(progress.index <= Len(Names)) => next = None)
    OBVIOUS
  <2> HIDE DEF next
  <2>5. /\ progress' \in UsagesStates(progress') /\ progress'.pc = "usages.answer" /\ progress'.next = next
        /\ progress'.cut = progress.cut /\ progress'.routines = progress.routines
        /\ progress'.stopped = progress.stopped
        /\ progress'.usages = progress.usages /\ progress'.seen = progress.seen /\ progress'.index = progress.index
        /\ progress'.after = progress.after
    BY <1>2, <2>1, <2>3 DEF UsagesStates, UsagesSteps
  <2>6. ASSUME ~progress.cut PROVE UsagesPlace(progress', found, d, t)
    <3>1. AtPlace(progress', found, d, t)
      BY <1>4, <2>5, <2>6 DEF AtPlace
    <3>2. progress.routines = RoutinesReaching(d, t)
      BY <1>1, <1>2, <2>6 DEF UsagesPlace
    <3>3. NextIs(progress', d, t)
      <4>1. CASE progress.index <= Len(Names)
        BY <2>3, <2>4, <2>5, <4>1 DEF NextIs
      <4>2. CASE ~(progress.index <= Len(Names))
        <5>1. \A m \in 1 .. Len(names) : m < progress.index
          BY <1>3, <2>2, <2>6, <4>2
        <5>2. AllTold(d, t, progress.index, progress.after)
          BY <5>1 DEF AllTold, Told, names
        <5> QED
          BY <2>4, <2>5, <4>2, <5>2 DEF NextIs
      <4> QED
        BY <4>1, <4>2
    <3> QED
      BY <2>5, <3>1, <3>2, <3>3 DEF UsagesPlace
  <2> QED
    BY <1>1, <2>5, <2>6, UsagesGoOn DEF d, t, found, RoomLeft
<1> QED
  BY <1>5, <1>6

(* A page of postings is read.                                               *)
LEMMA PostingsAreRead == UsagesInv /\ ReadPostings => UsagesInv'
<1> SUFFICES ASSUME UsagesInv, ReadPostings PROVE UsagesInv'
  OBVIOUS
<1> DEFINE d == request.served
           t == request.target
           found == request.found
           p == progress
           room == WorkCap - p.examined
           limit == IF PageSize < room THEN PageSize ELSE room
           name == Names[p.index]
           page == ReverseIntents(AppOf[d], name, p.after, limit)
<1>1. p.pc = "usages.postings" /\ p.pc # "idle" /\ request' = request
  BY DEF ReadPostings
<1>2. /\ p \in UsagesStates(p) /\ p \in PageStates(p) /\ d \in Deployments /\ RoomLeft(p)
      /\ found \in Seq(IntentKeys)
      /\ ~p.cut => UsagesPlace(p, found, d, t)
  BY <1>1, UsagesAtHand
<1>3. p.index \in Nat \ {0} /\ p.after \in Nat /\ p.examined \in Nat
  BY <1>2 DEF UsagesStates
<1>4. limit \in Nat
  BY <1>1, <1>2, <1>3, CatalogsAssumption DEF RoomLeft
<1>5. progress' = Read(p, page)
  BY DEF ReadPostings, App
<1> HIDE DEF limit, name
<1>6. PICK rows : IsPostings(rows, d, name, p.after) /\ BeginsWith(rows, page, d)
  BY <1>2, <1>4, PostingsAre
<1> HIDE DEF page
<1>7. /\ Read(p, page) \in UsagesStates(Read(p, page))
      /\ Read(p, page).pc = "usages.turn" /\ Read(p, page).cut = p.cut
  BY <1>2, <1>3, <1>6, ReadIsTyped
<1>8. ASSUME ~p.cut PROVE UsagesPlace(Read(p, page), found, d, t)
  <2>1. UsagesPlace(p, found, d, t)
    BY <1>2, <1>8
  <2>2. /\ p.index <= Len(NamesFor(d, t)) /\ AtPlace(p, found, d, t) /\ ~p.stopped /\ p.next = None
        /\ p.routines = RoutinesReaching(d, t)
    BY <1>1, <2>1 DEF UsagesPlace
  <2>3. Names = NamesFor(d, t) /\ Len(NamesFor(d, t)) \in Nat
    BY <1>2, <2>2, NamesListed DEF Names, NamesFor, Db
  <2>4. p.index \in 1 .. Len(NamesFor(d, t))
    BY <1>3, <2>2, <2>3
  <2>5. IsPostings(rows, d, NamesFor(d, t)[p.index], p.after)
    BY <1>6, <2>3 DEF name
  <2>6. CountedTo(p, 0, <<>>, p, found, d, t)
    BY <2>2 DEF CountedTo
  <2>7. request.served = d /\ request.target = t
    OBVIOUS
  <2> HIDE DEF d, t, found, p
  <2> QED
    BY <1>2, <1>3, <1>6, <2>2, <2>3, <2>4, <2>5, <2>6, <2>7, PageCounted
<1>9. progress' \in UsagesStates(progress') /\ progress'.pc = "usages.turn" /\ progress'.cut = p.cut
  BY <1>5, <1>7
<1>10. ~progress'.cut => UsagesPlace(progress', found, d, t)
  BY <1>5, <1>8, <1>9
<1> QED
  BY <1>1, <1>9, <1>10, UsagesGoOn DEF RoomLeft

(* The inner loop goes on, or the name is done, or the work is.              *)
LEMMA NamesEnd == UsagesInv /\ EndPostings => UsagesInv'
<1> SUFFICES ASSUME UsagesInv, EndPostings PROVE UsagesInv'
  OBVIOUS
<1> DEFINE d == request.served
           t == request.target
           found == request.found
           p == progress
           names == NamesFor(d, t)
           spent == p.examined >= WorkCap \/ p.late
<1>1. p.pc = "usages.turn" /\ p.pc # "idle" /\ request' = request
  BY DEF EndPostings
<1>2. /\ p \in UsagesStates(p) /\ d \in Deployments
      /\ ~p.cut => UsagesPlace(p, found, d, t)
  BY <1>1, UsagesAtHand
<1>3. p.index \in Nat \ {0} /\ p.after \in Nat /\ p.examined \in Nat /\ p.cut \in BOOLEAN
  BY <1>2 DEF UsagesStates
<1>4. ASSUME ~p.cut
      PROVE  /\ AtPlace(p, found, d, t) /\ p.routines = RoutinesReaching(d, t) /\ p.index <= Len(names)
             /\ ~p.stopped => p.next = None
             /\ p.stopped => NextIs(p, d, t)
             /\ ~p.more /\ ~p.stopped => NameRead(p, d, t)
  BY <1>1, <1>2, <1>4 DEF UsagesPlace
<1>5. CASE p.stopped
  <2>1. progress' = [p EXCEPT !.pc = "usages.answer"]
    BY <1>5 DEF EndPostings
  <2>2. /\ progress' \in UsagesStates(progress') /\ progress'.pc = "usages.answer" /\ progress'.next = p.next
        /\ progress'.cut = p.cut /\ progress'.routines = p.routines /\ progress'.stopped = p.stopped
        /\ progress'.usages = p.usages /\ progress'.seen = p.seen /\ progress'.index = p.index /\ progress'.after = p.after
    BY <1>2, <2>1 DEF UsagesStates, UsagesSteps
  <2>3. ASSUME ~p.cut PROVE UsagesPlace(progress', found, d, t)
    <3>1. AtPlace(progress', found, d, t) /\ NextIs(progress', d, t)
      BY <1>4, <1>5, <2>2, <2>3 DEF AtPlace, NextIs
    <3> QED
      BY <1>4, <2>2, <2>3, <3>1 DEF UsagesPlace
  <2> QED
    BY <1>1, <2>2, <2>3, UsagesGoOn DEF RoomLeft
<1>6. CASE ~p.stopped /\ p.more /\ ~spent
  <2>1. progress' = [p EXCEPT !.pc = "usages.postings"]
    BY <1>6 DEF EndPostings
  <2>2. /\ progress' \in UsagesStates(progress') /\ progress'.pc = "usages.postings" /\ progress'.next = p.next
        /\ progress'.cut = p.cut /\ progress'.routines = p.routines /\ progress'.stopped = p.stopped
        /\ progress'.usages = p.usages /\ progress'.seen = p.seen /\ progress'.index = p.index /\ progress'.after = p.after
        /\ progress'.examined = p.examined
    BY <1>2, <2>1 DEF UsagesStates, UsagesSteps
  <2>3. ASSUME ~p.cut PROVE UsagesPlace(progress', found, d, t)
    <3>1. AtPlace(progress', found, d, t)
      BY <1>4, <2>2, <2>3 DEF AtPlace
    <3> QED
      BY <1>4, <1>6, <2>2, <2>3, <3>1 DEF UsagesPlace
  <2>4. RoomLeft(progress')
    BY <1>3, <1>6, <2>2, CatalogsAssumption DEF RoomLeft
  <2> QED
    BY <1>1, <2>2, <2>3, <2>4, UsagesGoOn
<1>7. CASE ~p.stopped /\ spent
  <2> DEFINE next == <<p.index, p.after>>
  <2>1. progress' = [p EXCEPT !.pc = "usages.answer", !.next = next]
    BY <1>7 DEF EndPostings
  <2>2. next \in {None} \cup ((Nat \ {0}) \X Nat) /\ next # None
    BY <1>3, ContinuationAssumption
  <2> HIDE DEF next
  <2>3. /\ progress' \in UsagesStates(progress') /\ progress'.pc = "usages.answer" /\ progress'.next = next
        /\ progress'.cut = p.cut /\ progress'.routines = p.routines /\ progress'.stopped = p.stopped
        /\ progress'.usages = p.usages /\ progress'.seen = p.seen /\ progress'.index = p.index /\ progress'.after = p.after
    BY <1>2, <2>1, <2>2 DEF UsagesStates, UsagesSteps
  <2>4. ASSUME ~p.cut PROVE UsagesPlace(progress', found, d, t)
    <3>1. AtPlace(progress', found, d, t)
      BY <1>4, <2>3, <2>4 DEF AtPlace
    <3>2. NextIs(progress', d, t)
      BY <2>3, <2>2 DEF NextIs, next
    <3> QED
      BY <1>4, <2>3, <2>4, <3>1, <3>2 DEF UsagesPlace
  <2> QED
    BY <1>1, <2>3, <2>4, UsagesGoOn DEF RoomLeft
<1>8. CASE ~p.stopped /\ ~p.more /\ ~spent
  <2> DEFINE index == p.index + 1
  <2>1. progress' = [p EXCEPT !.pc = "usages.names", !.index = index, !.after = 0]
    BY <1>8 DEF EndPostings
  <2>2. index \in Nat \ {0}
    BY <1>3
  <2> HIDE DEF index
  <2>3. /\ progress' \in UsagesStates(progress') /\ progress'.pc = "usages.names" /\ progress'.next = p.next
        /\ progress'.cut = p.cut /\ progress'.routines = p.routines /\ progress'.stopped = p.stopped
        /\ progress'.usages = p.usages /\ progress'.seen = p.seen /\ progress'.index = index /\ progress'.after = 0
    BY <1>2, <2>1, <2>2 DEF UsagesStates, UsagesSteps
  <2>4. ASSUME ~p.cut PROVE UsagesPlace(progress', found, d, t)
    <3>1. NameRead(p, d, t) /\ Len(names) \in Nat
      BY <1>2, <1>4, <1>8, <2>4, NamesListed DEF NamesFor
    <3>2. \A i \in Intents(d) : i.at \in Nat \ {0}
      BY <1>2, IntentsAre
    <3>3. Told(d, t, index, 0) = Told(d, t, p.index, p.after)
      <4>1. \A m \in 1 .. Len(names) : m < index <=> m < p.index \/ m = p.index
        BY <1>3, <3>1 DEF index
      <4>2. ASSUME NEW i \in Intents(d), NEW m \in 1 .. Len(names), ~i.dynamic, i.name = names[m]
            PROVE  (m < index \/ (m = index /\ i.at <= 0)) <=> (m < p.index \/ (m = p.index /\ i.at <= p.after))
        <5>1. ~(i.at <= 0)
          BY <3>2
        <5>2. m = p.index => i.at <= p.after
          BY <3>1, <4>2 DEF NameRead
        <5> QED
          BY <4>1, <5>1, <5>2
      <4> HIDE DEF d, t, p
      <4> QED
        BY <4>2 DEF Told
    <3>4. AtPlace(progress', found, d, t)
      BY <1>4, <2>3, <2>4, <3>3 DEF AtPlace, Listed
    <3> QED
      BY <1>4, <1>8, <2>3, <2>4, <3>4 DEF UsagesPlace
  <2> QED
    BY <1>1, <2>3, <2>4, UsagesGoOn DEF RoomLeft
<1> QED
  BY <1>5, <1>6, <1>7, <1>8

-----------------------------------------------------------------------------
(* The answer: a continuation is good wherever it is bound to, and without
   one everything was told.                                                  *)
LEMMA UsagesAreReported == UsagesInv /\ ReportUsages => UsagesInv'
<1> SUFFICES ASSUME UsagesInv, ReportUsages PROVE UsagesInv'
  OBVIOUS
<1> DEFINE d == request.served
           t == request.target
           p == progress
           found == request.found \o p.usages
           cursor == Continuation
           status == IF p.cut THEN "incomplete" ELSE IF cursor = None THEN "complete" ELSE "more"
<1>1. p.pc = "usages.answer" /\ p.pc # "idle"
  BY DEF ReportUsages
<1>2. /\ p \in UsagesStates(p) /\ d \in Deployments /\ t \in Targets /\ request \in UsagesRequests(request)
      /\ request.found \in Seq(IntentKeys)
      /\ ~p.cut => UsagesPlace(p, request.found, d, t)
  BY <1>1, UsagesAtHand
<1>3. /\ p.index \in Nat \ {0} /\ p.after \in Nat /\ p.cut \in BOOLEAN /\ p.usages \in Seq(IntentKeys)
  BY <1>2 DEF UsagesStates
<1>4. CASE Answer("result_too_large")
  <2>1. "result_too_large" \in Statuses \ {"complete"}
    BY DEF Statuses
  <2> QED
    BY <1>4, <2>1, UsagesAnswered
<1>5. CASE ~Answer("result_too_large")
  <2>1. progress' = Idle /\ request' = [request EXCEPT !.found = @ \o p.usages, !.cursor = cursor, !.status = status]
    BY <1>5 DEF ReportUsages
  <2>2. request' = [request EXCEPT !.found = found, !.cursor = cursor, !.status = status]
    BY <2>1
  <2>3. found \in Seq(IntentKeys) /\ status \in Statuses
    <3> HIDE DEF cursor
    <3> QED
      BY <1>2, <1>3 DEF Statuses
  <2>4. ~p.cut => Listed(found, d, t, p.index, p.after) /\ NextIs(p, d, t)
    BY <1>1, <1>2 DEF UsagesPlace, AtPlace
  <2>5. cursor # None =>
          /\ ~p.cut /\ p.next # None
          /\ cursor = Cursor(d, t, p.next[1], p.next[2])
    BY DEF Continuation
  <2>6. ~p.cut /\ p.next # None => cursor # None
    <3> SUFFICES ASSUME ~p.cut, p.next # None PROVE cursor # None
      OBVIOUS
    <3>1. p.next = <<p.index, p.after>>
      BY <2>4 DEF NextIs
    <3>2. cursor = Cursor(d, t, p.index, p.after)
      BY <3>1 DEF Continuation
    <3>3. Cursor(d, t, p.index, p.after) \in
            [binding : {Binding(e, u) : e \in Deployments, u \in Targets}, name : Nat, after : Nat]
      BY <1>2, <1>3 DEF Cursor
    <3> HIDE DEF cursor, d, t, p
    <3> QED
      BY <3>2, <3>3, ContinuationAssumption
  <2> HIDE DEF found, cursor
  <2>7. /\ request' \in UsagesRequests(request') /\ request'.found = found /\ request'.cursor = cursor
        /\ request'.status = status /\ request'.served = d /\ request'.target = t
    <3> HIDE DEF status
    <3> QED
      BY <1>2, <2>2, <2>3 DEF UsagesRequests
  <2>8. cursor # None => \E e \in Deployments, u \in Targets, name \in Nat \ {0}, after \in Nat :
                           cursor = Cursor(e, u, name, after) /\ Listed(found, e, u, name, after)
    <3> SUFFICES ASSUME cursor # None
                 PROVE  \E e \in Deployments, u \in Targets, name \in Nat \ {0}, after \in Nat :
                          cursor = Cursor(e, u, name, after) /\ Listed(found, e, u, name, after)
      OBVIOUS
    <3>1. p.next = <<p.index, p.after>> /\ cursor = Cursor(d, t, p.next[1], p.next[2])
      BY <2>4, <2>5 DEF NextIs
    <3>2. cursor = Cursor(d, t, p.index, p.after) /\ Listed(found, d, t, p.index, p.after)
      BY <2>4, <2>5, <3>1
    <3> HIDE DEF d, t, p
    <3> QED
      BY <1>2, <1>3, <3>2
  <2>9. ASSUME status = "complete"
        PROVE  IsInjective(found) /\ ToSet(found) = UsagesOf(d, t)
    <3>1. ~p.cut /\ cursor = None
      BY <2>9
    <3>2. p.next = None
      BY <2>6, <3>1
    <3>3. AllTold(d, t, p.index, p.after) /\ Listed(found, d, t, p.index, p.after)
      BY <2>4, <3>1, <3>2 DEF NextIs
    <3> HIDE DEF d, t, p
    <3> QED
      BY <1>2, <3>3, UsagesWereTold DEF Listed
  <2>10. ClientInv'
    BY <2>7, <2>8, <2>9 DEF ClientInv
  <2>11. UsagesTypeOK' /\ WalkOfUsages' /\ PlaceOfUsages'
    BY <2>1, <2>7 DEF UsagesTypeOK, WalkOfUsages, PlaceOfUsages, Idle
  <2> QED
    BY <2>10, <2>11 DEF UsagesInv
<1> QED
  BY <1>4, <1>5

(* The ten seconds pass.                                                     *)
LEMMA UsagesTimePasses == UsagesInv /\ UsagesExpire => UsagesInv'
<1> SUFFICES ASSUME UsagesInv, UsagesExpire PROVE UsagesInv'
  OBVIOUS
<1> DEFINE d == request.served
           t == request.target
           found == request.found
           p == progress
<1>1. p.pc \in UsagesSteps /\ p.pc # "idle" /\ request' = request /\ progress' = [p EXCEPT !.late = TRUE]
  BY DEF UsagesExpire, Expire, UsagesSteps
<1>2. p \in UsagesStates(p) /\ RoomLeft(p) /\ (~p.cut => UsagesPlace(p, found, d, t))
  BY <1>1, UsagesAtHand
<1>3. /\ progress' \in UsagesStates(progress') /\ progress'.pc = p.pc /\ progress'.next = p.next
      /\ progress'.cut = p.cut /\ progress'.routines = p.routines /\ progress'.stopped = p.stopped /\ progress'.more = p.more
      /\ progress'.usages = p.usages /\ progress'.seen = p.seen /\ progress'.index = p.index /\ progress'.after = p.after
      /\ progress'.examined = p.examined /\ progress'.queue = p.queue /\ progress'.visited = p.visited
  BY <1>1, <1>2 DEF UsagesStates
<1>4. RoomLeft(progress')
  BY <1>2, <1>3 DEF RoomLeft
<1>5. ASSUME ~p.cut PROVE UsagesPlace(progress', found, d, t)
  BY <1>2, <1>3, <1>5 DEF UsagesPlace, AtPlace, NextIs, NameRead
<1>6. ASSUME p.pc = "usages.walk", ~p.cut PROVE WalkedFrom(progress', d, t)
  <2>1. WalkedFrom(p, d, t)
    BY <1>6 DEF UsagesInv, WalkOfUsages
  <2> DEFINE u == progress'
  <2>2. u.queue = p.queue /\ u.visited = p.visited /\ u.routines = p.routines
    BY <1>3
  <2> HIDE DEF u, p, d, t
  <2>3. \A k : Expanded(p, d, k) => Expanded(u, d, k)
    BY <2>2 DEF Expanded
  <2>4. WalkedFrom(u, d, t)
    BY <2>1, <2>2, <2>3 DEF WalkedFrom
  <2> QED
    BY <2>4 DEF u
<1> QED
  BY <1>1, <1>3, <1>4, <1>5, <1>6, UsagesGoOn

LEMMA UsagesStep == UsagesInv /\ [UsagesNext]_vars => UsagesInv'
<1> SUFFICES ASSUME UsagesInv, [UsagesNext]_vars PROVE UsagesInv'
  OBVIOUS
<1>1. ASSUME NEW limit \in Limits, AskUsages(limit) PROVE UsagesInv'
  BY <1>1, UsagesAreAsked
<1>2. CASE WalkIncoming
  BY <1>2, UsagesWalkOn
<1>3. CASE NextName
  BY <1>3, NamesAreTakenInTurn
<1>4. CASE ReadPostings
  BY <1>4, PostingsAreRead
<1>5. CASE EndPostings
  BY <1>5, NamesEnd
<1>6. CASE ReportUsages
  BY <1>6, UsagesAreReported
<1>7. CASE UsagesExpire
  BY <1>7, UsagesTimePasses
<1>8. CASE UsagesDeadline
  <2>1. Answer("deadline_exceeded") /\ "deadline_exceeded" \in Statuses \ {"complete"}
    BY <1>8 DEF UsagesDeadline, Deadline, Statuses
  <2> QED
    BY <2>1, UsagesAnswered
<1>9. CASE Restart
  BY <1>9, ServerRestarts
<1>10. ASSUME NEW target \in Targets, NEW cursor, cursor \in {None, request.cursor}, ChangeQuestion(target, cursor)
       PROVE  UsagesInv'
  BY <1>10, QuestionChanges
<1>11. CASE UNCHANGED vars
  BY <1>11 DEF vars, UsagesInv, UsagesTypeOK, RoomLeft, ClientInv, WalkOfUsages, PlaceOfUsages
<1> QED
  BY <1>1, <1>2, <1>3, <1>4, <1>5, <1>6, <1>7, <1>8, <1>9, <1>10, <1>11 DEF UsagesNext

(* A client that follows the continuations of find_application_database_usages
   to the end has been told every usage of the target exactly once, wherever
   limits, the work limit and deadlines cut the pages and whatever the server
   was restarted with in between (federation.py:466-583): every continuation
   it may hold stands for the postings told so far, in every deployment the
   continuation is good for.                                                 *)
THEOREM UsagesOnce == UsagesSpec => []UsagesExactlyOnce
<1>1. UsagesInv => UsagesExactlyOnce
  BY DEF UsagesInv, ClientInv, UsagesExactlyOnce
<1> QED
  BY <1>1, UsagesBegin, UsagesStep, PTL DEF UsagesSpec

-----------------------------------------------------------------------------
(***************************************************************************)
(* FederatedTrace.  What has been read behind a question is all there is,  *)
(* or still to come, unless something was cut, and everything that was     *)
(* read is behind the question.                                            *)
(***************************************************************************)
(* What a piece of evidence resolves to, and where a search begins then.     *)
ResolvedIn(d, i) == Resolve(i, ContextOf[d], AppOf[d], DbOf[d])
RoutineOf(d, i) == ResolvedIn(d, i).candidates[1].key
ExactIn(d, i) == ResolvedIn(d, i).status = "exact"
CrossesIn(d, i) == ExactIn(d, i) /\ ResolvedIn(d, i).graph = "db"

(* Chains of calls from the entry.                                          *)
CallsOf(d) == ToSet(AppOf[d].calls)
CalledFrom(d, q) == {q.entry} \cup {c.target : c \in CallsOf(d)}
Calling(d, a, b) == \E c \in CallsOf(d) : c.source = a /\ c.target = b
EndOf(q, chain) == IF chain = <<>> THEN q.entry ELSE chain[Len(chain)]
ChainOf(d, q, chain) ==
  /\ chain \in Seq(CalledFrom(d, q))
  /\ \A n \in 1 .. Len(chain) : Calling(d, IF n = 1 THEN q.entry ELSE chain[n - 1], chain[n])

(* Walks along the edges of the database, of which none comes twice to a node. *)
EdgesOf(d) == ToSet(DbOf[d].edges)
KeysOfDb(d) == {RoutineOf(d, i) : i \in {j \in Intents(d) : ExactIn(d, j)}} \cup {e.target : e \in EdgesOf(d)}
Hop(d, a, b) == \E e \in EdgesOf(d) : e.source = a /\ e.exact /\ EdgeAllowed(DbOf[d], e) /\ e.target = b
Walk(d, start, path) ==
  /\ path \in Seq(KeysOfDb(d)) /\ path # <<>> /\ path[1] = start
  /\ \A n \in 1 .. Len(path) - 1 : Hop(d, path[n], path[n + 1])
  /\ IsInjective(path)
Avoids(path, target) == \A n \in 1 .. Len(path) - 1 : path[n] # target
WalksTo(d, start, target) ==
  {path \in Seq(KeysOfDb(d)) : Walk(d, start, path) /\ path[Len(path)] = target /\ Avoids(path, target)}

(* The evidence behind a question, and the paths from it.                    *)
AskedIn(d, q, i) ==
  IF q.evidence # None THEN i.key = q.evidence
  ELSE IF q.path # None THEN i.path = q.path
  ELSE i.owner \in Callable(AppOf[d], q.entry) /\ i.owner \in AppOf[d].owners
BodiesIn(d, i) == {b \in Intents(d) : b.owner = RoutineOf(d, i)}
CrossingIn(d, q, i, key, b) ==
  IF ~CrossesIn(d, b) THEN {}
  ELSE {[evidence |-> i.key, body |-> key, nodes |-> path] : path \in WalksTo(d, RoutineOf(d, b), q.target)}
FromIn(d, q, i) ==
  IF ~ExactIn(d, i) THEN {}
  ELSE IF q.target = None THEN {[evidence |-> i.key, body |-> None, nodes |-> <<RoutineOf(d, i)>>]}
  ELSE IF CrossesIn(d, i) THEN CrossingIn(d, q, i, None, i)
  ELSE UNION {CrossingIn(d, q, i, b.key, b) : b \in BodiesIn(d, i)}
AllIn(d, q) == UNION {FromIn(d, q, i) : i \in {j \in Intents(d) : AskedIn(d, q, j)}}

(* What was reached, what was followed, and what is reported.                *)
TraceNodes(d, q) ==
  {x \in [key : Callable(AppOf[d], q.entry), chain : Seq(CalledFrom(d, q))] :
     ChainOf(d, q, x.chain) /\ x.key = EndOf(q, x.chain)}
TraceOwners(d, q) == {x \in TraceNodes(d, q) : x.key \in AppOf[d].owners}
Leading(d, q, i, chain) ==
  /\ AskedIn(d, q, i) /\ ChainOf(d, q, chain)
  /\ IF q.entry = None THEN chain = <<>> ELSE i.owner = EndOf(q, chain)
Leads(d, q) == {x \in [of : Intents(d), chain : Seq(CalledFrom(d, q))] : Leading(d, q, x.of, x.chain)}
Weight(q, path) == Len(path.chain) + Entry(q) + (IF path.body = None THEN 1 ELSE 3) + Len(path.nodes) - 1
Brief(path) == [evidence |-> path.evidence, body |-> path.body, nodes |-> path.nodes]
Briefs(paths) == {Brief(paths[n]) : n \in DOMAIN paths}
GoodPath(d, q, path) ==
  /\ Brief(path) \in AllIn(d, q)
  /\ \E i \in Intents(d) : path.evidence = i.key /\ Leading(d, q, i, path.chain)
  /\ q.target # None => Weight(q, path) <= q.depth
KeysIn(d) == {None} \cup {i.key : i \in Intents(d)}
GoodPaths(d, q) ==
  {path \in [chain : Seq(CalledFrom(d, q)), evidence : KeysIn(d), body : KeysIn(d), nodes : Seq(KeysOfDb(d))] :
     GoodPath(d, q, path)}

TraceStates(p) ==
  [pc : TraceSteps \cup {"trace.answer"}, late : BOOLEAN, cut : BOOLEAN, visited : Nat, edges : Nat, queue : {p.queue},
   seen : {p.seen}, owners : {p.owners}, intents : {p.intents}, n : Nat \ {0}, bodies : {p.bodies}, body : {p.body},
   depth : {p.depth}, found : {p.found}, paths : {p.paths}]
TraceRequests(r) ==
  [tool : {"trace"}, served : Deployments, question : Questions,
   status : {"new", "context_required", "invalid_reference", "not_found", "deadline_exceeded", "ok", "unresolved"},
   paths : {r.paths}, truncated : BOOLEAN]

(* The walk along the calls: what was seen is waiting, or its calls were seen
   and it was listed if it owns evidence.                                    *)
InQueue(queue, k) == \E n \in DOMAIN queue : queue[n].key = k
CallsSeen(d, seen, k) == \A c \in CallsOf(d) : c.source = k => c.target \in seen
ListedOwner(d, owners, k) == k \in AppOf[d].owners => InQueue(owners, k)
AtReach(d, q, p) ==
  /\ q.entry # None /\ q.entry \in p.seen /\ p.seen \subseteq Callable(AppOf[d], q.entry)
  /\ p.queue \in Seq(TraceNodes(d, q)) /\ p.owners \in Seq(TraceOwners(d, q))
  /\ ~p.cut => \A k \in p.seen : InQueue(p.queue, k) \/ (CallsSeen(d, p.seen, k) /\ ListedOwner(d, p.owners, k))

(* The evidence of the owners: it is held, or its owner is still to come.    *)
Held(p, i) == \E n \in DOMAIN p.intents : p.intents[n].of = i
AtOwned(d, q, p) ==
  /\ q.entry # None /\ p.owners \in Seq(TraceOwners(d, q))
  /\ ~p.cut => \A i \in Intents(d) : AskedIn(d, q, i) => Held(p, i) \/ InQueue(p.owners, i.owner)
Gathered(d, q, p) == ~p.cut => \A i \in Intents(d) : AskedIn(d, q, i) => Held(p, i)

(* What was followed is reported; of the evidence that is followed now, what
   is not reported is among the bodies or in the search.                     *)
Followed(d, q, p, m) == ~p.cut => \A k \in 1 .. m : FromIn(d, q, p.intents[k].of) \subseteq Briefs(p.paths)
Lead(p) == p.intents[p.n - 1]
AtBodies(d, q, p, body) ==
  /\ p.n >= 2 /\ q.target # None /\ ExactIn(d, Lead(p).of) /\ ~CrossesIn(d, Lead(p).of)
  /\ p.bodies \in Seq(BodiesIn(d, Lead(p).of))
  /\ ~p.cut => \A b \in BodiesIn(d, Lead(p).of) :
       b \in ToSet(p.bodies) \/ b = body \/ CrossingIn(d, q, Lead(p).of, b.key, b) \subseteq Briefs(p.paths)
Searched(p) == IF p.body = None THEN Lead(p).of ELSE p.body
UsedBy(q, p) == Len(Lead(p).chain) + Entry(q) + (IF p.body = None THEN 1 ELSE 3)
Partials(d, start, target, depth) ==
  {path \in Seq(KeysOfDb(d)) : Walk(d, start, path) /\ Len(path) - 1 <= depth /\ Avoids(path, target)}
Begins(path, w) == Len(path) <= Len(w) /\ \A n \in 1 .. Len(path) : path[n] = w[n]
Searching(d, start, target, p) ==
  /\ p.queue \in Seq(Partials(d, start, target, p.depth))
  /\ p.found \in Seq({w \in WalksTo(d, start, target) : Len(w) - 1 <= p.depth})
  /\ ~p.cut => \A w \in WalksTo(d, start, target) :
       w \in ToSet(p.found) \/ \E n \in DOMAIN p.queue : Begins(p.queue[n], w)
AtSearch(d, q, p) ==
  /\ p.n >= 2 /\ q.target # None /\ CrossesIn(d, Searched(p))
  /\ p.body # None => p.body \in BodiesIn(d, Lead(p).of) /\ AtBodies(d, q, p, p.body)
  /\ p.depth = q.depth - UsedBy(q, p) /\ p.depth \in Nat
  /\ Searching(d, RoutineOf(d, Searched(p)), q.target, p)

OneGiven(q) ==
  /\ q.entry # None => q.evidence = None /\ q.path = None
  /\ q.evidence # None \/ q.path # None \/ q.entry # None
TracePlace(d, q, p) ==
  /\ OneGiven(q)
  /\ p.intents \in Seq(Leads(d, q)) /\ p.paths \in Seq(GoodPaths(d, q)) /\ p.n <= Len(p.intents) + 1
  /\ p.pc \in {"trace.reach", "trace.owned", "trace.target"} => p.n = 1
  /\ p.pc = "trace.reach" => AtReach(d, q, p) /\ p.intents = <<>>
  /\ p.pc = "trace.owned" => AtOwned(d, q, p)
  /\ p.pc \in {"trace.target", "trace.intents", "trace.bodies", "trace.search"} => Gathered(d, q, p)
  /\ p.pc = "trace.intents" => Followed(d, q, p, p.n - 1)
  /\ p.pc \in {"trace.bodies", "trace.search"} => Followed(d, q, p, p.n - 2)
  /\ p.pc = "trace.bodies" => AtBodies(d, q, p, None)
  /\ p.pc = "trace.search" => AtSearch(d, q, p)
  /\ p.pc = "trace.answer" /\ ~p.cut /\ Len(p.paths) < q.limit => AllIn(d, q) \subseteq Briefs(p.paths)
TraceAnswers(d, q, r) ==
  r.status \in {"ok", "unresolved"} =>
    /\ r.paths \in Seq(GoodPaths(d, q))
    /\ ~r.truncated /\ Len(r.paths) < q.limit => AllIn(d, q) \subseteq Briefs(r.paths)
TraceInv ==
  /\ request \in TraceRequests(request) /\ TraceAnswers(request.served, request.question, request)
  /\ \/ progress = Idle
     \/ progress \in TraceStates(progress) /\ TracePlace(request.served, request.question, progress)

-----------------------------------------------------------------------------
(* A call more at the end of a chain, an edge more at the end of a walk.     *)
LEMMA ChainGrows ==
  ASSUME NEW d, NEW q, NEW chain, ChainOf(d, q, chain), NEW c \in CallsOf(d), c.source = EndOf(q, chain)
  PROVE  ChainOf(d, q, Append(chain, c.target)) /\ EndOf(q, Append(chain, c.target)) = c.target
<1> DEFINE longer == Append(chain, c.target)
<1>1. chain \in Seq(CalledFrom(d, q)) /\ c.target \in CalledFrom(d, q) /\ Len(chain) \in Nat
  BY DEF ChainOf, CalledFrom
<1>2. /\ longer \in Seq(CalledFrom(d, q)) /\ Len(longer) = Len(chain) + 1 /\ longer[Len(chain) + 1] = c.target
      /\ longer # <<>> /\ \A n \in 1 .. Len(chain) : longer[n] = chain[n]
  BY <1>1
<1>3. Calling(d, EndOf(q, chain), c.target)
  BY DEF Calling
<1>4. EndOf(q, chain) = IF Len(chain) + 1 = 1 THEN q.entry ELSE chain[Len(chain)]
  BY <1>1 DEF EndOf
<1> HIDE DEF longer
<1>5. ASSUME NEW n \in 1 .. Len(longer)
      PROVE  Calling(d, IF n = 1 THEN q.entry ELSE longer[n - 1], longer[n])
  <2>1. CASE n \in 1 .. Len(chain)
    <3>1. Calling(d, IF n = 1 THEN q.entry ELSE chain[n - 1], chain[n])
      BY <2>1 DEF ChainOf
    <3>2. longer[n] = chain[n] /\ (n # 1 => longer[n - 1] = chain[n - 1])
      BY <1>1, <1>2, <2>1
    <3> QED
      BY <3>1, <3>2
  <2>2. CASE n = Len(chain) + 1
    <3>1. longer[n] = c.target /\ (n # 1 => longer[n - 1] = chain[Len(chain)])
      BY <1>1, <1>2, <2>2
    <3>2. EndOf(q, chain) = IF n = 1 THEN q.entry ELSE longer[n - 1]
      BY <1>4, <2>2, <3>1
    <3> QED
      BY <1>3, <3>1, <3>2
  <2> QED
    BY <1>1, <1>2, <2>1, <2>2
<1>6. ChainOf(d, q, longer)
  BY <1>2, <1>5 DEF ChainOf
<1>7. EndOf(q, longer) = c.target
  BY <1>2 DEF EndOf
<1> QED
  BY <1>6, <1>7 DEF longer

LEMMA WalkGrows ==
  ASSUME NEW d, NEW start, NEW path, Walk(d, start, path), NEW e \in EdgesOf(d), e.source = path[Len(path)], e.exact,
         EdgeAllowed(DbOf[d], e), e.target \notin ToSet(path)
  PROVE  Walk(d, start, Append(path, e.target))
<1> DEFINE longer == Append(path, e.target)
<1>1. path \in Seq(KeysOfDb(d)) /\ path # <<>> /\ path[1] = start /\ e.target \in KeysOfDb(d) /\ Len(path) \in Nat \ {0}
  BY DEF Walk, KeysOfDb
<1>2. /\ longer \in Seq(KeysOfDb(d)) /\ Len(longer) = Len(path) + 1 /\ longer[Len(path) + 1] = e.target
      /\ longer # <<>> /\ \A n \in 1 .. Len(path) : longer[n] = path[n]
  BY <1>1
<1>3. \A n \in 1 .. Len(path) : path[n] \in ToSet(path)
  BY <1>1 DEF ToSet
<1> HIDE DEF longer
<1>4. ASSUME NEW n \in 1 .. Len(longer) - 1 PROVE Hop(d, longer[n], longer[n + 1])
  <2>1. CASE n \in 1 .. Len(path) - 1
    <3>1. Hop(d, path[n], path[n + 1])
      BY <2>1 DEF Walk
    <3>2. longer[n] = path[n] /\ longer[n + 1] = path[n + 1]
      BY <1>1, <1>2, <2>1
    <3> QED
      BY <3>1, <3>2
  <2>2. CASE n = Len(path)
    <3>1. longer[n] = path[Len(path)] /\ longer[n + 1] = e.target
      BY <1>1, <1>2, <2>2
    <3> QED
      BY <3>1 DEF Hop
  <2> QED
    BY <1>1, <1>2, <2>1, <2>2
<1>5. IsInjective(longer)
  <2>1. DOMAIN longer = 1 .. Len(path) + 1 /\ DOMAIN path = 1 .. Len(path)
    BY <1>1, <1>2
  <2>2. \A m, n \in 1 .. Len(path) : path[m] = path[n] => m = n
    BY <2>1 DEF Walk, IsInjective
  <2>3. \A m \in 1 .. Len(path) : longer[m] # e.target
    BY <1>2, <1>3
  <2>4. \A m, n \in 1 .. Len(path) + 1 : longer[m] = longer[n] => m = n
    BY <1>1, <1>2, <2>2, <2>3
  <2> QED
    BY <2>1, <2>4 DEF IsInjective
<1>6. longer[1] = start
  BY <1>1, <1>2
<1>7. Walk(d, start, longer)
  BY <1>2, <1>4, <1>5, <1>6 DEF Walk
<1> QED
  BY <1>7 DEF longer

(* The beginning of a sequence.                                              *)
LEMMA BeginningOf ==
  ASSUME NEW T, NEW s \in Seq(T), NEW m \in 0 .. Len(s)
  PROVE  SubSeq(s, 1, m) \in Seq(T) /\ Len(SubSeq(s, 1, m)) = m /\ \A n \in 1 .. m : SubSeq(s, 1, m)[n] = s[n]
<1>1. Len(s) \in Nat /\ m \in Nat /\ m <= Len(s)
  OBVIOUS
<1>2. \A n \in 1 .. m : s[n] \in T
  BY <1>1
<1>3. 1 \in Int /\ m \in Int
  BY <1>1
<1>4. /\ SubSeq(s, 1, m) \in Seq(T) /\ Len(SubSeq(s, 1, m)) = (IF 1 <= m THEN m - 1 + 1 ELSE 0)
      /\ \A n \in 1 .. m - 1 + 1 : SubSeq(s, 1, m)[n] = s[1 + n - 1]
  BY <1>2, <1>3, SubSeqProperties
<1>5. \A n \in 1 .. m : n \in 1 .. m - 1 + 1 /\ 1 + n - 1 = n
  BY <1>1
<1>6. Len(SubSeq(s, 1, m)) = m
  BY <1>1, <1>4
<1>7. \A n \in 1 .. m : SubSeq(s, 1, m)[n] = s[n]
  <2> TAKE n \in 1 .. m
  <2>1. SubSeq(s, 1, m)[n] = s[1 + n - 1] /\ 1 + n - 1 = n
    BY <1>4, <1>5
  <2> QED
    BY <2>1
<1> QED
  BY <1>4, <1>6, <1>7

(* ... and the beginning of a walk is one.                                   *)
LEMMA WalkBegins ==
  ASSUME NEW d, NEW start, NEW path, Walk(d, start, path), NEW m \in 1 .. Len(path)
  PROVE  Walk(d, start, SubSeq(path, 1, m)) /\ Len(SubSeq(path, 1, m)) = m
         /\ \A n \in 1 .. m : SubSeq(path, 1, m)[n] = path[n]
<1> DEFINE short == SubSeq(path, 1, m)
<1>1. path \in Seq(KeysOfDb(d)) /\ path[1] = start /\ Len(path) \in Nat /\ m \in Nat \ {0} /\ m <= Len(path)
  BY DEF Walk
<1>2. short \in Seq(KeysOfDb(d)) /\ Len(short) = m /\ \A n \in 1 .. m : short[n] = path[n]
  <2>1. m \in 0 .. Len(path)
    BY <1>1
  <2> QED
    BY <1>1, <2>1, BeginningOf
<1> HIDE DEF short
<1>3. \A n \in 1 .. Len(short) - 1 : Hop(d, short[n], short[n + 1])
  <2> SUFFICES ASSUME NEW n \in 1 .. Len(short) - 1 PROVE Hop(d, short[n], short[n + 1])
    OBVIOUS
  <2>1. n \in 1 .. Len(path) - 1 /\ n \in 1 .. m /\ n + 1 \in 1 .. m
    BY <1>1, <1>2
  <2>2. Hop(d, path[n], path[n + 1])
    BY <2>1 DEF Walk
  <2> QED
    BY <1>2, <2>1, <2>2
<1>4. IsInjective(short)
  <2>1. DOMAIN short = 1 .. m /\ DOMAIN path = 1 .. Len(path)
    BY <1>1, <1>2
  <2>2. \A k, n \in 1 .. Len(path) : path[k] = path[n] => k = n
    BY <2>1 DEF Walk, IsInjective
  <2>3. \A k, n \in 1 .. m : short[k] = short[n] => k = n
    BY <1>1, <1>2, <2>2
  <2> QED
    BY <2>1, <2>3 DEF IsInjective
<1>5. short # <<>> /\ short[1] = start
  BY <1>1, <1>2
<1>6. Walk(d, start, short)
  BY <1>2, <1>3, <1>4, <1>5 DEF Walk
<1> QED
  BY <1>2, <1>6 DEF short

(* Counting: a walk has at most as many steps as there are edges.            *)
LEMMA TargetsCounted ==
  ASSUME NEW T, NEW rows \in Seq(T)
  PROVE  LET targets == {r.target : r \in ToSet(rows)}
         IN  IsFiniteSet(targets) /\ Cardinality(targets) \in Nat /\ Cardinality(targets) <= Len(rows)
<1> DEFINE targets == {r.target : r \in ToSet(rows)}
           f == [n \in 1 .. Len(rows) |-> rows[n].target]
<1>1. Len(rows) \in Nat /\ IsFiniteSet(1 .. Len(rows)) /\ Cardinality(1 .. Len(rows)) = Len(rows)
  <2>1. Len(rows) \in Nat /\ Len(rows) \in Int /\ 1 \in Int
    OBVIOUS
  <2>2. IsFiniteSet(1 .. Len(rows)) /\ Cardinality(1 .. Len(rows)) = IF 1 > Len(rows) THEN 0 ELSE Len(rows) - 1 + 1
    BY <2>1, FS_Interval
  <2> QED
    BY <2>1, <2>2
<1>2. DOMAIN rows = 1 .. Len(rows)
  OBVIOUS
<1>3. f \in Surjection(1 .. Len(rows), targets)
  <2>1. \A n \in 1 .. Len(rows) : rows[n] \in ToSet(rows)
    BY <1>2 DEF ToSet
  <2>2. \A t \in targets : \E n \in 1 .. Len(rows) : rows[n].target = t
    BY <1>2 DEF ToSet
  <2>3. f \in [1 .. Len(rows) -> targets]
    BY <2>1
  <2>4. \A t \in targets : \E n \in 1 .. Len(rows) : f[n] = t
    BY <2>2
  <2> HIDE DEF f, targets
  <2> QED
    BY <2>3, <2>4 DEF Surjection
<1> HIDE DEF targets, f
<1>4. IsFiniteSet(targets) /\ Cardinality(targets) <= Cardinality(1 .. Len(rows))
  BY <1>1, <1>3, FS_Surjection
<1>5. Cardinality(targets) \in Nat
  BY <1>4, FS_CardinalityType
<1> QED
  BY <1>1, <1>4, <1>5 DEF targets

LEMMA WalkIsShort ==
  ASSUME NEW d \in Deployments, NEW start, NEW path, Walk(d, start, path)
  PROVE  Len(path) - 1 <= Len(DbOf[d].edges) /\ Len(DbOf[d].edges) \in Nat
<1> DEFINE targets == {e.target : e \in EdgesOf(d)}
           rest == [n \in 1 .. Len(path) - 1 |-> path[n + 1]]
<1>1. DbOf[d].edges \in Seq(EdgesOf(d))
  BY TraceAssumption DEF EdgesOf
<1>2. IsFiniteSet(targets) /\ Cardinality(targets) \in Nat /\ Cardinality(targets) <= Len(DbOf[d].edges)
  BY <1>1, TargetsCounted DEF EdgesOf
<1>3. path \in Seq(KeysOfDb(d)) /\ Len(path) \in Nat \ {0} /\ DOMAIN path = 1 .. Len(path)
  BY DEF Walk
<1>4. \A n \in 1 .. Len(path) - 1 : path[n + 1] \in targets
  BY DEF Walk, Hop
<1>5. rest \in Seq(targets) /\ Len(rest) = Len(path) - 1 /\ \A n \in 1 .. Len(path) - 1 : rest[n] = path[n + 1]
  <2>1. Len(path) - 1 \in Nat
    BY <1>3
  <2> HIDE DEF targets
  <2> QED
    BY <1>4, <2>1
<1> HIDE DEF targets, rest
<1>6. \A m, n \in 1 .. Len(rest) : rest[m] = rest[n] => m = n
  <2>1. \A m, n \in 1 .. Len(path) : path[m] = path[n] => m = n
    BY <1>3 DEF Walk, IsInjective
  <2>2. \A n \in 1 .. Len(rest) : n + 1 \in 1 .. Len(path) /\ rest[n] = path[n + 1] /\ n \in Int
    BY <1>3, <1>5
  <2> QED
    BY <2>1, <2>2
<1>7. IsFiniteSet(ToSet(rest)) /\ Cardinality(ToSet(rest)) = Len(rest)
  BY <1>5, <1>6, LengthOnce
<1>8. ToSet(rest) \subseteq targets
  BY <1>5, FiniteRows
<1>9. Cardinality(ToSet(rest)) <= Cardinality(targets)
  BY <1>2, <1>8, FS_Subset
<1>10. Len(rest) \in Nat /\ Len(DbOf[d].edges) \in Nat
  BY <1>1, <1>5
<1> QED
  BY <1>2, <1>5, <1>7, <1>9, <1>10

(* The reference's paths are the walks that arrive at the target.            *)
HopsFrom(d, path) ==
  {e \in EdgesOf(d) : e.source = Last(path) /\ e.exact /\ EdgeAllowed(DbOf[d], e) /\ e.target \notin ToSet(path)}
LongerBy(d, paths) == paths \cup UNION {{Append(path, e.target) : e \in HopsFrom(d, path)} : path \in paths}
LevelIs(g, d, start) ==
  g = [n \in 0 .. Len(DbOf[d].edges) |-> IF n = 0 THEN {<<start>>} ELSE LongerBy(d, g[n - 1])]
WalksOf(d, start, n) == {path \in Seq(KeysOfDb(d)) : Walk(d, start, path) /\ Len(path) <= n}

LEMMA FirstWalk ==
  ASSUME NEW d, NEW start \in KeysOfDb(d)
  PROVE  WalksOf(d, start, 1) = {<<start>>} /\ Walk(d, start, <<start>>)
<1>1. <<start>> \in Seq(KeysOfDb(d)) /\ Len(<<start>>) = 1 /\ Len(<<start>>) <= 1 /\ <<start>>[1] = start /\ <<start>> # <<>>
  OBVIOUS
<1>2. Walk(d, start, <<start>>)
  <2>1. IsInjective(<<start>>)
    BY <1>1 DEF IsInjective
  <2>2. 1 .. Len(<<start>>) - 1 = {}
    BY <1>1
  <2> QED
    BY <1>1, <2>1, <2>2 DEF Walk
<1>3. ASSUME NEW path \in Seq(KeysOfDb(d)), Walk(d, start, path), Len(path) <= 1 PROVE path = <<start>>
  <2>1. path[1] = start /\ path # <<>>
    BY <1>3 DEF Walk
  <2>2. Len(path) = 1
    <3>1. Len(path) \in Nat \ {0}
      BY <1>3, <2>1
    <3>2. PICK k : k = Len(path)
      OBVIOUS
    <3>3. k \in Nat \ {0} /\ k <= 1
      BY <1>3, <3>1, <3>2
    <3>4. k = 1
      BY <3>3
    <3> QED
      BY <3>2, <3>4
  <2>3. \A n \in 1 .. Len(path) : path[n] = <<start>>[n]
    BY <1>1, <2>1, <2>2
  <2> QED
    BY <1>1, <1>3, <2>2, <2>3, SeqEqual
<1>4. \A path : path \in WalksOf(d, start, 1) <=> path = <<start>>
  <2>1. \A path \in WalksOf(d, start, 1) : path = <<start>>
    BY <1>3 DEF WalksOf
  <2>2. <<start>> \in WalksOf(d, start, 1)
    BY <1>1, <1>2, Zenon DEF WalksOf
  <2> QED
    BY <2>1, <2>2
<1> QED
  BY <1>2, <1>4

LEMMA WalksLonger ==
  ASSUME NEW d, NEW start, NEW n \in Nat \ {0}
  PROVE  LongerBy(d, WalksOf(d, start, n)) = WalksOf(d, start, n + 1)
<1>1. WalksOf(d, start, n) \subseteq WalksOf(d, start, n + 1)
  BY DEF WalksOf
<1>2. ASSUME NEW path \in WalksOf(d, start, n), NEW e \in HopsFrom(d, path)
      PROVE  Append(path, e.target) \in WalksOf(d, start, n + 1)
  <2>1. /\ path \in Seq(KeysOfDb(d)) /\ Walk(d, start, path) /\ Len(path) <= n
        /\ e \in EdgesOf(d) /\ e.source = path[Len(path)] /\ e.exact /\ EdgeAllowed(DbOf[d], e) /\ e.target \notin ToSet(path)
    BY <1>2 DEF WalksOf, HopsFrom, Last
  <2>2. Walk(d, start, Append(path, e.target))
    BY <2>1, WalkGrows
  <2>3. Len(Append(path, e.target)) <= n + 1
    BY <2>1
  <2> QED
    BY <2>2, <2>3 DEF WalksOf, Walk
<1>3. ASSUME NEW path \in WalksOf(d, start, n + 1), Len(path) = n + 1
      PROVE  \E short \in WalksOf(d, start, n) : \E e \in HopsFrom(d, short) : path = Append(short, e.target)
  <2>1. Walk(d, start, path) /\ path \in Seq(KeysOfDb(d)) /\ n \in 1 .. Len(path) /\ DOMAIN path = 1 .. n + 1
    BY <1>3 DEF WalksOf
  <2>2. PICK short : short = SubSeq(path, 1, n)
    OBVIOUS
  <2>3. Walk(d, start, short) /\ Len(short) = n /\ \A m \in 1 .. n : short[m] = path[m]
    BY <2>1, <2>2, WalkBegins
  <2>4. short \in Seq(KeysOfDb(d)) /\ DOMAIN short = 1 .. n /\ n \in 1 .. n
    BY <2>3 DEF Walk
  <2>5. PICK e \in EdgesOf(d) : e.source = path[n] /\ e.exact /\ EdgeAllowed(DbOf[d], e) /\ e.target = path[n + 1]
    <3>1. n \in 1 .. Len(path) - 1
      BY <1>3
    <3>2. Hop(d, path[n], path[n + 1])
      BY <2>1, <3>1 DEF Walk
    <3> QED
      BY <3>2 DEF Hop
  <2>6. e.target \notin ToSet(short)
    <3>1. \A m, k \in 1 .. n + 1 : path[m] = path[k] => m = k
      BY <2>1 DEF Walk, IsInjective
    <3>2. \A m \in 1 .. n : short[m] # e.target
      <4> SUFFICES ASSUME NEW m \in 1 .. n, short[m] = e.target PROVE FALSE
        OBVIOUS
      <4>1. m \in 1 .. n + 1 /\ n + 1 \in 1 .. n + 1 /\ m # n + 1
        OBVIOUS
      <4> QED
        BY <2>3, <2>5, <3>1, <4>1
    <3> QED
      BY <2>4, <3>2 DEF ToSet
  <2>7. Last(short) = path[n]
    BY <2>3, <2>4 DEF Last
  <2>8. e \in HopsFrom(d, short)
    BY <2>5, <2>6, <2>7 DEF HopsFrom
  <2>9. path = Append(short, e.target)
    <3>1. e.target \in KeysOfDb(d)
      BY <2>5 DEF KeysOfDb
    <3>2. /\ Append(short, e.target) \in Seq(KeysOfDb(d)) /\ Len(Append(short, e.target)) = n + 1
          /\ Append(short, e.target)[n + 1] = e.target /\ \A m \in 1 .. n : Append(short, e.target)[m] = short[m]
      BY <2>3, <2>4, <3>1
    <3>3. \A m \in 1 .. n + 1 : Append(short, e.target)[m] = path[m]
      BY <2>3, <2>5, <3>2
    <3> QED
      BY <1>3, <2>1, <3>2, <3>3, SeqEqual
  <2>10. short \in WalksOf(d, start, n)
    BY <2>3, <2>4 DEF WalksOf
  <2> QED
    BY <2>8, <2>9, <2>10
<1>4. ASSUME NEW path \in WalksOf(d, start, n + 1), Len(path) # n + 1 PROVE path \in WalksOf(d, start, n)
  BY <1>4 DEF WalksOf
<1>5. ASSUME NEW path \in LongerBy(d, WalksOf(d, start, n)) PROVE path \in WalksOf(d, start, n + 1)
  <2>1. CASE path \in WalksOf(d, start, n)
    BY <1>1, <2>1
  <2>2. CASE \E short \in WalksOf(d, start, n) : path \in {Append(short, e.target) : e \in HopsFrom(d, short)}
    BY <1>2, <2>2
  <2> QED
    BY <1>5, <2>1, <2>2 DEF LongerBy
<1>6. ASSUME NEW path \in WalksOf(d, start, n + 1) PROVE path \in LongerBy(d, WalksOf(d, start, n))
  <2>1. CASE Len(path) # n + 1
    BY <1>4, <2>1 DEF LongerBy
  <2>2. CASE Len(path) = n + 1
    <3>1. PICK short \in WalksOf(d, start, n) : \E e \in HopsFrom(d, short) : path = Append(short, e.target)
      BY <1>3, <2>2
    <3> QED
      BY <3>1 DEF LongerBy
  <2> QED
    BY <2>1, <2>2
<1> QED
  BY <1>5, <1>6

LEMMA PathsAreWalks ==
  ASSUME request.served \in Deployments, NEW start \in KeysOfDb(request.served), NEW target
  PROVE  SimplePaths(start, target) = WalksTo(request.served, start, target)
<1>1. PICK d : d = request.served
  OBVIOUS
<1> DEFINE N == Len(DbOf[d].edges)
           level == CHOOSE g : LevelIs(g, d, start)
           G == [n \in 0 .. N |-> WalksOf(d, start, n + 1)]
<1>2. SimplePaths(start, target) = {path \in level[N] : Last(path) = target /\ target \notin ToSet(Front(path))}
  BY <1>1 DEF SimplePaths, LevelIs, LongerBy, HopsFrom, EdgesOf, Db
<1>3. d \in Deployments /\ start \in KeysOfDb(d) /\ Walk(d, start, <<start>>)
  BY <1>1, FirstWalk
<1>4. N \in Nat
  BY <1>3, WalkIsShort
<1>5. WalksOf(d, start, 0 + 1) = {<<start>>}
  BY <1>3, FirstWalk
<1>6. \A n \in Nat : WalksOf(d, start, (n + 1) + 1) = LongerBy(d, WalksOf(d, start, n + 1))
  <2> TAKE n \in Nat
  <2>1. n + 1 \in Nat \ {0}
    OBVIOUS
  <2> QED
    BY <2>1, WalksLonger
<1> HIDE DEF N
<1>7. G = [n \in 0 .. N |-> IF n = 0 THEN {<<start>>} ELSE LongerBy(d, G[n - 1])]
  <2>1. ASSUME NEW n \in 0 .. N, n # 0 PROVE WalksOf(d, start, n + 1) = LongerBy(d, G[n - 1])
    <3>1. n - 1 \in Nat /\ n - 1 \in 0 .. N /\ (n - 1) + 1 = n
      BY <1>4, <2>1
    <3>2. WalksOf(d, start, ((n - 1) + 1) + 1) = LongerBy(d, WalksOf(d, start, (n - 1) + 1))
      BY <1>6, <3>1
    <3>3. G[n - 1] = WalksOf(d, start, (n - 1) + 1)
      BY <3>1
    <3> HIDE DEF G
    <3> QED
      BY <3>1, <3>2, <3>3
  <2>2. \A n \in 0 .. N : WalksOf(d, start, n + 1) = IF n = 0 THEN {<<start>>} ELSE LongerBy(d, G[n - 1])
    <3> HIDE DEF G
    <3> QED
      BY <1>5, <2>1
  <2> QED
    BY <2>2
<1>8. LevelIs(level, d, start)
  <2> HIDE DEF G
  <2>1. LevelIs(G, d, start)
    BY <1>7 DEF LevelIs, N
  <2> QED
    BY <2>1
<1> HIDE DEF level
<1> DEFINE V == {n \in Nat : n <= N => level[n] = WalksOf(d, start, n + 1)}
<1>9. 0 \in V
  <2>1. 0 \in 0 .. N
    BY <1>4
  <2>2. level[0] = {<<start>>}
    BY <1>8, <2>1 DEF LevelIs, N
  <2> QED
    BY <1>5, <2>2
<1>10. ASSUME NEW n \in Nat, n \in V PROVE n + 1 \in V
  <2> SUFFICES ASSUME n + 1 <= N PROVE level[n + 1] = WalksOf(d, start, (n + 1) + 1)
    OBVIOUS
  <2>1. n + 1 \in 0 .. N /\ n + 1 # 0 /\ (n + 1) - 1 = n /\ n <= N
    BY <1>4
  <2>2. level[n] = WalksOf(d, start, n + 1)
    BY <1>10, <2>1
  <2>3. level[n + 1] = LongerBy(d, level[(n + 1) - 1])
    BY <1>8, <2>1 DEF LevelIs, N
  <2> QED
    BY <1>6, <2>1, <2>2, <2>3
<1>11. level[N] = WalksOf(d, start, N + 1)
  <2>1. Nat \subseteq V
    <3> HIDE DEF V
    <3> QED
      BY <1>9, <1>10, Induction
  <2>2. N \in V
    BY <1>4, <2>1
  <2> QED
    BY <1>4, <2>2
<1>12. ASSUME NEW path \in Seq(KeysOfDb(d)), Walk(d, start, path)
       PROVE  /\ Len(path) <= N + 1
              /\ (Last(path) = target /\ target \notin ToSet(Front(path)) <=> path[Len(path)] = target /\ Avoids(path, target))
  <2>1. Len(path) - 1 <= N
    BY <1>3, <1>12, WalkIsShort DEF N
  <2>2. Len(path) \in Nat \ {0}
    BY <1>12 DEF Walk
  <2>3. Last(path) = path[Len(path)]
    BY DEF Last
  <2>4. ToSet(Front(path)) = {path[n] : n \in 1 .. Len(path) - 1}
    <3>1. PICK front : front = SubSeq(path, 1, Len(path) - 1)
      OBVIOUS
    <3>2. front \in Seq(KeysOfDb(d)) /\ Len(front) = Len(path) - 1 /\ \A n \in 1 .. Len(path) - 1 : front[n] = path[n]
      <4>1. Len(path) - 1 \in 0 .. Len(path)
        BY <2>2
      <4> QED
        BY <1>12, <3>1, <4>1, BeginningOf
    <3>3. DOMAIN front = 1 .. Len(path) - 1
      BY <3>2
    <3> QED
      BY <3>1, <3>2, <3>3 DEF ToSet, Front
  <2> QED
    BY <1>4, <2>1, <2>2, <2>3, <2>4 DEF Avoids
<1> QED
  BY <1>1, <1>2, <1>11, <1>12 DEF WalksOf, WalksTo

(* What is asked for in a deployment is what the reference asks for.         *)
LEMMA AllPathsAre ==
  ASSUME request.served \in Deployments, NEW q
  PROVE  AllPaths(q) = AllIn(request.served, q)
<1>1. PICK d : d = request.served
  OBVIOUS
<1>2. d \in Deployments /\ App = AppOf[d] /\ Db = DbOf[d] /\ Context = ContextOf[d] /\ ToSet(App.intents) = Intents(d)
  BY <1>1 DEF App, Db, Context, Intents
<1>3. \A i : Resolved(i) = ResolvedIn(d, i)
  BY <1>2, Zenon DEF Resolved, ResolvedIn
<1>4. ASSUME NEW i, NEW key, NEW b \in Intents(d) PROVE Crossing(i, key, Resolved(b), q.target) = CrossingIn(d, q, i, key, b)
  <2>1. PICK r : r = Resolved(b)
    OBVIOUS
  <2>2. r.status # "exact" \/ r.graph # "db" <=> ~CrossesIn(d, b)
    BY <1>3, <2>1 DEF CrossesIn, ExactIn
  <2>3. r.candidates[1].key = RoutineOf(d, b)
    BY <1>3, <2>1 DEF RoutineOf
  <2>4. CASE ~CrossesIn(d, b)
    BY <2>1, <2>2, <2>4, Zenon DEF Crossing, CrossingIn
  <2>5. CASE CrossesIn(d, b)
    <3>1. RoutineOf(d, b) \in KeysOfDb(d)
      BY <2>5 DEF KeysOfDb, CrossesIn
    <3>2. SimplePaths(RoutineOf(d, b), q.target) = WalksTo(d, RoutineOf(d, b), q.target)
      BY <1>1, <1>2, <3>1, PathsAreWalks
    <3>3. Crossing(i, key, r, q.target) =
            {[evidence |-> i.key, body |-> key, nodes |-> path] : path \in SimplePaths(RoutineOf(d, b), q.target)}
      BY <2>2, <2>3, <2>5, Zenon DEF Crossing
    <3> QED
      BY <2>1, <2>5, <3>2, <3>3, Zenon DEF CrossingIn
  <2> QED
    BY <2>4, <2>5
<1>5. ASSUME NEW i \in Intents(d) PROVE From(q, i, Resolved(i)) = FromIn(d, q, i)
  <2>1. PICK r : r = Resolved(i)
    OBVIOUS
  <2>2. (r.status = "exact" <=> ExactIn(d, i)) /\ (r.status = "exact" => (r.graph = "db" <=> CrossesIn(d, i)))
    BY <1>3, <2>1 DEF CrossesIn, ExactIn
  <2>3. r.candidates[1].key = RoutineOf(d, i)
    BY <1>3, <2>1 DEF RoutineOf
  <2>4. Bodies(r.candidates[1].key) = BodiesIn(d, i)
    BY <1>2, <2>3, Zenon DEF Bodies, BodiesIn
  <2>5. Crossing(i, None, r, q.target) = CrossingIn(d, q, i, None, i)
    BY <1>4, <2>1
  <2>6. \A b \in BodiesIn(d, i) : Crossing(i, b.key, Resolved(b), q.target) = CrossingIn(d, q, i, b.key, b)
    BY <1>4 DEF BodiesIn
  <2>7. UNION {Crossing(i, b.key, Resolved(b), q.target) : b \in BodiesIn(d, i)}
          = UNION {CrossingIn(d, q, i, b.key, b) : b \in BodiesIn(d, i)}
    BY <2>6
  <2>8. From(q, i, r) = FromIn(d, q, i)
    <3>1. CASE ~ExactIn(d, i)
      BY <2>2, <3>1, Zenon DEF From, FromIn
    <3>2. CASE ExactIn(d, i) /\ q.target = None
      BY <2>2, <2>3, <3>2, Zenon DEF From, FromIn
    <3>3. CASE ExactIn(d, i) /\ q.target # None /\ CrossesIn(d, i)
      BY <2>2, <2>5, <3>3, Zenon DEF From, FromIn
    <3>4. CASE ExactIn(d, i) /\ q.target # None /\ ~CrossesIn(d, i)
      <4>1. From(q, i, r) = UNION {Crossing(i, b.key, Resolved(b), q.target) : b \in Bodies(r.candidates[1].key)}
        BY <2>2, <3>4, Zenon DEF From
      <4>2. FromIn(d, q, i) = UNION {CrossingIn(d, q, i, b.key, b) : b \in BodiesIn(d, i)}
        BY <3>4, Zenon DEF FromIn
      <4> QED
        BY <2>4, <2>7, <4>1, <4>2
    <3> QED
      BY <3>1, <3>2, <3>3, <3>4
  <2> QED
    BY <2>1, <2>8
<1>6. \A i : AskedFor(q, i) <=> AskedIn(d, q, i)
  BY <1>2, Zenon DEF AskedFor, AskedIn
<1>7. {j \in ToSet(App.intents) : AskedFor(q, j)} = {j \in Intents(d) : AskedIn(d, q, j)}
  BY <1>2, <1>6
<1>8. UNION {From(q, i, Resolved(i)) : i \in {j \in Intents(d) : AskedIn(d, q, j)}} = AllIn(d, q)
  <2>1. \A i \in {j \in Intents(d) : AskedIn(d, q, j)} : From(q, i, Resolved(i)) = FromIn(d, q, i)
    BY <1>5
  <2> QED
    BY <2>1 DEF AllIn
<1> QED
  BY <1>1, <1>7, <1>8 DEF AllPaths

(* What is callable is closed, and the least that is.                        *)
LEMMA CallableIs ==
  ASSUME NEW d, NEW q
  PROVE  /\ q.entry \in Callable(AppOf[d], q.entry) /\ Callable(AppOf[d], q.entry) \subseteq CalledFrom(d, q)
         /\ \A k \in Callable(AppOf[d], q.entry) : CallsSeen(d, Callable(AppOf[d], q.entry), k)
         /\ \A seen \in SUBSET Callable(AppOf[d], q.entry) :
              q.entry \in seen /\ (\A k \in seen : CallsSeen(d, seen, k)) => seen = Callable(AppOf[d], q.entry)
<1> DEFINE ends == CalledFrom(d, q)
           Closed(keys) == q.entry \in keys /\ \A c \in CallsOf(d) : c.source \in keys => c.target \in keys
           all == Callable(AppOf[d], q.entry)
<1>1. all = {k \in ends : \A keys \in SUBSET ends : Closed(keys) => k \in keys}
  BY DEF Callable, CalledFrom, CallsOf
<1>2. q.entry \in ends /\ \A c \in CallsOf(d) : c.target \in ends
  BY DEF CalledFrom
<1> HIDE DEF ends, all
<1>3. q.entry \in all /\ all \in SUBSET ends
  BY <1>1, <1>2
<1>4. ASSUME NEW c \in CallsOf(d), c.source \in all PROVE c.target \in all
  <2>1. \A keys \in SUBSET ends : Closed(keys) => c.source \in keys
    BY <1>1, <1>4
  <2>2. \A keys \in SUBSET ends : Closed(keys) => c.target \in keys
    BY <2>1
  <2> QED
    BY <1>1, <1>2, <2>2
<1>5. ASSUME NEW seen \in SUBSET all, q.entry \in seen, \A k \in seen : CallsSeen(d, seen, k) PROVE seen = all
  <2>1. Closed(seen) /\ seen \in SUBSET ends
    BY <1>3, <1>5 DEF CallsSeen
  <2> QED
    BY <1>1, <2>1
<1> QED
  BY <1>3, <1>4, <1>5 DEF all, ends, CallsSeen

(* A page of some of the rows.                                               *)
PageHolds(page, S) ==
  /\ page.items \in Seq(S) /\ page.truncated \in BOOLEAN
  /\ ~page.truncated => \A x \in S : \E n \in DOMAIN page.items : page.items[n] = x

LEMMA PageOfSome ==
  ASSUME NEW T, NEW rows \in Seq(T), NEW S, NEW limit \in Nat
  PROVE  PageHolds(Page(Among(rows, S), limit), ToSet(rows) \cap S)
<1> DEFINE some == Among(rows, S)
           page == Page(some, limit)
<1>1. some \in Seq(T) /\ ToSet(some) = ToSet(rows) \cap S
  BY AmongGrows, AmongMembers
<1> HIDE DEF some
<1>2. some \in Seq(ToSet(rows) \cap S)
  <2>1. \A n \in 1 .. Len(some) : some[n] \in ToSet(some)
    BY <1>1 DEF ToSet
  <2>2. some \in Seq(ToSet(some))
    BY <1>1, <2>1
  <2> QED
    BY <1>1, <2>2
<1>3. page.items \in Seq(ToSet(rows) \cap S) /\ page.truncated \in BOOLEAN /\ (~page.truncated => page.items = some)
  BY <1>2, PageOf
<1>4. \A x \in ToSet(rows) \cap S : \E n \in DOMAIN some : some[n] = x
  <2>1. \A x \in ToSet(some) : \E n \in DOMAIN some : some[n] = x
    BY DEF ToSet
  <2> QED
    BY <1>1, <2>1
<1> HIDE DEF page
<1>5. ~page.truncated => \A x \in ToSet(rows) \cap S : \E n \in DOMAIN page.items : page.items[n] = x
  BY <1>3, <1>4
<1> QED
  BY <1>3, <1>5 DEF page, some, PageHolds

-----------------------------------------------------------------------------
LEMMA TraceAtHand ==
  ASSUME TraceInv, progress.pc # "idle"
  PROVE  /\ request \in TraceRequests(request) /\ request.served \in Deployments
         /\ request.question.depth \in Nat /\ request.question.limit \in Nat \ {0}
         /\ progress \in TraceStates(progress) /\ TracePlace(request.served, request.question, progress)
<1>1. progress # Idle
  BY DEF Idle
<1>2. /\ request \in TraceRequests(request) /\ progress \in TraceStates(progress)
      /\ TracePlace(request.served, request.question, progress)
  BY <1>1 DEF TraceInv
<1>3. request.served \in Deployments /\ request.question \in Questions
  BY <1>2 DEF TraceRequests
<1> QED
  BY <1>2, <1>3, TraceAssumption

LEMMA TraceGoesOn ==
  ASSUME TraceInv, request' = request, progress' \in TraceStates(progress'),
         TracePlace(request.served, request.question, progress')
  PROVE  TraceInv'
  BY DEF TraceInv

LEMMA TraceIsAnswered ==
  ASSUME TraceInv, NEW status \in {"context_required", "invalid_reference", "not_found", "deadline_exceeded"}, Answer(status)
  PROVE  TraceInv'
<1>1. request \in TraceRequests(request) /\ request' = [request EXCEPT !.status = status] /\ progress' = Idle
  BY DEF TraceInv, Answer
<1>2. request' \in TraceRequests(request') /\ request'.status = status
  BY <1>1 DEF TraceRequests
<1>3. TraceAnswers(request'.served, request'.question, request')
  BY <1>2 DEF TraceAnswers
<1> QED
  BY <1>1, <1>2, <1>3 DEF TraceInv

LEMMA TraceBegins == TraceInit => TraceInv
<1> SUFFICES ASSUME TraceInit PROVE TraceInv
  OBVIOUS
<1>1. PICK d \in Deployments, q \in Questions :
        request = [tool |-> "trace", served |-> d, question |-> q, status |-> "new", paths |-> <<>>, truncated |-> FALSE]
  BY DEF TraceInit
<1>2. request \in TraceRequests(request) /\ request.status = "new" /\ progress = Idle
  BY <1>1 DEF TraceRequests, TraceInit
<1>3. TraceAnswers(request.served, request.question, request)
  BY <1>2 DEF TraceAnswers
<1> QED
  BY <1>2, <1>3 DEF TraceInv

(* Exactly one of evidence, path and entry is asked about.                   *)
LEMMA GivenOne ==
  ASSUME NEW q, Cardinality(Given(q)) = 1
  PROVE  OneGiven(q)
<1>1. IsFiniteSet({"evidence", "path", "entry"})
  <2>1. IsFiniteSet({"evidence"})
    BY FS_Singleton
  <2>2. IsFiniteSet({"evidence"} \cup {"path"})
    BY <2>1, FS_AddElement
  <2>3. IsFiniteSet(({"evidence"} \cup {"path"}) \cup {"entry"})
    BY <2>2, FS_AddElement
  <2>4. ({"evidence"} \cup {"path"}) \cup {"entry"} = {"evidence", "path", "entry"}
    OBVIOUS
  <2> QED
    BY <2>3, <2>4
<1>2. IsFiniteSet(Given(q))
  BY <1>1, FS_Subset DEF Given
<1>3. PICK f : Given(q) = {f}
  BY <1>2, FS_Singleton
<1>4. ("evidence" \in Given(q) <=> q["evidence"] # None) /\ ("path" \in Given(q) <=> q["path"] # None)
      /\ ("entry" \in Given(q) <=> q["entry"] # None)
  BY DEF Given
<1>5. Given(q) \subseteq {"evidence", "path", "entry"}
  BY DEF Given
<1>6. (q.entry # None => q.evidence = None /\ q.path = None) /\ (q.evidence # None \/ q.path # None \/ q.entry # None)
  BY <1>3, <1>4, <1>5
<1> QED
  BY <1>6 DEF OneGiven

(* The evidence of one key or one file is all the evidence asked for.        *)
HeldWith(page, chain) == [n \in DOMAIN page.items |-> [of |-> page.items[n], chain |-> chain]]
HoldsAsked(d, q, held) == \A i \in Intents(d) : AskedIn(d, q, i) => \E n \in DOMAIN held : held[n].of = i
LEMMA EvidenceHeld ==
  ASSUME NEW d \in Deployments, NEW q, q.entry = None, NEW S, NEW limit \in Nat,
         \A i \in Intents(d) : i \in S <=> AskedIn(d, q, i),
         NEW page, page = Page(Among(AppOf[d].intents, S), limit)
  PROVE  /\ HeldWith(page, <<>>) \in Seq(Leads(d, q)) /\ page.truncated \in BOOLEAN
         /\ ~page.truncated => HoldsAsked(d, q, HeldWith(page, <<>>))
<1> DEFINE held == HeldWith(page, <<>>)
<1>1. AppOf[d].intents \in Seq(Intents(d)) /\ ToSet(AppOf[d].intents) = Intents(d)
  BY TraceAssumption DEF Intents
<1>2. /\ page.items \in Seq(Intents(d) \cap S) /\ page.truncated \in BOOLEAN
      /\ ~page.truncated => \A x \in Intents(d) \cap S : \E n \in DOMAIN page.items : page.items[n] = x
  <2>1. PageHolds(Page(Among(AppOf[d].intents, S), limit), ToSet(AppOf[d].intents) \cap S)
    BY <1>1, PageOfSome
  <2>2. PageHolds(page, Intents(d) \cap S)
    BY <1>1, <2>1
  <2> QED
    BY <2>2 DEF PageHolds
<1>3. <<>> \in Seq(CalledFrom(d, q)) /\ ChainOf(d, q, <<>>)
  <2>1. <<>> \in Seq(CalledFrom(d, q)) /\ 1 .. Len(<<>>) = {}
    OBVIOUS
  <2> QED
    BY <2>1 DEF ChainOf
<1>4. ASSUME NEW i \in Intents(d) \cap S PROVE [of |-> i, chain |-> <<>>] \in Leads(d, q)
  BY <1>3, <1>4 DEF Leads, Leading
<1>5. DOMAIN page.items = 1 .. Len(page.items) /\ Len(page.items) \in Nat /\ \A n \in DOMAIN page.items : page.items[n] \in Intents(d) \cap S
  BY <1>2
<1>6. held \in Seq(Leads(d, q))
  <2>1. \A n \in 1 .. Len(page.items) : [of |-> page.items[n], chain |-> <<>>] \in Leads(d, q)
    BY <1>4, <1>5
  <2> QED
    BY <1>5, <2>1 DEF HeldWith
<1>7. \A n \in DOMAIN page.items : n \in DOMAIN held /\ held[n].of = page.items[n]
  BY DEF HeldWith
<1> HIDE DEF held
<1>8. ~page.truncated => HoldsAsked(d, q, held)
  BY <1>2, <1>7 DEF HoldsAsked
<1> QED
  BY <1>2, <1>6, <1>8 DEF held

LEMMA TraceIsAsked == TraceInv /\ AskTrace => TraceInv'
<1> SUFFICES ASSUME TraceInv, AskTrace PROVE TraceInv'
  OBVIOUS
<1>1. PICK d, q : d = request.served /\ q = request.question
  OBVIOUS
<1> DEFINE page == IF q.evidence # None
                   THEN Page(Among(App.intents, {i \in ToSet(App.intents) : i.key = q.evidence}), 1)
                   ELSE IF q.path # None THEN ListIntents(App, q.path, EvidenceCap)
                   ELSE Page(<<>>, 1)
           held == HeldWith(page, <<>>)
           first == [key |-> q.entry, chain |-> <<>>]
<1>2. \/ \E status \in {"context_required", "invalid_reference", "not_found"} : Answer(status)
      \/ /\ Cardinality(Given(q)) = 1 /\ request' = request
         /\ progress' = [pc |-> IF q.entry = None THEN "trace.target" ELSE "trace.reach",
                         late |-> FALSE, cut |-> page.truncated, visited |-> 0, edges |-> 0,
                         queue |-> <<first>>, seen |-> {q.entry}, owners |-> <<>>, intents |-> held,
                         n |-> 1, bodies |-> <<>>, body |-> None, depth |-> 0, found |-> <<>>, paths |-> <<>>]
  BY <1>1 DEF AskTrace, HeldWith
<1>3. CASE \E status \in {"context_required", "invalid_reference", "not_found"} : Answer(status)
  BY <1>3, TraceIsAnswered
<1>4. CASE /\ Cardinality(Given(q)) = 1 /\ request' = request
           /\ progress' = [pc |-> IF q.entry = None THEN "trace.target" ELSE "trace.reach",
                           late |-> FALSE, cut |-> page.truncated, visited |-> 0, edges |-> 0,
                           queue |-> <<first>>, seen |-> {q.entry}, owners |-> <<>>, intents |-> held,
                           n |-> 1, bodies |-> <<>>, body |-> None, depth |-> 0, found |-> <<>>, paths |-> <<>>]
  <2>1. d \in Deployments /\ OneGiven(q) /\ App = AppOf[d] /\ ToSet(App.intents) = Intents(d)
    BY <1>1, <1>4, GivenOne DEF TraceInv, TraceRequests, App, Intents
  <2>2. /\ held \in Seq(Leads(d, q)) /\ page.truncated \in BOOLEAN
        /\ q.entry = None /\ ~page.truncated => HoldsAsked(d, q, held)
        /\ q.entry # None => held = <<>>
    <3>1. CASE q.evidence # None
      <4> DEFINE S == {j \in Intents(d) : j.key = q.evidence}
      <4>1. q.entry = None /\ \A i \in Intents(d) : i \in S <=> AskedIn(d, q, i)
        BY <2>1, <3>1 DEF OneGiven, AskedIn
      <4>2. page = Page(Among(AppOf[d].intents, S), 1) /\ 1 \in Nat
        BY <2>1, <3>1
      <4> HIDE DEF S
      <4> HIDE DEF page
      <4> QED
        BY <2>1, <4>1, <4>2, EvidenceHeld
    <3>2. CASE q.evidence = None /\ q.path # None
      <4> DEFINE S == {j \in Intents(d) : j.path = q.path}
      <4>1. q.entry = None /\ \A i \in Intents(d) : i \in S <=> AskedIn(d, q, i)
        BY <2>1, <3>2 DEF OneGiven, AskedIn
      <4>2. page = Page(Among(AppOf[d].intents, S), EvidenceCap)
        BY <2>1, <3>2 DEF ListIntents
      <4> HIDE DEF S
      <4>3. EvidenceCap \in Nat
        BY TraceAssumption
      <4> HIDE DEF page
      <4> QED
        BY <2>1, <4>1, <4>2, <4>3, EvidenceHeld
    <3>3. CASE q.evidence = None /\ q.path = None
      <4>1. q.entry # None
        BY <2>1, <3>3 DEF OneGiven
      <4>2. page.items = <<>> /\ page.truncated \in BOOLEAN
        <5>1. page = Page(<<>>, 1) /\ <<>> \in Seq({})
          BY <3>3
        <5>2. Page(<<>>, 1).items \in Seq({}) /\ Page(<<>>, 1).truncated \in BOOLEAN
          BY <5>1, PageOf
        <5> QED
          BY <5>1, <5>2
      <4> HIDE DEF page
      <4>3. held \in Seq(Leads(d, q)) /\ Len(held) = 0
        BY <4>2 DEF HeldWith
      <4> QED
        BY <4>1, <4>2, <4>3
    <3> QED
      BY <3>1, <3>2, <3>3
  <2> HIDE DEF page, held
  <2>3. PICK pc : pc = IF q.entry = None THEN "trace.target" ELSE "trace.reach"
    OBVIOUS
  <2>4. /\ progress'.pc = pc /\ progress'.cut = page.truncated /\ progress'.queue = <<first>> /\ progress'.seen = {q.entry}
        /\ progress'.owners = <<>> /\ progress'.intents = held /\ progress'.n = 1 /\ progress'.paths = <<>>
    BY <1>4, <2>3
  <2>5. progress' \in TraceStates(progress')
    BY <1>4, <2>2 DEF TraceStates, TraceSteps
  <2>6. pc \in {"trace.target", "trace.reach"} /\ (pc = "trace.reach" <=> q.entry # None)
    BY <2>3
  <2>7. <<>> \in Seq(GoodPaths(d, q)) /\ 1 <= Len(held) + 1
    BY <2>2
  <2>8. pc = "trace.target" => Gathered(d, q, progress')
    BY <2>2, <2>4, <2>6 DEF Gathered, Held, HoldsAsked
  <2>9. pc = "trace.reach" => AtReach(d, q, progress')
    <3> SUFFICES ASSUME q.entry # None PROVE AtReach(d, q, progress')
      BY <2>6
    <3>1. ChainOf(d, q, <<>>) /\ <<>> \in Seq(CalledFrom(d, q))
      <4>1. <<>> \in Seq(CalledFrom(d, q)) /\ 1 .. Len(<<>>) = {}
        OBVIOUS
      <4> QED
        BY <4>1 DEF ChainOf
    <3>2. first \in TraceNodes(d, q)
      BY <3>1, CallableIs DEF TraceNodes, EndOf
    <3>3. InQueue(<<first>>, q.entry)
      BY DEF InQueue
    <3> HIDE DEF first
    <3>4. <<first>> \in Seq(TraceNodes(d, q)) /\ <<>> \in Seq(TraceOwners(d, q))
      BY <3>2
    <3>5. q.entry \in Callable(AppOf[d], q.entry)
      BY CallableIs
    <3> HIDE DEF first
    <3>6. \A k \in {q.entry} : InQueue(<<first>>, k)
      BY <3>3
    <3> QED
      BY <2>4, <3>4, <3>5, <3>6 DEF AtReach
  <2>10. TracePlace(d, q, progress')
    BY <2>1, <2>2, <2>4, <2>6, <2>7, <2>8, <2>9 DEF TracePlace
  <2> QED
    BY <1>1, <1>4, <2>5, <2>10, TraceGoesOn
<1> QED
  BY <1>2, <1>3, <1>4

-----------------------------------------------------------------------------
(* The rows of a frontier are taken one after the other.                     *)
RowIter(iter, n, p, chain, items) ==
  iter = [s \in SUBSET (1 .. n) |->
            IF s = {} THEN p ELSE Row(iter[s \ {Max(s)}], chain, items[Max(s)])]

RowRun(f, p, chain, items) ==
  /\ f[0] = p
  /\ \A k \in 1 .. Len(items) : f[k] = Row(f[k - 1], chain, items[k])
  /\ TakeRows(p, chain, items) = f[Len(items)]

LEMMA RowRuns ==
  ASSUME NEW X, NEW p \in X, NEW chain, NEW T, NEW items \in Seq(T),
         \A q \in X, k \in 1 .. Len(items) : Row(q, chain, items[k]) \in X
  PROVE  \E f \in [0 .. Len(items) -> X] : RowRun(f, p, chain, items)
<1> DEFINE n == Len(items)
           Take(q, k) == Row(q, chain, items[k])
           step == [z \in (1 .. n) \X X |-> Take(z[2], z[1])]
           c == CHOOSE iter : RowIter(iter, n, p, chain, items)
<1>1. n \in Nat /\ DOMAIN items = 1 .. n
  OBVIOUS
<1>2. TakeRows(p, chain, items) = c[1 .. n]
  <2>1. TakeRows(p, chain, items) =
          (CHOOSE iter : RowIter(iter, n, p, chain, items))[DOMAIN items]
    BY <1>1 DEF TakeRows, FoldLeft, MapThenFoldSet, RowIter
  <2> QED
    BY <1>1, <2>1
<1>3. \A k \in 1 .. n, q \in X : Take(q, k) \in X
  OBVIOUS
<1>4. step \in [(1 .. n) \X X -> X] /\ \A k \in 1 .. n, q \in X : step[<<k, q>>] = Take(q, k)
  <2> HIDE DEF Take, n
  <2> QED
    BY <1>3
<1>5. PICK iter \in [SUBSET (1 .. n) -> X] : FoldIs(iter, n, p, step)
  <2> HIDE DEF step, n
  <2> QED
    BY <1>1, <1>4, FoldExists
<1>6. RowIter(iter, n, p, chain, items)
  <2>1. ASSUME NEW s \in SUBSET (1 .. n), s # {}
        PROVE  step[<<Max(s), iter[s \ {Max(s)}]>>] = Take(iter[s \ {Max(s)}], Max(s))
    <3>1. Max(s) \in 1 .. n /\ iter[s \ {Max(s)}] \in X
      <4> HIDE DEF n
      <4> QED
        BY <1>1, <1>5, <2>1, GreatestMember
    <3> HIDE DEF step, n, Take
    <3> QED
      BY <1>4, <3>1
  <2>2. iter = [s \in SUBSET (1 .. n) |-> IF s = {} THEN p ELSE step[<<Max(s), iter[s \ {Max(s)}]>>]]
    <3> HIDE DEF step, n, Take
    <3> QED
      BY <1>5 DEF FoldIs
  <2>3. iter = [s \in SUBSET (1 .. n) |-> IF s = {} THEN p ELSE Take(iter[s \ {Max(s)}], Max(s))]
    <3> HIDE DEF step, n, Take
    <3> QED
      BY <2>1, <2>2
  <2> QED
    BY <2>3 DEF RowIter
<1>7. RowIter(c, n, p, chain, items)
  <2> HIDE DEF n
  <2> QED
    BY <1>6
<1> DEFINE f == [k \in 0 .. n |-> c[1 .. k]]
<1> HIDE DEF c
<1>8. c[1 .. 0] = p
  <2>1. 1 .. 0 = {} /\ {} \in SUBSET (1 .. n)
    OBVIOUS
  <2> QED
    BY <1>7, <2>1 DEF RowIter
<1>9. ASSUME NEW k \in 1 .. n PROVE c[1 .. k] = Take(c[1 .. k - 1], k)
  <2>1. k - 1 \in Nat /\ (k - 1) + 1 = k
    OBVIOUS
  <2>2. Max(1 .. k) = k /\ (1 .. k) \ {Max(1 .. k)} = 1 .. k - 1
    BY <2>1, GreatestOf
  <2>3. 1 .. k \in SUBSET (1 .. n) /\ 1 .. k # {}
    <3> HIDE DEF n
    <3>1. (\A x \in 1 .. k : x \in 1 .. n) /\ k \in 1 .. k
      BY <1>1
    <3> QED
      BY <3>1
  <2> QED
    BY <1>7, <2>2, <2>3 DEF RowIter
<1>10. f[0] = p /\ (\A k \in 1 .. n : f[k] = Take(f[k - 1], k))
       /\ TakeRows(p, chain, items) = f[n]
  BY <1>1, <1>2, <1>8, <1>9
<1> DEFINE V == {k \in Nat : k <= n => f[k] \in X}
<1>11. 0 \in V
  <2> HIDE DEF f
  <2> QED
    BY <1>10
<1>12. ASSUME NEW k \in Nat, k \in V PROVE k + 1 \in V
  <2> SUFFICES ASSUME k + 1 <= n PROVE f[k + 1] \in X
    OBVIOUS
  <2>1. k + 1 \in 1 .. n /\ (k + 1) - 1 = k /\ f[k] \in X
    BY <1>12
  <2>2. f[k + 1] = Take(f[k], k + 1)
    <3> HIDE DEF f, Take, n
    <3> QED
      BY <1>10, <2>1
  <2> HIDE DEF f, Take, n
  <2> QED
    BY <1>3, <2>1, <2>2
<1>13. Nat \subseteq V
  <2> HIDE DEF V
  <2> QED
    BY <1>11, <1>12, Induction
<1>14. f \in [0 .. n -> X]
  <2>1. \A k \in 0 .. n : f[k] \in X
    <3> HIDE DEF f
    <3>1. \A k \in 0 .. n : k \in Nat /\ k <= n
      BY <1>1
    <3> QED
      BY <1>13, <3>1
  <2> QED
    BY <2>1
<1>15. RowRun(f, p, chain, items)
  BY <1>10 DEF RowRun
<1> QED
  BY <1>14, <1>15

(* What a row may change.                                                    *)
RowStates(d, q, p) ==
  [pc : {p.pc}, late : {p.late}, cut : BOOLEAN, visited : {p.visited}, edges : Nat, queue : Seq(TraceNodes(d, q)),
   seen : SUBSET Callable(AppOf[d], q.entry), owners : {p.owners}, intents : {p.intents}, n : {p.n}, bodies : {p.bodies},
   body : {p.body}, depth : {p.depth}, found : {p.found}, paths : {p.paths}]
RowsTaken(p, g, items, k) ==
  /\ p.seen \subseteq g.seen
  /\ ~g.cut => ~p.cut /\ \A j \in 1 .. k : items[j].target \in g.seen
  /\ \A x : InQueue(p.queue, x) => InQueue(g.queue, x)
  /\ \A x \in g.seen : x \in p.seen \/ InQueue(g.queue, x)

RowTakes(p, g, call) ==
  /\ p.seen \subseteq g.seen
  /\ ~g.cut => ~p.cut /\ call.target \in g.seen
  /\ \A x : InQueue(p.queue, x) => InQueue(g.queue, x)
  /\ \A x \in g.seen : x \in p.seen \/ InQueue(g.queue, x)

LEMMA RowTaken ==
  ASSUME NEW d, NEW q, NEW p, NEW node \in TraceNodes(d, q), NEW call \in CallsOf(d), call.source = node.key,
         NEW g \in RowStates(d, q, p)
  PROVE  Row(g, node.chain, call) \in RowStates(d, q, p) /\ RowTakes(g, Row(g, node.chain, call), call)
<1>1. PICK h : h = Row(g, node.chain, call)
  OBVIOUS
<1>2. /\ g.cut \in BOOLEAN /\ g.edges \in Nat /\ g.queue \in Seq(TraceNodes(d, q))
      /\ g.seen \in SUBSET Callable(AppOf[d], q.entry)
  BY DEF RowStates
<1>3. CASE Cardinality(g.seen) >= VisitedCap \/ g.edges >= EdgeCap
  <2>1. h = [g EXCEPT !.cut = TRUE]
    BY <1>1, <1>3 DEF Row
  <2>2. h \in RowStates(d, q, p) /\ h.cut = TRUE /\ h.seen = g.seen /\ h.queue = g.queue
    BY <2>1 DEF RowStates
  <2> QED
    BY <1>1, <2>2 DEF RowTakes
<1>4. CASE ~(Cardinality(g.seen) >= VisitedCap \/ g.edges >= EdgeCap) /\ call.target \in g.seen
  <2>1. h = [g EXCEPT !.edges = @ + 1]
    BY <1>1, <1>4 DEF Row
  <2>2. h \in RowStates(d, q, p) /\ h.cut = g.cut /\ h.seen = g.seen /\ h.queue = g.queue
    BY <1>2, <2>1 DEF RowStates
  <2> QED
    BY <1>1, <1>4, <2>2 DEF RowTakes
<1>5. CASE ~(Cardinality(g.seen) >= VisitedCap \/ g.edges >= EdgeCap) /\ call.target \notin g.seen
  <2> DEFINE next == [key |-> call.target, chain |-> Append(node.chain, call.target)]
             queue == Append(g.queue, next)
             seen == g.seen \cup {call.target}
  <2>1. h = [g EXCEPT !.edges = @ + 1, !.seen = seen, !.queue = queue]
    BY <1>1, <1>5 DEF Row
  <2>2. next \in TraceNodes(d, q)
    <3>1. /\ node.key \in Callable(AppOf[d], q.entry) /\ ChainOf(d, q, node.chain) /\ node.key = EndOf(q, node.chain)
      BY DEF TraceNodes
    <3>2. ChainOf(d, q, Append(node.chain, call.target)) /\ EndOf(q, Append(node.chain, call.target)) = call.target
      BY <3>1, ChainGrows
    <3>3. call.target \in Callable(AppOf[d], q.entry)
      BY <3>1, CallableIs DEF CallsSeen
    <3>4. Append(node.chain, call.target) \in Seq(CalledFrom(d, q))
      BY <3>2 DEF ChainOf
    <3> QED
      BY <3>2, <3>3, <3>4 DEF TraceNodes
  <2>3. next.key = call.target /\ call.target \in Callable(AppOf[d], q.entry)
    BY <2>2 DEF TraceNodes
  <2> HIDE DEF next
  <2>4. /\ queue \in Seq(TraceNodes(d, q)) /\ Len(queue) = Len(g.queue) + 1 /\ queue[Len(g.queue) + 1] = next
        /\ \A n \in 1 .. Len(g.queue) : queue[n] = g.queue[n]
    BY <1>2, <2>2
  <2>5. DOMAIN queue = 1 .. Len(g.queue) + 1 /\ DOMAIN g.queue = 1 .. Len(g.queue) /\ Len(g.queue) \in Nat
    BY <1>2, <2>4
  <2> HIDE DEF queue
  <2>6. \A x : InQueue(g.queue, x) => InQueue(queue, x)
    BY <2>4, <2>5 DEF InQueue
  <2>7. InQueue(queue, call.target)
    <3>1. Len(g.queue) + 1 \in DOMAIN queue
      BY <2>5
    <3> QED
      BY <2>3, <2>4, <3>1 DEF InQueue
  <2>8. seen \in SUBSET Callable(AppOf[d], q.entry)
    BY <1>2, <2>3
  <2> HIDE DEF seen
  <2>9. h \in RowStates(d, q, p) /\ h.cut = g.cut /\ h.seen = seen /\ h.queue = queue
    <3>1. PICK edges \in Nat : edges = g.edges + 1
      BY <1>2
    <3>2. h = [g EXCEPT !.edges = edges, !.seen = seen, !.queue = queue]
      BY <2>1, <3>1
    <3> QED
      BY <1>2, <2>4, <2>8, <3>2 DEF RowStates
  <2>10. \A x \in seen : x \in g.seen \/ x = call.target
    BY DEF seen
  <2>11. g.seen \subseteq seen /\ call.target \in seen
    BY DEF seen
  <2> QED
    BY <1>1, <2>6, <2>7, <2>9, <2>10, <2>11 DEF RowTakes
<1> QED
  BY <1>3, <1>4, <1>5

LEMMA RowsAreTaken ==
  ASSUME NEW d, NEW q, NEW node \in TraceNodes(d, q), NEW p, p \in RowStates(d, q, p),
         NEW items \in Seq({c \in CallsOf(d) : c.source = node.key}),
         NEW g, g = TakeRows(p, node.chain, items)
  PROVE  g \in RowStates(d, q, p) /\ RowsTaken(p, g, items, Len(items))
<1> DEFINE X == RowStates(d, q, p)
<1>1. \A k \in 1 .. Len(items) : items[k] \in CallsOf(d) /\ items[k].source = node.key
  OBVIOUS
<1>2. \A r \in X, k \in 1 .. Len(items) : Row(r, node.chain, items[k]) \in X
  BY <1>1, RowTaken
<1>3. PICK f \in [0 .. Len(items) -> X] : RowRun(f, p, node.chain, items)
  <2>1. p \in X
    OBVIOUS
  <2>2. PICK T : items \in Seq(T)
    OBVIOUS
  <2> HIDE DEF X
  <2> QED
    BY <1>2, <2>1, <2>2, RowRuns
<1>4. /\ f[0] = p /\ g = f[Len(items)] /\ Len(items) \in Nat
      /\ \A k \in 1 .. Len(items) : f[k] = Row(f[k - 1], node.chain, items[k])
  BY <1>3 DEF RowRun
<1> DEFINE V == {k \in Nat : k <= Len(items) => RowsTaken(p, f[k], items, k)}
<1>5. 0 \in V
  <2>1. 1 .. 0 = {}
    OBVIOUS
  <2>2. RowsTaken(p, p, items, 0)
    BY <2>1 DEF RowsTaken
  <2> QED
    BY <1>4, <2>2
<1>6. ASSUME NEW k \in Nat, k \in V PROVE k + 1 \in V
  <2> SUFFICES ASSUME k + 1 <= Len(items) PROVE RowsTaken(p, f[k + 1], items, k + 1)
    OBVIOUS
  <2>1. k + 1 \in 1 .. Len(items) /\ (k + 1) - 1 = k /\ k \in 0 .. Len(items) /\ k <= Len(items)
    BY <1>4
  <2>2. PICK a \in X : a = f[k]
    BY <2>1
  <2>3. PICK b : b = Row(a, node.chain, items[k + 1])
    OBVIOUS
  <2>4. f[k + 1] = b /\ RowsTaken(p, a, items, k)
    BY <1>4, <1>6, <2>1, <2>2, <2>3
  <2>5. /\ a.seen \subseteq b.seen
        /\ ~b.cut => ~a.cut /\ items[k + 1].target \in b.seen
        /\ \A x : InQueue(a.queue, x) => InQueue(b.queue, x)
        /\ \A x \in b.seen : x \in a.seen \/ InQueue(b.queue, x)
    <3>1. PICK call \in CallsOf(d) : call = items[k + 1] /\ call.source = node.key
      BY <1>1, <2>1
    <3>2. RowTakes(a, b, call)
      BY <2>2, <2>3, <3>1, RowTaken
    <3> QED
      BY <3>1, <3>2 DEF RowTakes
  <2>6. ~b.cut => ~p.cut /\ \A j \in 1 .. k + 1 : items[j].target \in b.seen
    <3> SUFFICES ASSUME ~b.cut PROVE ~p.cut /\ \A j \in 1 .. k + 1 : items[j].target \in b.seen
      OBVIOUS
    <3>1. ~p.cut /\ \A j \in 1 .. k : items[j].target \in a.seen
      BY <2>4, <2>5 DEF RowsTaken
    <3>2. \A j \in 1 .. k + 1 : j \in 1 .. k \/ j = k + 1
      OBVIOUS
    <3> QED
      BY <2>5, <3>1, <3>2
  <2>7. RowsTaken(p, b, items, k + 1)
    BY <2>4, <2>5, <2>6 DEF RowsTaken
  <2> QED
    BY <2>4, <2>7
<1>7. Len(items) \in V
  <2>1. Nat \subseteq V
    <3> HIDE DEF V
    <3> QED
      BY <1>5, <1>6, Induction
  <2> QED
    BY <1>4, <2>1
<1>8. Len(items) \in 0 .. Len(items)
  BY <1>4
<1> QED
  BY <1>3, <1>4, <1>7, <1>8

(* One function of the queue: its calls are seen then, and it is listed.     *)
LEMMA FunctionReached ==
  ASSUME NEW d \in Deployments, NEW q, NEW p, p \in TraceStates(p), p.pc = "trace.reach", AtReach(d, q, p), p.queue # <<>>,
         NEW owners, owners = IF p.queue[1].key \in AppOf[d].owners THEN Append(p.owners, p.queue[1]) ELSE p.owners,
         NEW page, PageHolds(page, {c \in CallsOf(d) : c.source = p.queue[1].key}),
         NEW b, b \in TraceStates(b), b.queue = Tail(p.queue), b.owners = owners, b.seen = p.seen,
         b.cut = (p.cut \/ page.truncated),
         NEW g, g = TakeRows(b, p.queue[1].chain, page.items)
  PROVE  g \in RowStates(d, q, b) /\ AtReach(d, q, g)
<1>1. PICK node : node = p.queue[1]
  OBVIOUS
<1>2. PICK rest : rest = Tail(p.queue)
  OBVIOUS
<1>3. p.queue \in Seq(TraceNodes(d, q)) /\ p.owners \in Seq(TraceOwners(d, q)) /\ p.seen \subseteq Callable(AppOf[d], q.entry)
  BY DEF AtReach
<1>4. /\ node \in TraceNodes(d, q) /\ rest \in Seq(TraceNodes(d, q))
      /\ \A x : InQueue(p.queue, x) => x = node.key \/ InQueue(rest, x)
  <2>1. /\ Len(p.queue) \in Nat \ {0} /\ DOMAIN p.queue = 1 .. Len(p.queue) /\ Len(rest) = Len(p.queue) - 1
        /\ rest \in Seq(TraceNodes(d, q)) /\ \A n \in 1 .. Len(rest) : rest[n] = p.queue[n + 1]
    BY <1>2, <1>3
  <2>2. DOMAIN rest = 1 .. Len(rest) /\ 1 \in 1 .. Len(p.queue)
    BY <2>1
  <2>3. ASSUME NEW n \in DOMAIN p.queue, n # 1 PROVE n - 1 \in DOMAIN rest /\ rest[n - 1] = p.queue[n]
    <3>1. n - 1 \in 1 .. Len(rest) /\ (n - 1) + 1 = n
      BY <2>1, <2>3
    <3> QED
      BY <2>1, <2>2, <3>1
  <2>4. \A x : InQueue(p.queue, x) => x = node.key \/ InQueue(rest, x)
    BY <1>1, <2>3 DEF InQueue
  <2>5. node \in TraceNodes(d, q)
    BY <1>1, <1>3, <2>2
  <2> QED
    BY <2>1, <2>4, <2>5
<1>5. owners \in Seq(TraceOwners(d, q)) /\ (\A k : ListedOwner(d, p.owners, k) => ListedOwner(d, owners, k)) /\ ListedOwner(d, owners, node.key)
  <2>1. CASE node.key \in AppOf[d].owners
    <3>1. owners = Append(p.owners, node) /\ node \in TraceOwners(d, q)
      BY <1>1, <1>4, <2>1 DEF TraceOwners
    <3>2. /\ owners \in Seq(TraceOwners(d, q)) /\ DOMAIN owners = 1 .. Len(p.owners) + 1 /\ DOMAIN p.owners = 1 .. Len(p.owners)
          /\ Len(p.owners) \in Nat /\ owners[Len(p.owners) + 1] = node /\ \A n \in 1 .. Len(p.owners) : owners[n] = p.owners[n]
      BY <1>3, <3>1
    <3>3. Len(p.owners) + 1 \in DOMAIN owners /\ \A n \in DOMAIN p.owners : n \in DOMAIN owners /\ owners[n] = p.owners[n]
      BY <3>2
    <3>4. InQueue(owners, node.key) /\ \A k : InQueue(p.owners, k) => InQueue(owners, k)
      BY <3>2, <3>3 DEF InQueue
    <3> QED
      BY <3>2, <3>4 DEF ListedOwner
  <2>2. CASE node.key \notin AppOf[d].owners
    BY <1>1, <1>3, <2>2 DEF ListedOwner
  <2> QED
    BY <2>1, <2>2
<1>6. p.cut \in BOOLEAN /\ page.truncated \in BOOLEAN /\ page.items \in Seq({c \in CallsOf(d) : c.source = node.key})
  BY <1>1 DEF TraceStates, PageHolds
<1>7. b \in RowStates(d, q, b)
  <2>1. b.queue \in Seq(TraceNodes(d, q)) /\ b.seen \in SUBSET Callable(AppOf[d], q.entry)
    BY <1>2, <1>3, <1>4
  <2> QED
    BY <2>1 DEF RowStates, TraceStates
<1>8. g \in RowStates(d, q, b) /\ RowsTaken(b, g, page.items, Len(page.items))
  BY <1>1, <1>4, <1>6, <1>7, RowsAreTaken
<1>9. /\ g.queue \in Seq(TraceNodes(d, q)) /\ g.owners = owners /\ g.seen \in SUBSET Callable(AppOf[d], q.entry)
  BY <1>8 DEF RowStates
<1>10. /\ p.seen \subseteq g.seen /\ (~g.cut => ~b.cut) /\ (\A x : InQueue(rest, x) => InQueue(g.queue, x))
       /\ \A x \in g.seen : x \in p.seen \/ InQueue(g.queue, x)
  BY <1>2, <1>8 DEF RowsTaken
<1>11. ASSUME ~g.cut, NEW k \in g.seen
       PROVE  InQueue(g.queue, k) \/ (CallsSeen(d, g.seen, k) /\ ListedOwner(d, owners, k))
  <2>1. ~p.cut /\ ~page.truncated
    BY <1>6, <1>10, <1>11
  <2>2. CASE k = node.key
    <3>1. CallsSeen(d, g.seen, k)
      <4> SUFFICES ASSUME NEW c \in CallsOf(d), c.source = k PROVE c.target \in g.seen
        BY DEF CallsSeen
      <4>1. PICK n \in DOMAIN page.items : page.items[n] = c
        BY <1>1, <2>1, <2>2 DEF PageHolds
      <4>2. n \in 1 .. Len(page.items)
        BY <1>6, <4>1
      <4> QED
        BY <1>8, <1>11, <4>1, <4>2 DEF RowsTaken
    <3> QED
      BY <1>5, <2>2, <3>1
  <2>3. CASE k \in p.seen /\ k # node.key
    <3>1. InQueue(p.queue, k) \/ (CallsSeen(d, p.seen, k) /\ ListedOwner(d, p.owners, k))
      BY <2>1, <2>3 DEF AtReach
    <3>2. CallsSeen(d, p.seen, k) => CallsSeen(d, g.seen, k)
      BY <1>10 DEF CallsSeen
    <3> QED
      BY <1>4, <1>5, <1>10, <2>3, <3>1, <3>2
  <2> QED
    BY <1>10, <1>11, <2>2, <2>3
<1>12. q.entry # None /\ q.entry \in g.seen
  BY <1>10 DEF AtReach
<1> QED
  BY <1>5, <1>8, <1>9, <1>11, <1>12 DEF AtReach

LEMMA PythonReached == TraceInv /\ ReachPython => TraceInv'
<1> SUFFICES ASSUME TraceInv, ReachPython PROVE TraceInv'
  OBVIOUS
<1>1. PICK d, q : d = request.served /\ q = request.question
  OBVIOUS
<1>2. progress.pc = "trace.reach" /\ progress.pc # "idle" /\ request' = request
  BY DEF ReachPython
<1>3. d \in Deployments /\ progress \in TraceStates(progress) /\ TracePlace(d, q, progress)
  BY <1>1, <1>2, TraceAtHand
<1>4. /\ OneGiven(q) /\ progress.n = 1 /\ progress.intents = <<>> /\ progress.intents \in Seq(Leads(d, q))
      /\ progress.paths \in Seq(GoodPaths(d, q)) /\ 1 <= Len(progress.intents) + 1 /\ AtReach(d, q, progress)
  BY <1>2, <1>3 DEF TracePlace
<1>5. progress.cut \in BOOLEAN /\ progress.visited \in Nat /\ progress.edges \in Nat
  BY <1>3 DEF TraceStates
<1>6. CASE progress.queue = <<>> \/ Spent
  <2>1. PICK cut \in BOOLEAN : /\ progress' = [progress EXCEPT !.pc = "trace.owned", !.cut = cut]
                               /\ ~cut => ~progress.cut /\ progress.queue = <<>>
    <3>1. CASE progress.queue = <<>>
      <4>1. progress' = [progress EXCEPT !.pc = "trace.owned"]
        BY <3>1 DEF ReachPython
      <4>2. progress' = [progress EXCEPT !.pc = "trace.owned", !.cut = progress.cut]
        BY <1>3, <4>1 DEF TraceStates
      <4> QED
        BY <1>5, <3>1, <4>2
    <3>2. CASE progress.queue # <<>> /\ Spent
      <4>1. progress' = [progress EXCEPT !.pc = "trace.owned", !.cut = TRUE]
        BY <3>2 DEF ReachPython
      <4> QED
        BY <4>1
    <3> QED
      BY <1>6, <3>1, <3>2
  <2>2. /\ progress' \in TraceStates(progress') /\ progress'.pc = "trace.owned" /\ progress'.cut = cut /\ progress'.n = 1
        /\ progress'.intents = progress.intents /\ progress'.paths = progress.paths /\ progress'.owners = progress.owners
    BY <1>3, <1>4, <2>1 DEF TraceStates, TraceSteps
  <2>3. ASSUME ~cut, NEW i \in Intents(d), AskedIn(d, q, i) PROVE InQueue(progress.owners, i.owner)
    <3>1. ~progress.cut /\ progress.queue = <<>>
      BY <2>1, <2>3
    <3>2. \A x : ~InQueue(progress.queue, x)
      BY <3>1 DEF InQueue
    <3>3. \A k \in progress.seen : CallsSeen(d, progress.seen, k) /\ ListedOwner(d, progress.owners, k)
      BY <1>4, <3>1, <3>2 DEF AtReach
    <3>4. progress.seen = Callable(AppOf[d], q.entry)
      <4>1. progress.seen \in SUBSET Callable(AppOf[d], q.entry) /\ q.entry \in progress.seen
        BY <1>4 DEF AtReach
      <4> QED
        BY <3>3, <4>1, CallableIs
    <3>5. q.entry # None /\ q.evidence = None /\ q.path = None
      BY <1>4 DEF AtReach, OneGiven
    <3>6. i.owner \in Callable(AppOf[d], q.entry) /\ i.owner \in AppOf[d].owners
      BY <2>3, <3>5 DEF AskedIn
    <3> QED
      BY <3>3, <3>4, <3>6 DEF ListedOwner
  <2>4. AtOwned(d, q, progress')
    BY <1>4, <2>2, <2>3 DEF AtOwned, AtReach
  <2>5. TracePlace(d, q, progress')
    BY <1>4, <2>2, <2>4 DEF TracePlace
  <2> QED
    BY <1>1, <1>2, <2>2, <2>5, TraceGoesOn
<1>7. CASE progress.queue # <<>> /\ ~Spent
  <2>1. PICK node : node = progress.queue[1]
    OBVIOUS
  <2>2. PICK owners : owners = IF node.key \in AppOf[d].owners THEN Append(progress.owners, node) ELSE progress.owners
    OBVIOUS
  <2>3. PICK page : page = Calls(App, node.key)
    OBVIOUS
  <2>4. PICK visited \in Nat : visited = progress.visited + 1
    BY <1>5
  <2>5. PICK rest : rest = Tail(progress.queue)
    OBVIOUS
  <2>6. PICK base : base = [progress EXCEPT !.queue = rest, !.visited = visited, !.owners = owners]
    OBVIOUS
  <2>7. progress' = Frontier(base, node, page)
    <3>1. progress' = ReachOne(node)
      BY <1>7, <2>1, Zenon DEF ReachPython
    <3>2. base = [progress EXCEPT !.queue = Tail(@), !.visited = @ + 1,
                                  !.owners = IF node.key \in App.owners THEN Append(@, node) ELSE @]
      BY <1>1, <2>2, <2>4, <2>5, <2>6 DEF App
    <3> QED
      BY <2>3, <3>1, <3>2, Zenon DEF ReachOne
  <2>8. PageHolds(page, {c \in CallsOf(d) : c.source = node.key})
    <3>1. AppOf[d].calls \in Seq(CallsOf(d)) /\ ToSet(AppOf[d].calls) = CallsOf(d) /\ PageSize \in Nat
      BY <1>3, TraceAssumption DEF CallsOf
    <3>2. page = Page(Among(AppOf[d].calls, {c \in CallsOf(d) : c.source = node.key}), PageSize)
      BY <1>1, <2>3, <3>1 DEF Calls, App
    <3>3. PageHolds(page, CallsOf(d) \cap {c \in CallsOf(d) : c.source = node.key})
      BY <3>1, <3>2, PageOfSome
    <3>4. CallsOf(d) \cap {c \in CallsOf(d) : c.source = node.key} = {c \in CallsOf(d) : c.source = node.key}
      OBVIOUS
    <3> QED
      BY <3>3, <3>4
  <2>9. page.truncated \in BOOLEAN
    BY <2>8 DEF PageHolds
  <2>10. CASE Len(node.chain) >= request.question.depth
    <3>1. progress' = [base EXCEPT !.cut = TRUE]
      BY <2>7, <2>10 DEF Frontier
    <3>2. progress' = [progress EXCEPT !.queue = rest, !.visited = visited, !.owners = owners, !.cut = TRUE]
      BY <2>6, <3>1
    <3>3. /\ progress' \in TraceStates(progress') /\ progress'.pc = "trace.reach" /\ progress'.cut = TRUE /\ progress'.n = 1
          /\ progress'.intents = <<>> /\ progress'.paths = progress.paths /\ progress'.owners = owners
          /\ progress'.queue = rest /\ progress'.seen = progress.seen
      BY <1>2, <1>3, <1>4, <2>4, <3>2 DEF TraceStates, TraceSteps
    <3>4. rest \in Seq(TraceNodes(d, q)) /\ owners \in Seq(TraceOwners(d, q))
      <4>1. progress.queue \in Seq(TraceNodes(d, q)) /\ progress.owners \in Seq(TraceOwners(d, q)) /\ Len(progress.queue) \in Nat \ {0}
        BY <1>4, <1>7 DEF AtReach
      <4>2. rest \in Seq(TraceNodes(d, q)) /\ node \in TraceNodes(d, q)
        BY <2>1, <2>5, <4>1
      <4>3. node.key \in AppOf[d].owners => node \in TraceOwners(d, q)
        BY <4>2 DEF TraceOwners
      <4> QED
        BY <2>2, <4>1, <4>2, <4>3
    <3>5. AtReach(d, q, progress')
      BY <1>4, <3>3, <3>4 DEF AtReach
    <3>6. TracePlace(d, q, progress')
      BY <1>4, <3>3, <3>5 DEF TracePlace
    <3> QED
      BY <1>1, <1>2, <3>3, <3>6, TraceGoesOn
  <2>11. CASE ~(Len(node.chain) >= request.question.depth)
    <3>1. PICK cut \in BOOLEAN : cut = (progress.cut \/ page.truncated)
      BY <1>5, <2>9
    <3>2. PICK turned : turned = [progress EXCEPT !.queue = rest, !.visited = visited, !.owners = owners, !.cut = cut]
      OBVIOUS
    <3>3. progress' = TakeRows(turned, node.chain, page.items)
      <4>1. turned = [base EXCEPT !.cut = @ \/ page.truncated]
        BY <1>3, <2>6, <3>1, <3>2 DEF TraceStates
      <4> QED
        BY <2>7, <2>11, <4>1, Zenon DEF Frontier
    <3>4. /\ turned \in TraceStates(turned) /\ turned.pc = "trace.reach" /\ turned.cut = cut /\ turned.n = 1
          /\ turned.intents = <<>> /\ turned.paths = progress.paths /\ turned.owners = owners
          /\ turned.queue = rest /\ turned.seen = progress.seen
      BY <1>2, <1>3, <1>4, <2>4, <3>2 DEF TraceStates, TraceSteps
    <3>5. progress' \in RowStates(d, q, turned) /\ AtReach(d, q, progress')
      BY <1>2, <1>3, <1>4, <1>7, <2>1, <2>2, <2>5, <2>8, <3>1, <3>3, <3>4, FunctionReached
    <3>6. /\ progress' \in TraceStates(progress') /\ progress'.pc = "trace.reach" /\ progress'.n = 1
          /\ progress'.intents = <<>> /\ progress'.paths = progress.paths
      BY <3>4, <3>5 DEF RowStates, TraceStates
    <3>7. TracePlace(d, q, progress')
      BY <1>4, <3>5, <3>6 DEF TracePlace
    <3> QED
      BY <1>1, <1>2, <3>6, <3>7, TraceGoesOn
  <2> QED
    BY <2>10, <2>11
<1> QED
  BY <1>6, <1>7

-----------------------------------------------------------------------------
(* Without its first element a queue holds all but that one.                 *)
Parted(T, queue, first, rest) ==
  /\ first \in T /\ rest \in Seq(T)
  /\ \A n \in DOMAIN queue : queue[n] = first \/ \E m \in DOMAIN rest : rest[m] = queue[n]
LEMMA QueueIsParted ==
  ASSUME NEW T, NEW queue, NEW first, NEW rest,
         queue \in Seq(T), queue # <<>>, first = queue[1], rest = Tail(queue)
  PROVE  Parted(T, queue, first, rest)
<1>1. /\ Len(queue) \in Nat \ {0} /\ DOMAIN queue = 1 .. Len(queue) /\ Len(rest) = Len(queue) - 1
      /\ rest \in Seq(T) /\ \A n \in 1 .. Len(rest) : rest[n] = queue[n + 1]
  OBVIOUS
<1>2. DOMAIN rest = 1 .. Len(rest) /\ 1 \in 1 .. Len(queue) /\ first \in T
  BY <1>1
<1>3. ASSUME NEW n \in DOMAIN queue, n # 1 PROVE n - 1 \in DOMAIN rest /\ rest[n - 1] = queue[n]
  <2>1. n - 1 \in 1 .. Len(rest) /\ (n - 1) + 1 = n
    BY <1>1, <1>3
  <2> QED
    BY <1>1, <1>2, <2>1
<1>4. \A n \in DOMAIN queue : queue[n] = first \/ \E m \in DOMAIN rest : rest[m] = queue[n]
  BY <1>3
<1> QED
  BY <1>1, <1>2, <1>4 DEF Parted

(* What one of two lists holds, both together hold.                          *)
HeldIn(list, i) == \E n \in DOMAIN list : list[n].of = i
LEMMA HeldInBoth ==
  ASSUME NEW T, NEW s \in Seq(T), NEW t \in Seq(T)
  PROVE  s \o t \in Seq(T) /\ Len(s \o t) \in Nat /\ \A i : HeldIn(s, i) \/ HeldIn(t, i) => HeldIn(s \o t, i)
<1>1. PICK st : st = s \o t
  OBVIOUS
<1>2. /\ st \in Seq(T) /\ Len(s) \in Nat /\ Len(t) \in Nat /\ Len(st) = Len(s) + Len(t)
      /\ \A n \in 1 .. Len(s) + Len(t) : st[n] = IF n <= Len(s) THEN s[n] ELSE t[n - Len(s)]
  BY <1>1, ConcatProperties
<1>3. DOMAIN s = 1 .. Len(s) /\ DOMAIN t = 1 .. Len(t) /\ DOMAIN st = 1 .. Len(s) + Len(t)
  BY <1>2
<1>4. ASSUME NEW n \in DOMAIN s PROVE n \in DOMAIN st /\ st[n] = s[n]
  BY <1>2, <1>3, <1>4
<1>5. ASSUME NEW n \in DOMAIN t PROVE n + Len(s) \in DOMAIN st /\ st[n + Len(s)] = t[n]
  <2>1. n + Len(s) \in 1 .. Len(s) + Len(t) /\ ~(n + Len(s) <= Len(s)) /\ (n + Len(s)) - Len(s) = n
    BY <1>2, <1>3, <1>5
  <2> QED
    BY <1>2, <1>3, <2>1
<1>6. \A i : HeldIn(s, i) \/ HeldIn(t, i) => HeldIn(st, i)
  BY <1>4, <1>5 DEF HeldIn
<1> QED
  BY <1>1, <1>2, <1>6

(* The evidence of one reached owner is evidence asked for.                  *)
LEMMA OwnerHeld ==
  ASSUME NEW d \in Deployments, NEW q, OneGiven(q), q.entry # None, NEW owner \in TraceOwners(d, q),
         NEW page, page = Page(Among(AppOf[d].intents, {i \in Intents(d) : i.owner = owner.key}), EvidenceCap)
  PROVE  /\ HeldWith(page, owner.chain) \in Seq(Leads(d, q)) /\ page.truncated \in BOOLEAN
         /\ ~page.truncated => \A i \in Intents(d) : i.owner = owner.key => HeldIn(HeldWith(page, owner.chain), i)
<1> DEFINE S == {i \in Intents(d) : i.owner = owner.key}
           held == HeldWith(page, owner.chain)
<1>1. AppOf[d].intents \in Seq(Intents(d)) /\ ToSet(AppOf[d].intents) = Intents(d) /\ EvidenceCap \in Nat
  BY TraceAssumption DEF Intents
<1>2. page.items \in Seq(S) /\ page.truncated \in BOOLEAN
      /\ (~page.truncated => \A x \in S : \E n \in DOMAIN page.items : page.items[n] = x)
  <2>1. PageHolds(page, Intents(d) \cap S)
    BY <1>1, PageOfSome
  <2>2. Intents(d) \cap S = S
    OBVIOUS
  <2> QED
    BY <2>1, <2>2 DEF PageHolds
<1>3. /\ owner.chain \in Seq(CalledFrom(d, q)) /\ ChainOf(d, q, owner.chain) /\ owner.key = EndOf(q, owner.chain)
      /\ owner.key \in Callable(AppOf[d], q.entry) /\ owner.key \in AppOf[d].owners
  BY DEF TraceOwners, TraceNodes
<1>4. ASSUME NEW i \in S PROVE [of |-> i, chain |-> owner.chain] \in Leads(d, q)
  <2>1. i \in Intents(d) /\ i.owner = owner.key
    BY <1>4
  <2>2. AskedIn(d, q, i)
    BY <1>3, <2>1 DEF OneGiven, AskedIn
  <2>3. Leading(d, q, i, owner.chain)
    BY <1>3, <2>1, <2>2 DEF Leading
  <2> QED
    BY <1>3, <2>1, <2>3 DEF Leads
<1> HIDE DEF S
<1>5. PICK items : items = page.items
  OBVIOUS
<1>6. held \in Seq(Leads(d, q))
  <2>1. items \in Seq(S)
    BY <1>2, <1>5
  <2>2. DOMAIN items = 1 .. Len(items) /\ Len(items) \in Nat /\ \A n \in 1 .. Len(items) : items[n] \in S
    BY <2>1
  <2>3. \A n \in 1 .. Len(items) : [of |-> items[n], chain |-> owner.chain] \in Leads(d, q)
    BY <1>4, <2>2
  <2>4. held = [n \in 1 .. Len(items) |-> [of |-> items[n], chain |-> owner.chain]]
    BY <1>5, <2>2 DEF HeldWith
  <2> HIDE DEF held
  <2> QED
    BY <2>2, <2>3, <2>4
<1>7. \A n \in DOMAIN page.items : n \in DOMAIN held /\ held[n].of = page.items[n]
  BY DEF HeldWith
<1> HIDE DEF held
<1>8. ASSUME ~page.truncated, NEW i \in Intents(d), i.owner = owner.key PROVE HeldIn(held, i)
  <2>1. i \in S
    BY <1>8 DEF S
  <2> QED
    BY <1>2, <1>7, <1>8, <2>1 DEF HeldIn
<1> QED
  BY <1>2, <1>6, <1>8 DEF held

LEMMA OwnedIsCollected == TraceInv /\ CollectOwned => TraceInv'
<1> SUFFICES ASSUME TraceInv, CollectOwned PROVE TraceInv'
  OBVIOUS
<1>1. PICK d, q : d = request.served /\ q = request.question
  OBVIOUS
<1>2. progress.pc = "trace.owned" /\ progress.pc # "idle" /\ request' = request
  BY DEF CollectOwned
<1>3. d \in Deployments /\ progress \in TraceStates(progress) /\ TracePlace(d, q, progress)
  BY <1>1, <1>2, TraceAtHand
<1>4. /\ OneGiven(q) /\ progress.n = 1 /\ progress.intents \in Seq(Leads(d, q))
      /\ progress.paths \in Seq(GoodPaths(d, q)) /\ AtOwned(d, q, progress)
  BY <1>2, <1>3 DEF TracePlace
<1>5. progress.cut \in BOOLEAN /\ q.entry # None /\ progress.owners \in Seq(TraceOwners(d, q))
  BY <1>3, <1>4 DEF TraceStates, AtOwned
<1>6. CASE progress.owners = <<>>
  <2>1. progress' = [progress EXCEPT !.pc = "trace.target"]
    BY <1>6 DEF CollectOwned
  <2>2. /\ progress' \in TraceStates(progress') /\ progress'.pc = "trace.target" /\ progress'.cut = progress.cut
        /\ progress'.intents = progress.intents /\ progress'.n = 1 /\ progress'.paths = progress.paths
    BY <1>3, <1>4, <2>1 DEF TraceStates, TraceSteps
  <2>3. Gathered(d, q, progress')
    <3>1. \A k : ~InQueue(progress.owners, k)
      BY <1>6 DEF InQueue
    <3>2. \A i : Held(progress, i) => Held(progress', i)
      BY <2>2 DEF Held
    <3> QED
      BY <1>4, <2>2, <3>1, <3>2 DEF AtOwned, Gathered
  <2>4. 1 <= Len(progress.intents) + 1
    BY <1>4
  <2>5. TracePlace(d, q, progress')
    BY <1>4, <2>2, <2>3, <2>4 DEF TracePlace
  <2> QED
    BY <1>1, <1>2, <2>2, <2>5, TraceGoesOn
<1>7. CASE progress.owners # <<>>
  <2>1. PICK owner : owner = progress.owners[1]
    OBVIOUS
  <2>2. PICK rest : rest = Tail(progress.owners)
    OBVIOUS
  <2>3. /\ owner \in TraceOwners(d, q) /\ rest \in Seq(TraceOwners(d, q))
        /\ \A n \in DOMAIN progress.owners : progress.owners[n] = owner \/ \E m \in DOMAIN rest : rest[m] = progress.owners[n]
    <3>1. PICK list : list = progress.owners
      OBVIOUS
    <3>2. list \in Seq(TraceOwners(d, q)) /\ list # <<>> /\ rest = Tail(list) /\ owner = list[1]
      BY <1>5, <1>7, <2>1, <2>2, <3>1
    <3>3. Parted(TraceOwners(d, q), list, owner, rest)
      BY <3>2, QueueIsParted
    <3> QED
      BY <3>1, <3>3 DEF Parted
  <2>4. PICK page : page = Page(Among(AppOf[d].intents, {i \in Intents(d) : i.owner = owner.key}), EvidenceCap)
    OBVIOUS
  <2>5. PICK held : held = HeldWith(page, owner.chain)
    OBVIOUS
  <2>6. PICK all : all = progress.intents \o held
    OBVIOUS
  <2>7. /\ held \in Seq(Leads(d, q)) /\ page.truncated \in BOOLEAN
        /\ ~page.truncated => \A i \in Intents(d) : i.owner = owner.key => HeldIn(held, i)
    BY <1>3, <1>4, <1>5, <2>3, <2>4, <2>5, OwnerHeld
  <2>8. /\ all \in Seq(Leads(d, q)) /\ Len(all) \in Nat
        /\ \A i : HeldIn(progress.intents, i) \/ HeldIn(held, i) => HeldIn(all, i)
    BY <1>4, <2>6, <2>7, HeldInBoth
  <2>9. progress' = Collect(progress, all, page.truncated)
    <3>1. IntentsForOwner(App, owner.key, EvidenceCap) = page
      BY <1>1, <2>4 DEF IntentsForOwner, App, Intents
    <3>2. progress' = OwnedBy(owner, page)
      BY <1>7, <2>1, <3>1 DEF CollectOwned
    <3> QED
      BY <2>5, <2>6, <3>2 DEF OwnedBy, HeldWith
  <2>10. CASE Len(all) >= IntentCap
    <3>1. PICK some : some = SubSeq(all, 1, IntentCap)
      OBVIOUS
    <3>2. progress' = [progress EXCEPT !.owners = <<>>, !.cut = TRUE, !.intents = some]
      BY <2>9, <2>10, <3>1 DEF Collect
    <3>3. some \in Seq(Leads(d, q)) /\ Len(some) \in Nat
      <4>1. IntentCap \in 0 .. Len(all)
        BY <2>8, <2>10, TraceAssumption
      <4> QED
        BY <2>8, <3>1, <4>1, BeginningOf
    <3>4. /\ progress' \in TraceStates(progress') /\ progress'.pc = "trace.owned" /\ progress'.cut = TRUE
          /\ progress'.intents = some /\ progress'.n = 1 /\ progress'.paths = progress.paths /\ progress'.owners = <<>>
      BY <1>2, <1>3, <1>4, <3>2 DEF TraceStates, TraceSteps
    <3>5. <<>> \in Seq(TraceOwners(d, q)) /\ 1 <= Len(some) + 1
      BY <3>3
    <3>6. AtOwned(d, q, progress')
      BY <1>5, <3>4, <3>5 DEF AtOwned
    <3>7. TracePlace(d, q, progress')
      BY <1>4, <3>3, <3>4, <3>5, <3>6 DEF TracePlace
    <3> QED
      BY <1>1, <1>2, <3>4, <3>7, TraceGoesOn
  <2>11. CASE ~(Len(all) >= IntentCap)
    <3>1. PICK cut \in BOOLEAN : cut = (progress.cut \/ page.truncated)
      BY <1>5, <2>7
    <3>2. progress' = [progress EXCEPT !.owners = rest, !.intents = all, !.cut = cut]
      <4>1. progress' = [progress EXCEPT !.owners = Tail(@), !.intents = all, !.cut = @ \/ page.truncated]
        BY <2>9, <2>11, Zenon DEF Collect
      <4> QED
        BY <1>3, <2>2, <3>1, <4>1 DEF TraceStates
    <3>3. /\ progress' \in TraceStates(progress') /\ progress'.pc = "trace.owned" /\ progress'.cut = cut
          /\ progress'.intents = all /\ progress'.n = 1 /\ progress'.paths = progress.paths /\ progress'.owners = rest
      BY <1>2, <1>3, <1>4, <3>2 DEF TraceStates, TraceSteps
    <3>4. ASSUME ~cut, NEW i \in Intents(d), AskedIn(d, q, i) PROVE HeldIn(all, i) \/ InQueue(rest, i.owner)
      <4>1. HeldIn(progress.intents, i) \/ InQueue(progress.owners, i.owner)
        BY <1>4, <3>1, <3>4 DEF AtOwned, Held, HeldIn
      <4>2. i.owner # owner.key /\ InQueue(progress.owners, i.owner) => InQueue(rest, i.owner)
        BY <2>3 DEF InQueue
      <4> QED
        BY <2>7, <2>8, <3>1, <3>4, <4>1, <4>2
    <3>5. AtOwned(d, q, progress')
      BY <1>5, <2>3, <3>3, <3>4 DEF AtOwned, Held, HeldIn
    <3>6. 1 <= Len(all) + 1
      BY <2>8
    <3>7. TracePlace(d, q, progress')
      BY <1>4, <2>8, <3>3, <3>5, <3>6 DEF TracePlace
    <3> QED
      BY <1>1, <1>2, <3>3, <3>7, TraceGoesOn
  <2> QED
    BY <2>10, <2>11
<1> QED
  BY <1>6, <1>7

LEMMA TargetIsChecked == TraceInv /\ CheckTarget => TraceInv'
<1> SUFFICES ASSUME TraceInv, CheckTarget PROVE TraceInv'
  OBVIOUS
<1>1. PICK d, q : d = request.served /\ q = request.question
  OBVIOUS
<1>2. progress.pc = "trace.target" /\ progress.pc # "idle"
  BY DEF CheckTarget
<1>3. progress \in TraceStates(progress) /\ TracePlace(d, q, progress)
  BY <1>1, <1>2, TraceAtHand
<1>4. /\ OneGiven(q) /\ progress.n = 1 /\ progress.intents \in Seq(Leads(d, q)) /\ progress.n <= Len(progress.intents) + 1
      /\ progress.paths \in Seq(GoodPaths(d, q)) /\ Gathered(d, q, progress)
  BY <1>2, <1>3 DEF TracePlace
<1>5. CASE Answer("not_found")
  BY <1>5, TraceIsAnswered
<1>6. CASE progress' = [progress EXCEPT !.pc = "trace.intents"] /\ request' = request
  <2>1. /\ progress' \in TraceStates(progress') /\ progress'.pc = "trace.intents" /\ progress'.cut = progress.cut
        /\ progress'.intents = progress.intents /\ progress'.n = 1 /\ progress'.paths = progress.paths
    BY <1>3, <1>4, <1>6 DEF TraceStates, TraceSteps
  <2>2. Gathered(d, q, progress') /\ Followed(d, q, progress', 0)
    <3>1. \A i : Held(progress, i) => Held(progress', i)
      BY <2>1 DEF Held
    <3>2. 1 .. 0 = {}
      OBVIOUS
    <3> QED
      BY <1>4, <2>1, <3>1, <3>2 DEF Gathered, Followed
  <2>3. progress'.n - 1 = 0
    BY <2>1
  <2>4. TracePlace(d, q, progress')
    BY <1>4, <2>1, <2>2, <2>3 DEF TracePlace
  <2> QED
    BY <1>1, <1>6, <2>1, <2>4, TraceGoesOn
<1> QED
  BY <1>5, <1>6 DEF CheckTarget

(* What place a trace has depends on nothing but these.                      *)
LEMMA PlaceStays ==
  ASSUME NEW d, NEW q, NEW p, TracePlace(d, q, p), NEW r, r.pc = p.pc, r.cut = p.cut, r.queue = p.queue, r.seen = p.seen,
         r.owners = p.owners, r.intents = p.intents, r.n = p.n, r.bodies = p.bodies, r.body = p.body, r.depth = p.depth,
         r.found = p.found, r.paths = p.paths
  PROVE  TracePlace(d, q, r)
<1>1. (AtReach(d, q, p) => AtReach(d, q, r)) /\ (\A i : Held(p, i) => Held(r, i))
  BY DEF AtReach, Held
<1>2. (AtOwned(d, q, p) => AtOwned(d, q, r)) /\ (Gathered(d, q, p) => Gathered(d, q, r))
  BY <1>1 DEF AtOwned, Gathered
<1>3. \A m : Followed(d, q, p, m) => Followed(d, q, r, m)
  BY DEF Followed
<1>4. Lead(r) = Lead(p) /\ Searched(r) = Searched(p)
  BY DEF Lead, Searched
<1>5. UsedBy(q, r) = UsedBy(q, p)
  BY <1>4 DEF UsedBy
<1>6. \A body : AtBodies(d, q, p, body) => AtBodies(d, q, r, body)
  BY <1>4 DEF AtBodies
<1>7. \A start : Searching(d, start, q.target, p) => Searching(d, start, q.target, r)
  BY DEF Searching
<1>8. AtSearch(d, q, p) => AtSearch(d, q, r)
  BY <1>4, <1>5, <1>6, <1>7 DEF AtSearch
<1> QED
  BY <1>1, <1>2, <1>3, <1>6, <1>8 DEF TracePlace

LEMMA TraceIsLate == TraceInv /\ TraceExpire => TraceInv'
<1> SUFFICES ASSUME TraceInv, TraceExpire PROVE TraceInv'
  OBVIOUS
<1>1. PICK d, q : d = request.served /\ q = request.question
  OBVIOUS
<1>2. progress.pc # "idle" /\ request' = request /\ progress' = [progress EXCEPT !.late = TRUE]
  BY DEF TraceExpire, Expire, TraceSteps
<1>3. progress \in TraceStates(progress) /\ TracePlace(d, q, progress)
  BY <1>1, <1>2, TraceAtHand
<1>4. /\ progress'.pc = progress.pc /\ progress'.cut = progress.cut /\ progress'.queue = progress.queue
      /\ progress'.seen = progress.seen /\ progress'.owners = progress.owners /\ progress'.intents = progress.intents
      /\ progress'.n = progress.n /\ progress'.bodies = progress.bodies /\ progress'.body = progress.body
      /\ progress'.depth = progress.depth /\ progress'.found = progress.found /\ progress'.paths = progress.paths
      /\ progress' \in TraceStates(progress')
  BY <1>2, <1>3 DEF TraceStates
<1>5. TracePlace(d, q, progress')
  BY <1>3, <1>4, PlaceStays
<1> QED
  BY <1>1, <1>2, <1>4, <1>5, TraceGoesOn

LEMMA PathsAreReported == TraceInv /\ ReportPaths => TraceInv'
<1> SUFFICES ASSUME TraceInv, ReportPaths PROVE TraceInv'
  OBVIOUS
<1>1. PICK d, q : d = request.served /\ q = request.question
  OBVIOUS
<1>2. progress.pc = "trace.answer" /\ progress.pc # "idle" /\ progress' = Idle
  BY DEF ReportPaths
<1>3. /\ progress \in TraceStates(progress) /\ TracePlace(d, q, progress) /\ q.limit \in Nat \ {0}
      /\ request \in TraceRequests(request)
  BY <1>1, <1>2, TraceAtHand
<1>4. PICK paths, cut, limit : paths = progress.paths /\ cut = progress.cut /\ limit = q.limit
  OBVIOUS
<1>5. /\ paths \in Seq(GoodPaths(d, q)) /\ Len(paths) \in Nat /\ cut \in BOOLEAN /\ limit \in Nat \ {0}
      /\ ~cut /\ Len(paths) < limit => AllIn(d, q) \subseteq Briefs(paths)
  BY <1>2, <1>3, <1>4 DEF TracePlace, TraceStates
<1>6. PICK m \in 0 .. Len(paths) : m = IF Len(paths) < limit THEN Len(paths) ELSE limit
  BY <1>5
<1>7. PICK some : some = SubSeq(paths, 1, m)
  OBVIOUS
<1>8. some \in Seq(GoodPaths(d, q)) /\ Len(some) = m /\ \A n \in 1 .. m : some[n] = paths[n]
  BY <1>5, <1>6, <1>7, BeginningOf
<1>9. PICK status : status = IF progress.paths = <<>> THEN "unresolved" ELSE "ok"
  OBVIOUS
<1>10. PICK truncated : truncated = (progress.cut \/ Len(progress.intents) >= EvidenceCap)
  OBVIOUS
<1>11. truncated \in BOOLEAN /\ (~truncated => ~cut)
  BY <1>4, <1>5, <1>10
<1>12. request' = [request EXCEPT !.status = status, !.paths = some, !.truncated = truncated]
  BY <1>1, <1>4, <1>6, <1>7, <1>9, <1>10 DEF ReportPaths
<1>13. /\ request' \in TraceRequests(request') /\ request'.paths = some /\ request'.truncated = truncated
       /\ request'.served = d /\ request'.question = q
  BY <1>1, <1>3, <1>9, <1>11, <1>12 DEF TraceRequests
<1>14. ASSUME ~truncated, Len(some) < limit PROVE AllIn(d, q) \subseteq Briefs(some)
  <2>1. m = Len(paths) /\ Len(paths) < limit
    BY <1>5, <1>6, <1>8, <1>14
  <2>2. DOMAIN some = DOMAIN paths /\ \A n \in DOMAIN paths : some[n] = paths[n]
    BY <1>5, <1>8, <2>1
  <2>3. Briefs(some) = Briefs(paths)
    BY <2>2 DEF Briefs
  <2> QED
    BY <1>5, <1>11, <1>14, <2>1, <2>3
<1>15. TraceAnswers(d, q, request')
  BY <1>4, <1>8, <1>13, <1>14 DEF TraceAnswers
<1> QED
  BY <1>2, <1>13, <1>15 DEF TraceInv

-----------------------------------------------------------------------------
(* What is so while evidence is followed.                                    *)
TraceHolds(d, q, p) ==
  /\ OneGiven(q) /\ p.intents \in Seq(Leads(d, q)) /\ p.paths \in Seq(GoodPaths(d, q)) /\ p.n <= Len(p.intents) + 1
  /\ Gathered(d, q, p)
TraceStands(d, q, p) == p \in TraceStates(p) /\ TracePlace(d, q, p)

LEMMA LeadIs ==
  ASSUME NEW d, NEW q, NEW p, p.intents \in Seq(Leads(d, q)), p.n \in Nat, p.n >= 2, p.n <= Len(p.intents) + 1
  PROVE  /\ Lead(p) \in Leads(d, q) /\ Lead(p).of \in Intents(d) /\ Leading(d, q, Lead(p).of, Lead(p).chain)
         /\ Lead(p).chain \in Seq(CalledFrom(d, q)) /\ Len(Lead(p).chain) \in Nat /\ Entry(q) \in Nat /\ UsedBy(q, p) \in Nat
<1>1. PICK intents, n : intents = p.intents /\ n = p.n
  OBVIOUS
<1>2. n - 1 \in 1 .. Len(intents) /\ intents \in Seq(Leads(d, q))
  BY <1>1
<1>3. intents[n - 1] \in Leads(d, q)
  BY <1>2
<1>4. PICK lead : lead = Lead(p)
  OBVIOUS
<1>5. lead \in Leads(d, q)
  BY <1>1, <1>3, <1>4 DEF Lead
<1>6. lead.of \in Intents(d) /\ Leading(d, q, lead.of, lead.chain) /\ lead.chain \in Seq(CalledFrom(d, q))
  BY <1>5 DEF Leads
<1>7. Len(lead.chain) \in Nat /\ Entry(q) \in Nat
  BY <1>6 DEF Entry
<1>8. UsedBy(q, p) \in Nat
  BY <1>4, <1>7 DEF UsedBy
<1> QED
  BY <1>4, <1>5, <1>6, <1>7, <1>8

(* What is not cut stays followed while the reported paths grow.             *)
LEMMA FollowedGrows ==
  ASSUME NEW d, NEW q, NEW p, NEW m, Followed(d, q, p, m),
         NEW r, r.intents = p.intents, ~r.cut => ~p.cut, Briefs(p.paths) \subseteq Briefs(r.paths)
  PROVE  Followed(d, q, r, m)
BY DEF Followed
LEMMA GatheredStays ==
  ASSUME NEW d, NEW q, NEW p, Gathered(d, q, p), NEW r, r.intents = p.intents, ~r.cut => ~p.cut
  PROVE  Gathered(d, q, r)
BY DEF Gathered, Held

LEMMA BriefsOfBoth ==
  ASSUME NEW T, NEW s \in Seq(T), NEW t \in Seq(T)
  PROVE  s \o t \in Seq(T) /\ Briefs(s) \subseteq Briefs(s \o t) /\ Briefs(t) \subseteq Briefs(s \o t)
<1>1. PICK st : st = s \o t
  OBVIOUS
<1>2. /\ st \in Seq(T) /\ Len(s) \in Nat /\ Len(t) \in Nat /\ Len(st) = Len(s) + Len(t)
      /\ \A n \in 1 .. Len(s) + Len(t) : st[n] = IF n <= Len(s) THEN s[n] ELSE t[n - Len(s)]
  BY <1>1, ConcatProperties
<1>3. DOMAIN s = 1 .. Len(s) /\ DOMAIN t = 1 .. Len(t) /\ DOMAIN st = 1 .. Len(s) + Len(t)
  BY <1>2
<1>4. ASSUME NEW n \in DOMAIN s PROVE n \in DOMAIN st /\ st[n] = s[n]
  BY <1>2, <1>3, <1>4
<1>5. ASSUME NEW n \in DOMAIN t PROVE n + Len(s) \in DOMAIN st /\ st[n + Len(s)] = t[n]
  <2>1. n + Len(s) \in 1 .. Len(s) + Len(t) /\ ~(n + Len(s) <= Len(s)) /\ (n + Len(s)) - Len(s) = n
    BY <1>2, <1>3, <1>5
  <2> QED
    BY <1>2, <1>3, <2>1
<1>6. Briefs(s) \subseteq Briefs(st)
  BY <1>4 DEF Briefs
<1>7. Briefs(t) \subseteq Briefs(st)
  BY <1>5 DEF Briefs
<1> QED
  BY <1>1, <1>2, <1>6, <1>7

(* A path to the routine itself, and a path along a walk to the target.      *)
LEMMA PathToRoutine ==
  ASSUME NEW d \in Deployments, NEW q, q.target = None, NEW lead \in Leads(d, q), ExactIn(d, lead.of),
         NEW path, path = Path(lead.chain, lead.of, None, <<RoutineOf(d, lead.of)>>)
  PROVE  path \in GoodPaths(d, q) /\ FromIn(d, q, lead.of) = {Brief(path)}
<1>1. PICK i, chain, key : i = lead.of /\ chain = lead.chain /\ key = RoutineOf(d, i)
  OBVIOUS
<1>2. i \in Intents(d) /\ chain \in Seq(CalledFrom(d, q)) /\ Leading(d, q, i, chain)
  BY <1>1 DEF Leads
<1>3. key \in KeysOfDb(d) /\ i.key \in KeysIn(d) /\ None \in KeysIn(d)
  BY <1>1, <1>2 DEF KeysOfDb, KeysIn
<1>4. path = [chain |-> chain, evidence |-> i.key, body |-> None, nodes |-> <<key>>]
  BY <1>1 DEF Path
<1>5. Brief(path) = [evidence |-> i.key, body |-> None, nodes |-> <<key>>]
  BY <1>4 DEF Brief
<1>6. FromIn(d, q, i) = {Brief(path)}
  BY <1>1, <1>5 DEF FromIn
<1>7. Brief(path) \in AllIn(d, q)
  BY <1>2, <1>6 DEF AllIn, Leading
<1>8. GoodPath(d, q, path)
  BY <1>2, <1>4, <1>7 DEF GoodPath
<1>9. <<key>> \in Seq(KeysOfDb(d))
  BY <1>3
<1>10. path \in GoodPaths(d, q)
  BY <1>2, <1>3, <1>4, <1>8, <1>9 DEF GoodPaths
<1> QED
  BY <1>1, <1>6, <1>10

MayJoin(d, q, lead, body, searched, nodes) ==
  /\ q.target # None /\ q.depth \in Nat /\ lead \in Leads(d, q) /\ ExactIn(d, lead.of)
  /\ searched = (IF body = None THEN lead.of ELSE body) /\ CrossesIn(d, searched)
  /\ body # None => body \in BodiesIn(d, lead.of) /\ ~CrossesIn(d, lead.of)
  /\ nodes \in WalksTo(d, RoutineOf(d, searched), q.target)
  /\ Len(lead.chain) + Entry(q) + (IF body = None THEN 1 ELSE 3) + (Len(nodes) - 1) <= q.depth
JoinsTo(d, q, lead, bodykey, nodes, path) ==
  path \in GoodPaths(d, q) /\ Brief(path) = [evidence |-> lead.of.key, body |-> bodykey, nodes |-> nodes]
LEMMA PathToTarget ==
  ASSUME NEW d \in Deployments, NEW q, NEW lead, NEW body, NEW searched, NEW nodes, MayJoin(d, q, lead, body, searched, nodes),
         NEW bodykey, bodykey = IF body = None THEN None ELSE body.key
  PROVE  JoinsTo(d, q, lead, bodykey, nodes, Path(lead.chain, lead.of, body, nodes))
<1>1. /\ q.target # None /\ q.depth \in Nat /\ lead \in Leads(d, q) /\ ExactIn(d, lead.of)
      /\ searched = (IF body = None THEN lead.of ELSE body) /\ CrossesIn(d, searched)
      /\ body # None => body \in BodiesIn(d, lead.of) /\ ~CrossesIn(d, lead.of)
      /\ nodes \in WalksTo(d, RoutineOf(d, searched), q.target)
      /\ Len(lead.chain) + Entry(q) + (IF body = None THEN 1 ELSE 3) + (Len(nodes) - 1) <= q.depth
  BY DEF MayJoin
<1>2. PICK path : path = Path(lead.chain, lead.of, body, nodes)
  OBVIOUS
<1>3. PICK i, chain : i = lead.of /\ chain = lead.chain
  OBVIOUS
<1>4. i \in Intents(d) /\ chain \in Seq(CalledFrom(d, q)) /\ Leading(d, q, i, chain) /\ Len(chain) \in Nat
  BY <1>1, <1>3 DEF Leads
<1>5. bodykey = IF body = None THEN None ELSE body.key
  OBVIOUS
<1>6. path = [chain |-> chain, evidence |-> i.key, body |-> bodykey, nodes |-> nodes]
  BY <1>2, <1>3, <1>5 DEF Path
<1>7. Brief(path) = [evidence |-> i.key, body |-> bodykey, nodes |-> nodes]
  BY <1>1, <1>6 DEF Brief
<1>8. nodes \in Seq(KeysOfDb(d)) /\ Len(nodes) \in Nat /\ Len(nodes) > 0
  <2>1. nodes \in Seq(KeysOfDb(d)) /\ nodes # <<>>
    BY <1>1 DEF WalksTo, Walk
  <2> QED
    BY <1>1, <2>1
<1>9. Brief(path) \in CrossingIn(d, q, i, bodykey, searched)
  BY <1>1, <1>7 DEF CrossingIn
<1>10. CrossingIn(d, q, i, bodykey, searched) \subseteq FromIn(d, q, i)
  <2>1. CASE body = None
    BY <1>1, <1>3, <1>5, <2>1 DEF FromIn
  <2>2. CASE body # None
    <3>1. bodykey = body.key /\ searched = body /\ body \in BodiesIn(d, i)
      BY <1>1, <1>3, <1>5, <2>2
    <3> QED
      BY <1>1, <1>3, <2>2, <3>1 DEF FromIn
  <2> QED
    BY <1>1, <2>1, <2>2
<1>11. Brief(path) \in AllIn(d, q)
  BY <1>1, <1>4, <1>9, <1>10 DEF AllIn, Leading
<1>12. bodykey \in KeysIn(d) /\ i.key \in KeysIn(d) /\ (bodykey = None => Weight(q, path) <= q.depth) /\ (body # None => Weight(q, path) <= q.depth)
  <2>1. bodykey \in KeysIn(d) /\ i.key \in KeysIn(d)
    BY <1>1, <1>3, <1>4, <1>5 DEF KeysIn, BodiesIn
  <2>2. PICK e \in Nat : e = Entry(q)
    BY DEF Entry
  <2>3. PICK len \in Nat, steps \in Nat, k \in Nat : len = Len(chain) /\ steps = Len(nodes) - 1 /\ k = IF body = None THEN 1 ELSE 3
    BY <1>1, <1>4, <1>8
  <2>4. len + e + k + steps <= q.depth
    BY <1>1, <1>3, <2>2, <2>3
  <2>5. PICK h \in {1, 3} : h = (IF bodykey = None THEN 1 ELSE 3)
    OBVIOUS
  <2>6. Weight(q, path) = len + e + h + Len(nodes) - 1
    BY <1>1, <1>6, <2>2, <2>3, <2>5 DEF Weight
  <2>7. Weight(q, path) = len + e + h + steps
    BY <1>1, <1>8, <2>3, <2>5, <2>6
  <2>8. h <= k
    BY <1>1, <1>5, <2>3, <2>5
  <2> QED
    BY <1>1, <2>1, <2>4, <2>5, <2>7, <2>8
<1>13. Weight(q, path) <= q.depth
  BY <1>1, <1>5, <1>12
<1>14. GoodPath(d, q, path)
  BY <1>1, <1>4, <1>6, <1>11, <1>13 DEF GoodPath
<1>15. path \in GoodPaths(d, q)
  BY <1>1, <1>4, <1>6, <1>8, <1>12, <1>14 DEF GoodPaths
<1> QED
  BY <1>2, <1>3, <1>5, <1>7, <1>15 DEF JoinsTo

(* The end of a round.                                                       *)
LEMMA FullOrNot ==
  ASSUME NEW d, NEW q, q = request.question, NEW p, p \in TraceStates(p), p.pc = "trace.intents", TraceHolds(d, q, p),
         Followed(d, q, p, p.n - 1)
  PROVE  TraceStands(d, q, Full(p))
<1>1. PICK g : g = Full(p)
  OBVIOUS
<1>2. CASE Len(p.paths) >= request.question.limit
  <2>1. g = [p EXCEPT !.cut = TRUE, !.pc = "trace.answer"]
    BY <1>1, <1>2 DEF Full
  <2>2. /\ g \in TraceStates(g) /\ g.pc = "trace.answer" /\ g.cut = TRUE /\ g.intents = p.intents /\ g.n = p.n
        /\ g.paths = p.paths
    BY <2>1 DEF TraceStates
  <2>3. TracePlace(d, q, g)
    BY <2>2 DEF TraceHolds, TracePlace
  <2> QED
    BY <1>1, <2>2, <2>3 DEF TraceStands
<1>3. CASE ~(Len(p.paths) >= request.question.limit)
  <2>1. g = p
    BY <1>1, <1>3 DEF Full
  <2>2. TracePlace(d, q, p)
    BY DEF TraceHolds, TracePlace
  <2> QED
    BY <1>1, <2>1, <2>2 DEF TraceStands
<1> QED
  BY <1>2, <1>3

(* A search begins with the walk of one node, which every walk begins with.  *)
LEMMA SearchIsBegun ==
  ASSUME NEW d \in Deployments, NEW q, q = request.question, q.depth \in Nat, NEW p, p \in TraceStates(p), TraceHolds(d, q, p),
         p.n >= 2, q.target # None, CrossesIn(d, Searched(p)), Followed(d, q, p, p.n - 2),
         p.pc = IF p.body = None THEN "trace.intents" ELSE "trace.bodies", Searched(p) \in Intents(d),
         p.body # None => p.body \in BodiesIn(d, Lead(p).of) /\ AtBodies(d, q, p, p.body)
  PROVE  TraceStands(d, q, Search(p, RoutineOf(d, Searched(p)), UsedBy(q, p)))
<1>1. PICK start, used : start = RoutineOf(d, Searched(p)) /\ used = UsedBy(q, p)
  OBVIOUS
<1>2. PICK g : g = Search(p, start, used)
  OBVIOUS
<1>3. p.n \in Nat /\ used \in Nat /\ start \in KeysOfDb(d)
  <2>1. p.n \in Nat
    BY DEF TraceStates
  <2>2. used \in Nat
    BY <1>1, <2>1, LeadIs DEF TraceHolds
  <2>3. start \in KeysOfDb(d)
    BY <1>1 DEF KeysOfDb, CrossesIn
  <2> QED
    BY <2>1, <2>2, <2>3
<1>4. PICK left \in Int : left = q.depth - used
  BY <1>3
<1>5. CASE left < 0
  <2>1. g = [p EXCEPT !.cut = TRUE]
    BY <1>2, <1>4, <1>5 DEF Search
  <2>2. /\ g \in TraceStates(g) /\ g.pc = p.pc /\ g.cut = TRUE /\ g.intents = p.intents /\ g.n = p.n
        /\ g.paths = p.paths /\ g.bodies = p.bodies
    BY <2>1 DEF TraceStates
  <2>3. CASE p.body = None
    <3>1. Followed(d, q, g, g.n - 1) /\ Gathered(d, q, g) /\ g.pc = "trace.intents"
      BY <2>2, <2>3 DEF Followed, Gathered
    <3>2. TracePlace(d, q, g)
      BY <2>2, <3>1 DEF TraceHolds, TracePlace
    <3> QED
      BY <1>1, <1>2, <2>2, <3>2 DEF TraceStands
  <2>4. CASE p.body # None
    <3>1. Followed(d, q, g, g.n - 2) /\ Gathered(d, q, g) /\ g.pc = "trace.bodies"
      BY <2>2, <2>4 DEF Followed, Gathered
    <3>2. Lead(g) = Lead(p)
      BY <2>2 DEF Lead
    <3>3. AtBodies(d, q, g, None)
      BY <2>2, <2>4, <3>2 DEF AtBodies
    <3>4. TracePlace(d, q, g)
      BY <2>2, <3>1, <3>3 DEF TraceHolds, TracePlace
    <3> QED
      BY <1>1, <1>2, <2>2, <3>4 DEF TraceStands
  <2> QED
    BY <2>3, <2>4
<1>6. CASE ~(left < 0)
  <2>1. left \in Nat
    BY <1>4, <1>6
  <2>2. PICK first : first = <<start>>
    OBVIOUS
  <2>3. g = [p EXCEPT !.pc = "trace.search", !.depth = left, !.queue = <<first>>, !.found = <<>>]
    BY <1>2, <1>4, <1>6, <2>2 DEF Search
  <2>4. /\ g \in TraceStates(g) /\ g.pc = "trace.search" /\ g.cut = p.cut /\ g.intents = p.intents /\ g.n = p.n
        /\ g.paths = p.paths /\ g.bodies = p.bodies /\ g.body = p.body /\ g.depth = left /\ g.queue = <<first>> /\ g.found = <<>>
    BY <2>3 DEF TraceStates, TraceSteps
  <2>5. Lead(g) = Lead(p) /\ Searched(g) = Searched(p)
    BY <2>4 DEF Lead, Searched
  <2>6. UsedBy(q, g) = used
    BY <1>1, <2>4, <2>5 DEF UsedBy
  <2>7. first \in Partials(d, start, q.target, left)
    <3>1. Walk(d, start, first)
      BY <1>3, <2>2, FirstWalk
    <3>2. Len(first) = 1 /\ first \in Seq(KeysOfDb(d))
      BY <1>3, <2>2
    <3>3. Avoids(first, q.target)
      BY <3>2 DEF Avoids
    <3>4. Len(first) - 1 <= left
      BY <2>1, <3>2
    <3> QED
      BY <3>1, <3>2, <3>3, <3>4, Zenon DEF Partials
  <2>8. ASSUME NEW w \in WalksTo(d, start, q.target) PROVE Begins(first, w)
    <3>1. w \in Seq(KeysOfDb(d)) /\ w # <<>> /\ w[1] = start
      BY DEF WalksTo, Walk
    <3>2. Len(w) >= 1 /\ Len(first) = 1 /\ first[1] = start
      BY <2>2, <3>1
    <3>3. \A n \in 1 .. Len(first) : n = 1
      BY <3>2
    <3> QED
      BY <3>1, <3>2, <3>3 DEF Begins
  <2>9. Searching(d, start, q.target, g)
    <3>1. <<first>> \in Seq(Partials(d, start, q.target, left)) /\ 1 \in DOMAIN <<first>> /\ <<first>>[1] = first
      BY <2>7
    <3>2. <<>> \in Seq({w \in WalksTo(d, start, q.target) : Len(w) - 1 <= left})
      OBVIOUS
    <3> QED
      BY <2>4, <2>8, <3>1, <3>2 DEF Searching
  <2>10. Gathered(d, q, g) /\ Followed(d, q, g, g.n - 2)
    BY <2>4, GatheredStays, FollowedGrows DEF TraceHolds
  <2>11. p.body # None => AtBodies(d, q, g, g.body)
    BY <2>4, <2>5 DEF AtBodies
  <2>12. AtSearch(d, q, g)
    BY <1>1, <1>4, <2>1, <2>4, <2>5, <2>6, <2>9, <2>11 DEF AtSearch
  <2>13. TracePlace(d, q, g)
    BY <2>4, <2>10, <2>12 DEF TraceHolds, TracePlace
  <2> QED
    BY <1>1, <1>2, <2>4, <2>13 DEF TraceStands
<1> QED
  BY <1>5, <1>6

LEMMA StandsNext ==
  ASSUME TraceInv, request' = request, NEW p, progress' = p, TraceStands(request.served, request.question, p)
  PROVE  TraceInv'
BY TraceGoesOn DEF TraceStands

(* Bodies that are all followed make the evidence followed.                  *)
LEMMA BodiesAreDone ==
  ASSUME NEW d, NEW q, NEW p, p \in TraceStates(p), TraceHolds(d, q, p), AtBodies(d, q, p, None), p.bodies = <<>>,
         Followed(d, q, p, p.n - 2), \A b \in Intents(d) : b # None
  PROVE  Followed(d, q, p, p.n - 1)
<1>1. PICK n \in Nat : n = p.n
  BY DEF TraceStates
<1>2. n >= 2
  BY <1>1 DEF AtBodies
<1> SUFFICES ASSUME ~p.cut, NEW k \in 1 .. n - 1 PROVE FromIn(d, q, p.intents[k].of) \subseteq Briefs(p.paths)
  BY <1>1 DEF Followed
<1>3. CASE k \in 1 .. n - 2
  BY <1>1, <1>3 DEF Followed
<1>4. CASE k = n - 1
  <2>1. p.intents[k].of = Lead(p).of
    BY <1>1, <1>4 DEF Lead
  <2>2. ToSet(p.bodies) = {}
    BY DEF AtBodies, ToSet
  <2>3. \A b \in BodiesIn(d, Lead(p).of) : CrossingIn(d, q, Lead(p).of, b.key, b) \subseteq Briefs(p.paths)
    <3>1. \A b \in BodiesIn(d, Lead(p).of) : b \in Intents(d)
      BY DEF BodiesIn
    <3> QED
      BY <2>2, <3>1 DEF AtBodies
  <2>4. FromIn(d, q, Lead(p).of) = UNION {CrossingIn(d, q, Lead(p).of, b.key, b) : b \in BodiesIn(d, Lead(p).of)}
    BY DEF AtBodies, FromIn
  <2> QED
    BY <2>1, <2>3, <2>4
<1> QED
  BY <1>1, <1>2, <1>3, <1>4

LEMMA BodyIsFollowed == TraceInv /\ FollowBody => TraceInv'
<1> SUFFICES ASSUME TraceInv, FollowBody PROVE TraceInv'
  OBVIOUS
<1>1. PICK d, q : d = request.served /\ q = request.question
  OBVIOUS
<1>2. progress.pc = "trace.bodies" /\ progress.pc # "idle" /\ request' = request
  BY DEF FollowBody
<1>3. /\ d \in Deployments /\ progress \in TraceStates(progress) /\ TracePlace(d, q, progress)
      /\ q.depth \in Nat /\ q.limit \in Nat
  BY <1>1, <1>2, TraceAtHand
<1>4. TraceHolds(d, q, progress) /\ AtBodies(d, q, progress, None) /\ Followed(d, q, progress, progress.n - 2)
  BY <1>2, <1>3 DEF TracePlace, TraceHolds
<1>5. \A b \in Intents(d) : b # None
  BY <1>3, TraceAssumption DEF Intents
<1>6. CASE progress.bodies = <<>>
  <2>1. PICK pc : pc = IF Len(progress.paths) >= request.question.limit THEN "trace.answer" ELSE "trace.intents"
    OBVIOUS
  <2>2. progress' = [progress EXCEPT !.pc = pc]
    BY <1>6, <2>1 DEF FollowBody
  <2>3. /\ progress' \in TraceStates(progress') /\ progress'.pc = pc /\ progress'.cut = progress.cut
        /\ progress'.intents = progress.intents /\ progress'.n = progress.n /\ progress'.paths = progress.paths
    BY <1>3, <2>1, <2>2 DEF TraceStates, TraceSteps
  <2>4. Followed(d, q, progress, progress.n - 1)
    BY <1>3, <1>4, <1>5, <1>6, BodiesAreDone
  <2>5. Followed(d, q, progress', progress'.n - 1) /\ Gathered(d, q, progress')
    BY <1>4, <2>3, <2>4, FollowedGrows, GatheredStays DEF TraceHolds
  <2>6. Len(progress.paths) \in Nat
    BY <1>4 DEF TraceHolds
  <2>7. TracePlace(d, q, progress')
    <3>1. pc = "trace.answer" => ~(Len(progress'.paths) < q.limit)
      BY <1>1, <1>3, <2>1, <2>3, <2>6
    <3> QED
      BY <1>4, <2>1, <2>3, <2>5, <3>1 DEF TraceHolds, TracePlace
  <2> QED
    BY <1>1, <1>2, <2>3, <2>7, TraceGoesOn
<1>7. CASE progress.bodies # <<>>
  <2>1. PICK list : list = progress.bodies
    OBVIOUS
  <2>2. PICK body, rest : body = list[1] /\ rest = Tail(list)
    OBVIOUS
  <2>3. PICK S : S = BodiesIn(d, Lead(progress).of)
    OBVIOUS
  <2>4. /\ body \in S /\ rest \in Seq(S)
        /\ \A n \in DOMAIN list : list[n] = body \/ \E m \in DOMAIN rest : rest[m] = list[n]
    <3>1. list \in Seq(S) /\ list # <<>>
      BY <1>4, <1>7, <2>1, <2>3 DEF AtBodies
    <3>2. Parted(S, list, body, rest)
      BY <2>2, <3>1, QueueIsParted
    <3> QED
      BY <3>2 DEF Parted
  <2>5. PICK base : base = [progress EXCEPT !.bodies = rest, !.body = body]
    OBVIOUS
  <2>6. progress' = Cross(base, ResolvedIn(d, body))
    BY <1>1, <1>7, <2>1, <2>2, <2>5 DEF FollowBody, ResolvedIn, App, Db, Context
  <2>7. /\ base \in TraceStates(base) /\ base.pc = "trace.bodies" /\ base.cut = progress.cut /\ base.intents = progress.intents
        /\ base.n = progress.n /\ base.paths = progress.paths /\ base.bodies = rest /\ base.body = body
    BY <1>2, <1>3, <2>5 DEF TraceStates
  <2>8. Lead(base) = Lead(progress)
    BY <2>7 DEF Lead
  <2>9. body \in Intents(d) /\ body # None
    BY <1>5, <2>3, <2>4 DEF BodiesIn
  <2>10. AtBodies(d, q, base, body)
    <3>1. ASSUME ~base.cut, NEW b \in S
          PROVE  b \in ToSet(rest) \/ b = body \/ CrossingIn(d, q, Lead(progress).of, b.key, b) \subseteq Briefs(progress.paths)
      <4>1. b # None
        BY <1>5, <2>3, <3>1 DEF BodiesIn
      <4>2. b \in ToSet(list) \/ CrossingIn(d, q, Lead(progress).of, b.key, b) \subseteq Briefs(progress.paths)
        BY <1>4, <2>1, <2>3, <2>7, <3>1, <4>1 DEF AtBodies
      <4>3. b \in ToSet(list) => b = body \/ b \in ToSet(rest)
        BY <2>4 DEF ToSet
      <4> QED
        BY <4>2, <4>3
    <3> QED
      BY <1>4, <2>3, <2>4, <2>7, <2>8, <3>1 DEF AtBodies
  <2>11. Followed(d, q, base, base.n - 2) /\ Gathered(d, q, base)
    BY <1>4, <2>7, FollowedGrows, GatheredStays DEF TraceHolds
  <2>12. TraceHolds(d, q, base)
    BY <1>4, <2>7, <2>11 DEF TraceHolds
  <2>13. CASE CrossesIn(d, body)
    <3>1. Searched(base) = body /\ UsedBy(q, base) = Len(Lead(base).chain) + Entry(q) + 3
      BY <2>7, <2>9 DEF Searched, UsedBy
    <3>2. progress' = Search(base, RoutineOf(d, Searched(base)), UsedBy(q, base))
      BY <1>1, <2>6, <2>13, <3>1 DEF Cross, CrossesIn, ExactIn, RoutineOf, Lead
    <3>3. base.n >= 2 /\ q.target # None
      BY <2>10 DEF AtBodies
    <3>4. body \in BodiesIn(d, Lead(base).of)
      BY <2>3, <2>4, <2>8
    <3>5. TraceStands(d, q, progress')
      BY <1>1, <1>3, <2>7, <2>9, <2>10, <2>11, <2>12, <2>13, <3>1, <3>2, <3>3, <3>4, SearchIsBegun
    <3> QED
      BY <1>1, <1>2, <3>5, StandsNext
  <2>14. CASE ~CrossesIn(d, body)
    <3>1. progress' = base
      BY <2>6, <2>14 DEF Cross, CrossesIn, ExactIn
    <3>2. CrossingIn(d, q, Lead(base).of, body.key, body) = {}
      BY <2>14 DEF CrossingIn
    <3>3. AtBodies(d, q, base, None)
      <4>1. \A b \in BodiesIn(d, Lead(base).of) : b = body => CrossingIn(d, q, Lead(base).of, b.key, b) \subseteq Briefs(base.paths)
        BY <3>2
      <4> QED
        BY <2>10, <4>1 DEF AtBodies
    <3>4. TracePlace(d, q, base)
      BY <2>7, <2>11, <2>12, <3>3 DEF TraceHolds, TracePlace
    <3>5. TraceStands(d, q, progress')
      BY <2>7, <3>1, <3>4 DEF TraceStands
    <3> QED
      BY <1>1, <1>2, <3>5, StandsNext
  <2> QED
    BY <2>13, <2>14
<1> QED
  BY <1>6, <1>7

(* What one piece of evidence comes to.                                      *)
LEMMA LeadIsFollowed ==
  ASSUME NEW d \in Deployments, request.served = d, NEW q, q = request.question, q.depth \in Nat, NEW b, b \in TraceStates(b),
         b.pc = "trace.intents", TraceHolds(d, q, b), b.n >= 2, b.body = None, Followed(d, q, b, b.n - 2)
  PROVE  TraceStands(d, q, Follow(b, Lead(b), ResolvedIn(d, Lead(b).of)))
<1>1. PICK lead, i : lead = Lead(b) /\ i = lead.of
  OBVIOUS
<1>2. PICK g : g = Follow(b, lead, ResolvedIn(d, i))
  OBVIOUS
<1>3. PICK n \in Nat : n = b.n
  BY DEF TraceStates
<1>4. lead \in Leads(d, q) /\ i \in Intents(d)
  BY <1>1, <1>3, LeadIs DEF TraceHolds
<1>5. ASSUME NEW p, p.intents = b.intents, p.n = n, ~p.cut => ~b.cut, Briefs(b.paths) \subseteq Briefs(p.paths),
             ~p.cut => FromIn(d, q, i) \subseteq Briefs(p.paths)
      PROVE  Followed(d, q, p, n - 1)
  <2> SUFFICES ASSUME ~p.cut, NEW k \in 1 .. n - 1 PROVE FromIn(d, q, p.intents[k].of) \subseteq Briefs(p.paths)
    BY DEF Followed
  <2>1. CASE k \in 1 .. n - 2
    <3>1. FromIn(d, q, b.intents[k].of) \subseteq Briefs(b.paths)
      BY <1>3, <1>5, <2>1 DEF Followed
    <3> QED
      BY <1>5, <3>1
  <2>2. CASE k = n - 1
    BY <1>1, <1>3, <1>5, <2>2 DEF Lead
  <2> QED
    BY <1>3, <2>1, <2>2
<1>6. CASE ~ExactIn(d, i)
  <2>1. g = b
    BY <1>2, <1>6 DEF Follow, ExactIn
  <2>2. FromIn(d, q, i) = {}
    BY <1>6 DEF FromIn
  <2>3. Followed(d, q, b, b.n - 1)
    BY <1>3, <1>5, <2>2
  <2>4. TracePlace(d, q, b)
    BY <2>3 DEF TraceHolds, TracePlace
  <2> QED
    BY <1>1, <1>2, <2>1, <2>4 DEF TraceStands
<1>7. CASE ExactIn(d, i) /\ q.target = None
  <2>1. PICK path : path = Path(lead.chain, i, None, <<RoutineOf(d, i)>>)
    OBVIOUS
  <2>2. path \in GoodPaths(d, q) /\ FromIn(d, q, i) = {Brief(path)}
    BY <1>1, <1>4, <1>7, <2>1, PathToRoutine
  <2>3. PICK paths : paths = Append(b.paths, path)
    OBVIOUS
  <2>4. paths = b.paths \o <<path>> /\ b.paths \in Seq(GoodPaths(d, q)) /\ <<path>> \in Seq(GoodPaths(d, q))
    BY <2>2, <2>3 DEF TraceHolds
  <2>5. paths \in Seq(GoodPaths(d, q)) /\ Briefs(b.paths) \subseteq Briefs(paths) /\ Briefs(<<path>>) \subseteq Briefs(paths)
    BY <2>4, BriefsOfBoth
  <2>6. Brief(path) \in Briefs(<<path>>)
    <3>1. 1 \in DOMAIN <<path>> /\ <<path>>[1] = path
      OBVIOUS
    <3> QED
      BY <3>1 DEF Briefs
  <2>7. PICK p : p = [b EXCEPT !.paths = paths]
    OBVIOUS
  <2>8. g = Full(p)
    BY <1>1, <1>2, <1>7, <2>1, <2>3, <2>7 DEF Follow, ExactIn, RoutineOf
  <2>9. /\ p \in TraceStates(p) /\ p.pc = "trace.intents" /\ p.cut = b.cut /\ p.intents = b.intents /\ p.n = n
        /\ p.paths = paths
    BY <1>3, <2>7 DEF TraceStates
  <2>10. Followed(d, q, p, p.n - 1)
    BY <1>5, <2>2, <2>5, <2>6, <2>9
  <2>11. TraceHolds(d, q, p)
    BY <1>3, <2>5, <2>9, GatheredStays DEF TraceHolds
  <2> QED
    BY <1>1, <1>2, <2>8, <2>9, <2>10, <2>11, FullOrNot
<1>8. CASE CrossesIn(d, i) /\ q.target # None
  <2>1. Searched(b) = i /\ UsedBy(q, b) = Len(lead.chain) + Entry(q) + 1
    BY <1>1 DEF Searched, UsedBy
  <2>2. g = Search(b, RoutineOf(d, i), UsedBy(q, b))
    BY <1>1, <1>2, <1>8, <2>1 DEF Follow, CrossesIn, ExactIn, RoutineOf
  <2> QED
    BY <1>1, <1>2, <1>4, <1>8, <2>1, <2>2, SearchIsBegun
<1>9. CASE ExactIn(d, i) /\ ~CrossesIn(d, i) /\ q.target # None
  <2>1. PICK page : page = IntentsForOwner(App, RoutineOf(d, i), PageSize)
    OBVIOUS
  <2>2. PageHolds(page, BodiesIn(d, i))
    <3>1. AppOf[d].intents \in Seq(Intents(d)) /\ ToSet(AppOf[d].intents) = Intents(d) /\ PageSize \in Nat
      BY TraceAssumption DEF Intents
    <3>2. page = Page(Among(AppOf[d].intents, BodiesIn(d, i)), PageSize)
      BY <2>1, <3>1 DEF IntentsForOwner, App, BodiesIn
    <3>3. PageHolds(page, Intents(d) \cap BodiesIn(d, i))
      BY <3>1, <3>2, PageOfSome
    <3>4. Intents(d) \cap BodiesIn(d, i) = BodiesIn(d, i)
      BY DEF BodiesIn
    <3> QED
      BY <3>3, <3>4
  <2>3. PICK items, cut : items = page.items /\ cut = (b.cut \/ page.truncated)
    OBVIOUS
  <2>4. cut \in BOOLEAN /\ items \in Seq(BodiesIn(d, i)) /\ (~cut => ~b.cut /\ ~page.truncated)
    BY <2>2, <2>3 DEF PageHolds, TraceStates
  <2>5. g = [b EXCEPT !.pc = "trace.bodies", !.bodies = items, !.cut = cut]
    <3>1. g = Enter(b, page)
      BY <1>1, <1>2, <1>9, <2>1 DEF Follow, CrossesIn, ExactIn, RoutineOf
    <3> QED
      BY <2>3, <3>1 DEF Enter, TraceStates
  <2>6. /\ g \in TraceStates(g) /\ g.pc = "trace.bodies" /\ g.cut = cut /\ g.intents = b.intents /\ g.n = n
        /\ g.paths = b.paths /\ g.bodies = items
    BY <1>3, <2>4, <2>5 DEF TraceStates, TraceSteps
  <2>7. Lead(g) = lead
    BY <1>1, <1>3, <2>6 DEF Lead
  <2>8. ~cut => \A x \in BodiesIn(d, i) : x \in ToSet(items)
    BY <2>2, <2>3, <2>4 DEF PageHolds, ToSet
  <2>9. AtBodies(d, q, g, None)
    BY <1>1, <1>3, <1>9, <2>4, <2>6, <2>7, <2>8 DEF AtBodies
  <2>10. Followed(d, q, g, g.n - 2) /\ Gathered(d, q, g)
    BY <1>3, <2>4, <2>6, FollowedGrows, GatheredStays DEF TraceHolds
  <2>11. TracePlace(d, q, g)
    BY <1>3, <2>6, <2>9, <2>10 DEF TraceHolds, TracePlace
  <2> QED
    BY <1>1, <1>2, <2>6, <2>11 DEF TraceStands
<1> QED
  BY <1>6, <1>7, <1>8, <1>9 DEF CrossesIn

LEMMA EvidenceIsResolved == TraceInv /\ ResolveEvidence => TraceInv'
<1> SUFFICES ASSUME TraceInv, ResolveEvidence PROVE TraceInv'
  OBVIOUS
<1>1. PICK d, q : d = request.served /\ q = request.question
  OBVIOUS
<1>2. progress.pc = "trace.intents" /\ progress.pc # "idle" /\ request' = request
  BY DEF ResolveEvidence
<1>3. /\ d \in Deployments /\ progress \in TraceStates(progress) /\ TracePlace(d, q, progress)
      /\ q.depth \in Nat /\ q.limit \in Nat
  BY <1>1, <1>2, TraceAtHand
<1>4. TraceHolds(d, q, progress) /\ Followed(d, q, progress, progress.n - 1)
  BY <1>2, <1>3 DEF TracePlace, TraceHolds
<1>5. PICK n \in Nat \ {0}, intents \in Seq(Leads(d, q)) : n = progress.n /\ intents = progress.intents
  BY <1>3, <1>4 DEF TraceStates, TraceHolds
<1>6. Len(intents) \in Nat /\ n <= Len(intents) + 1 /\ DOMAIN intents = 1 .. Len(intents)
  BY <1>4, <1>5 DEF TraceHolds
<1>7. CASE n > Len(intents)
  <2>1. progress' = [progress EXCEPT !.pc = "trace.answer"]
    BY <1>5, <1>7 DEF ResolveEvidence
  <2>2. /\ progress' \in TraceStates(progress') /\ progress'.pc = "trace.answer" /\ progress'.cut = progress.cut
        /\ progress'.intents = intents /\ progress'.n = n /\ progress'.paths = progress.paths
    BY <1>3, <1>5, <2>1 DEF TraceStates
  <2>3. n - 1 = Len(intents)
    BY <1>6, <1>7
  <2>4. ASSUME ~progress.cut, NEW i \in Intents(d), AskedIn(d, q, i) PROVE FromIn(d, q, i) \subseteq Briefs(progress.paths)
    <3>1. PICK k \in DOMAIN intents : intents[k].of = i
      BY <1>4, <1>5, <2>4 DEF TraceHolds, Gathered, Held
    <3>2. k \in 1 .. n - 1
      BY <1>6, <2>3, <3>1
    <3> QED
      BY <1>4, <1>5, <2>4, <3>1, <3>2 DEF Followed
  <2>5. ~progress'.cut => AllIn(d, q) \subseteq Briefs(progress'.paths)
    BY <2>2, <2>4 DEF AllIn
  <2>6. TracePlace(d, q, progress')
    BY <1>4, <1>5, <2>2, <2>5 DEF TraceHolds, TracePlace
  <2> QED
    BY <1>1, <1>2, <2>2, <2>6, TraceGoesOn
<1>8. CASE ~(n > Len(intents)) /\ progress.late
  <2>1. progress' = [progress EXCEPT !.pc = "trace.answer", !.cut = TRUE]
    BY <1>5, <1>8 DEF ResolveEvidence
  <2>2. /\ progress' \in TraceStates(progress') /\ progress'.pc = "trace.answer" /\ progress'.cut = TRUE
        /\ progress'.intents = intents /\ progress'.n = n /\ progress'.paths = progress.paths
    BY <1>3, <1>5, <2>1 DEF TraceStates
  <2>3. TracePlace(d, q, progress')
    BY <1>4, <1>5, <2>2 DEF TraceHolds, TracePlace
  <2> QED
    BY <1>1, <1>2, <2>2, <2>3, TraceGoesOn
<1>9. CASE ~(n > Len(intents)) /\ ~progress.late
  <2>1. PICK next \in Nat \ {0} : next = n + 1
    BY <1>5
  <2>2. PICK base : base = [progress EXCEPT !.n = next, !.body = None]
    OBVIOUS
  <2>3. /\ base \in TraceStates(base) /\ base.pc = "trace.intents" /\ base.cut = progress.cut /\ base.intents = intents
        /\ base.n = next /\ base.paths = progress.paths /\ base.body = None
    BY <1>2, <1>3, <1>5, <2>1, <2>2 DEF TraceStates
  <2>4. next - 1 = n /\ next - 2 = n - 1 /\ next >= 2 /\ next <= Len(intents) + 1
    BY <1>5, <1>6, <1>9, <2>1
  <2>5. Lead(base) = intents[n]
    BY <2>3, <2>4 DEF Lead
  <2>6. progress' = Follow(base, Lead(base), ResolvedIn(d, Lead(base).of))
    <3>1. base = [progress EXCEPT !.n = @ + 1, !.body = None]
      BY <1>3, <1>5, <2>1, <2>2 DEF TraceStates
    <3>2. progress' = Follow(base, intents[n], Resolve(intents[n].of, Context, App, Db))
      BY <1>5, <1>9, <3>1, Zenon DEF ResolveEvidence
    <3> QED
      BY <1>1, <2>5, <3>2 DEF ResolvedIn, App, Db, Context
  <2>7. Followed(d, q, base, base.n - 2) /\ TraceHolds(d, q, base)
    BY <1>4, <1>5, <2>3, <2>4, FollowedGrows, GatheredStays DEF TraceHolds
  <2>8. TraceStands(d, q, progress')
    BY <1>1, <1>3, <2>3, <2>4, <2>6, <2>7, LeadIsFollowed
  <2> QED
    BY <1>1, <1>2, <2>8, StandsNext
<1> QED
  BY <1>7, <1>8, <1>9

-----------------------------------------------------------------------------
(* The end of a search: what it found is joined to what led to it.           *)
LEMMA SearchIsJoined ==
  ASSUME NEW d \in Deployments, NEW q, q = request.question, q.depth \in Nat, NEW p, p \in TraceStates(p), p.pc = "trace.search",
         TraceHolds(d, q, p), Followed(d, q, p, p.n - 2), AtSearch(d, q, p),
         ~p.cut => WalksTo(d, RoutineOf(d, Searched(p)), q.target) \subseteq ToSet(p.found),
         \A b \in Intents(d) : b # None
  PROVE  TraceStands(d, q, Join(p))
<1>1. PICK lead, i, body, searched : lead = Lead(p) /\ i = lead.of /\ body = p.body /\ searched = Searched(p)
  OBVIOUS
<1>2. PICK n \in Nat : n = p.n
  BY DEF TraceStates
<1>3. PICK found : n = p.n /\ found = p.found
  BY <1>2
<1>4. PICK walks, bodykey : walks = WalksTo(d, RoutineOf(d, searched), q.target) /\ bodykey = IF body = None THEN None ELSE body.key
  OBVIOUS
<1>5. /\ n >= 2 /\ q.target # None /\ CrossesIn(d, searched)
      /\ body # None => body \in BodiesIn(d, i) /\ AtBodies(d, q, p, body)
      /\ p.depth = q.depth - UsedBy(q, p) /\ p.depth \in Nat
      /\ found \in Seq({w \in walks : Len(w) - 1 <= p.depth})
  BY <1>1, <1>3, <1>4 DEF AtSearch, Searching
<1>6. lead \in Leads(d, q) /\ i \in Intents(d) /\ UsedBy(q, p) \in Nat
  BY <1>1, <1>3, <1>5, LeadIs DEF TraceHolds
<1>7. searched = (IF body = None THEN i ELSE body) /\ ExactIn(d, i)
      /\ (body # None => body \in Intents(d) /\ ~CrossesIn(d, i))
  <2>1. searched = IF body = None THEN i ELSE body
    BY <1>1 DEF Searched
  <2> QED
    BY <1>1, <1>5, <2>1 DEF AtBodies, CrossesIn, BodiesIn
<1>8. PICK more : more = [m \in DOMAIN found |-> Path(lead.chain, i, body, found[m])]
  OBVIOUS
<1>9. ASSUME NEW m \in DOMAIN found
      PROVE  /\ found[m] \in walks /\ Path(lead.chain, i, body, found[m]) \in GoodPaths(d, q)
             /\ Brief(Path(lead.chain, i, body, found[m])) = [evidence |-> i.key, body |-> bodykey, nodes |-> found[m]]
  <2>1. PICK w : w = found[m]
    OBVIOUS
  <2>2. w \in walks /\ Len(w) - 1 <= p.depth /\ w \in Seq(KeysOfDb(d))
    BY <1>4, <1>5, <2>1 DEF WalksTo
  <2>3. PICK used \in Nat : used = Len(lead.chain) + Entry(q) + (IF body = None THEN 1 ELSE 3)
    BY <1>1, <1>6 DEF UsedBy
  <2>4. PICK steps \in Int : steps = Len(w) - 1
    BY <2>2
  <2>5. used + steps <= q.depth
    <3>1. p.depth = q.depth - used
      BY <1>1, <1>5, <2>3 DEF UsedBy
    <3> QED
      BY <2>2, <2>3, <2>4, <3>1
  <2>6. Len(lead.chain) + Entry(q) + (IF body = None THEN 1 ELSE 3) + (Len(w) - 1) <= q.depth
    BY <2>3, <2>4, <2>5
  <2>7. /\ Path(lead.chain, i, body, w) \in GoodPaths(d, q)
        /\ Brief(Path(lead.chain, i, body, w)) = [evidence |-> i.key, body |-> bodykey, nodes |-> w]
    <3>1. w \in WalksTo(d, RoutineOf(d, searched), q.target)
      BY <1>4, <2>2
    <3>2. ExactIn(d, lead.of) /\ searched = IF body = None THEN lead.of ELSE body
      BY <1>1, <1>7
    <3>3. body # None => body \in BodiesIn(d, lead.of) /\ ~CrossesIn(d, lead.of)
      BY <1>1, <1>5, <1>7
    <3>4. MayJoin(d, q, lead, body, searched, w)
      BY <1>5, <1>6, <2>6, <3>1, <3>2, <3>3 DEF MayJoin
    <3>5. JoinsTo(d, q, lead, bodykey, w, Path(lead.chain, lead.of, body, w))
      BY <1>4, <3>4, PathToTarget
    <3> QED
      BY <1>1, <3>5 DEF JoinsTo
  <2> QED
    BY <2>1, <2>2, <2>7
<1>10. more \in Seq(GoodPaths(d, q))
  <2>1. DOMAIN found = 1 .. Len(found) /\ Len(found) \in Nat
    BY <1>5
  <2>2. more = [m \in 1 .. Len(found) |-> more[m]] /\ \A m \in 1 .. Len(found) : more[m] \in GoodPaths(d, q)
    BY <1>8, <1>9, <2>1
  <2> QED
    BY <2>1, <2>2
<1>11. ~p.cut => CrossingIn(d, q, i, bodykey, searched) \subseteq Briefs(more)
  <2> SUFFICES ASSUME ~p.cut, NEW w \in walks PROVE [evidence |-> i.key, body |-> bodykey, nodes |-> w] \in Briefs(more)
    BY <1>4, <1>5 DEF CrossingIn
  <2>1. PICK m \in DOMAIN found : found[m] = w
    BY <1>1, <1>3, <1>4 DEF ToSet
  <2>2. m \in DOMAIN more /\ more[m] = Path(lead.chain, i, body, found[m])
    BY <1>8
  <2> QED
    BY <1>9, <2>1, <2>2 DEF Briefs
<1>12. PICK paths : paths = p.paths \o more
  OBVIOUS
<1>13. paths \in Seq(GoodPaths(d, q)) /\ Briefs(p.paths) \subseteq Briefs(paths) /\ Briefs(more) \subseteq Briefs(paths)
  BY <1>10, <1>12, BriefsOfBoth DEF TraceHolds
<1>14. Joined(p, p.intents[p.n - 1]) = [p EXCEPT !.paths = paths]
  BY <1>1, <1>3, <1>8, <1>12 DEF Joined, Lead
<1>15. PICK pc : pc = IF body # None THEN "trace.bodies" ELSE "trace.intents"
  OBVIOUS
<1>16. PICK g : g = [p EXCEPT !.paths = paths, !.pc = pc]
  OBVIOUS
<1>17. Join(p) = IF body # None THEN g ELSE Full(g)
  BY <1>1, <1>14, <1>15, <1>16 DEF Join
<1>18. /\ g \in TraceStates(g) /\ g.pc = pc /\ g.cut = p.cut /\ g.intents = p.intents /\ g.n = n
       /\ g.paths = paths /\ g.bodies = p.bodies
  BY <1>3, <1>15, <1>16 DEF TraceStates, TraceSteps
<1>19. Lead(g) = lead
  BY <1>1, <1>3, <1>18 DEF Lead
<1>20. Followed(d, q, g, n - 2) /\ Gathered(d, q, g) /\ TraceHolds(d, q, g)
  BY <1>3, <1>13, <1>18, FollowedGrows, GatheredStays DEF TraceHolds
<1>21. CASE body # None
  <2>1. AtBodies(d, q, g, None)
    <3>1. bodykey = body.key /\ searched = body /\ AtBodies(d, q, p, body)
      BY <1>4, <1>5, <1>7, <1>21
    <3>2. ASSUME ~g.cut, NEW b \in BodiesIn(d, i)
          PROVE  b \in ToSet(p.bodies) \/ CrossingIn(d, q, i, b.key, b) \subseteq Briefs(paths)
      <4>1. b \in ToSet(p.bodies) \/ b = body \/ CrossingIn(d, q, i, b.key, b) \subseteq Briefs(p.paths)
        BY <1>1, <1>18, <3>1, <3>2 DEF AtBodies
      <4>2. CrossingIn(d, q, i, body.key, body) \subseteq Briefs(paths)
        BY <1>11, <1>13, <1>18, <3>1, <3>2
      <4> QED
        BY <1>13, <4>1, <4>2
    <3> QED
      BY <1>1, <1>3, <1>18, <1>19, <3>1, <3>2 DEF AtBodies
  <2>2. TracePlace(d, q, g)
    BY <1>15, <1>18, <1>20, <1>21, <2>1 DEF TraceHolds, TracePlace
  <2> QED
    BY <1>17, <1>18, <1>21, <2>2 DEF TraceStands
<1>22. CASE body = None
  <2>1. Followed(d, q, g, n - 1)
    <3> SUFFICES ASSUME ~g.cut, NEW k \in 1 .. n - 1 PROVE FromIn(d, q, g.intents[k].of) \subseteq Briefs(g.paths)
      BY DEF Followed
    <3>1. CASE k \in 1 .. n - 2
      BY <1>20, <3>1 DEF Followed
    <3>2. CASE k = n - 1
      <4>1. FromIn(d, q, i) = CrossingIn(d, q, i, bodykey, searched)
        BY <1>4, <1>5, <1>7, <1>22 DEF FromIn
      <4>2. g.intents[k].of = i
        BY <1>1, <1>18, <1>19, <3>2 DEF Lead
      <4> QED
        BY <1>11, <1>13, <1>18, <4>1, <4>2
    <3> QED
      BY <1>3, <3>1, <3>2
  <2>2. TraceStands(d, q, Full(g))
    BY <1>15, <1>18, <1>20, <1>22, <2>1, FullOrNot
  <2> QED
    BY <1>17, <1>22, <2>2
<1> QED
  BY <1>21, <1>22

(* A walk to the target that begins with a path that has reached it is that
   path; one that begins with a path that has not goes on along an edge.      *)
LEMMA WalkThatBegins ==
  ASSUME NEW d, NEW start, NEW target, NEW depth \in Nat, NEW nodes \in Partials(d, start, target, depth),
         NEW w \in WalksTo(d, start, target), Begins(nodes, w)
  PROVE  /\ Last(nodes) = target => w = nodes
         /\ Last(nodes) # target =>
              \E e \in EdgesOf(d) : /\ e.source = Last(nodes) /\ e.exact /\ EdgeAllowed(DbOf[d], e) /\ e.target \notin ToSet(nodes)
                                    /\ Begins(Append(nodes, e.target), w)
<1>1. /\ nodes \in Seq(KeysOfDb(d)) /\ nodes # <<>> /\ Len(nodes) \in Nat \ {0}
      /\ w \in Seq(KeysOfDb(d)) /\ Len(w) \in Nat \ {0}
  <2>1. nodes \in Seq(KeysOfDb(d)) /\ nodes # <<>> /\ w \in Seq(KeysOfDb(d)) /\ w # <<>>
    BY DEF Partials, WalksTo, Walk
  <2> QED
    BY <2>1
<1>2. PICK a \in Nat \ {0}, b \in Nat \ {0} : a = Len(nodes) /\ b = Len(w)
  BY <1>1
<1>3. a <= b /\ (\A n \in 1 .. a : nodes[n] = w[n]) /\ w[b] = target /\ (\A n \in 1 .. b - 1 : w[n] # target)
  BY <1>2 DEF Begins, WalksTo, Avoids
<1>4. Last(nodes) = nodes[a] /\ nodes[a] = w[a]
  BY <1>2, <1>3 DEF Last
<1>5. CASE Last(nodes) = target
  <2>1. a = b
    BY <1>3, <1>4, <1>5
  <2>2. DOMAIN w = 1 .. b /\ DOMAIN nodes = 1 .. b /\ \A n \in 1 .. b : nodes[n] = w[n]
    <3>1. DOMAIN w = 1 .. Len(w) /\ DOMAIN nodes = 1 .. Len(nodes)
      BY <1>1
    <3> QED
      BY <1>2, <1>3, <2>1, <3>1
  <2>3. w = [n \in 1 .. b |-> w[n]] /\ nodes = [n \in 1 .. b |-> nodes[n]]
    BY <1>1, <2>2
  <2>4. w = nodes
    BY <2>2, <2>3
  <2> QED
    BY <1>5, <2>4
<1>6. CASE Last(nodes) # target
  <2>1. a < b /\ a \in 1 .. b - 1 /\ a + 1 \in 1 .. b
    BY <1>3, <1>4, <1>6
  <2>2. Hop(d, w[a], w[a + 1]) /\ IsInjective(w)
    BY <1>2, <2>1 DEF WalksTo, Walk
  <2>3. PICK e \in EdgesOf(d) : e.source = w[a] /\ e.exact /\ EdgeAllowed(DbOf[d], e) /\ e.target = w[a + 1]
    BY <2>2 DEF Hop
  <2>4. e.target \notin ToSet(nodes)
    <3> SUFFICES ASSUME NEW n \in DOMAIN nodes, nodes[n] = e.target PROVE FALSE
      BY DEF ToSet
    <3>1. n \in 1 .. a /\ n # a + 1
      BY <1>1, <1>2
    <3>2. n \in DOMAIN w /\ a + 1 \in DOMAIN w /\ w[n] = w[a + 1]
      BY <1>1, <1>2, <1>3, <2>1, <2>3, <3>1
    <3> QED
      BY <2>2, <3>1, <3>2 DEF IsInjective
  <2>5. PICK longer : longer = Append(nodes, e.target)
    OBVIOUS
  <2>6. Len(longer) = a + 1 /\ longer[a + 1] = e.target /\ \A n \in 1 .. a : longer[n] = nodes[n]
    BY <1>1, <1>2, <2>5
  <2>7. \A n \in 1 .. a + 1 : longer[n] = w[n]
    <3>1. \A n \in 1 .. a : longer[n] = w[n]
      BY <1>3, <2>6
    <3>2. longer[a + 1] = w[a + 1]
      BY <2>3, <2>6
    <3>3. \A n \in 1 .. a + 1 : n \in 1 .. a \/ n = a + 1
      OBVIOUS
    <3> QED
      BY <3>1, <3>2, <3>3
  <2>8. Begins(longer, w)
    BY <1>2, <2>1, <2>6, <2>7 DEF Begins
  <2>9. e.source = Last(nodes) /\ Begins(Append(nodes, e.target), w)
    BY <1>4, <2>3, <2>5, <2>8
  <2> QED
    BY <1>6, <2>3, <2>4, <2>9, Zenon
<1> QED
  BY <1>5, <1>6

(* A path with one node more.                                                *)
LEMMA PartialGrows ==
  ASSUME NEW d, NEW start, NEW target, NEW depth \in Nat, NEW nodes \in Partials(d, start, target, depth),
         Last(nodes) # target, ~(Len(nodes) - 1 >= depth), NEW e \in EdgesOf(d), e.source = Last(nodes), e.exact,
         EdgeAllowed(DbOf[d], e), e.target \notin ToSet(nodes)
  PROVE  Append(nodes, e.target) \in Partials(d, start, target, depth)
<1>1. PICK longer : longer = Append(nodes, e.target)
  OBVIOUS
<1>2. nodes \in Seq(KeysOfDb(d)) /\ nodes # <<>> /\ Walk(d, start, nodes) /\ Avoids(nodes, target)
  BY DEF Partials, Walk
<1>3. PICK a \in Nat \ {0} : a = Len(nodes)
  BY <1>2
<1>4. Last(nodes) = nodes[a] /\ a - 1 < depth /\ e.target \in KeysOfDb(d)
  BY <1>3 DEF Last, KeysOfDb
<1>5. Walk(d, start, longer)
  BY <1>1, <1>2, <1>3, <1>4, WalkGrows
<1>6. longer \in Seq(KeysOfDb(d)) /\ Len(longer) = a + 1 /\ \A n \in 1 .. a : longer[n] = nodes[n]
  BY <1>1, <1>2, <1>3, <1>4
<1>7. Len(longer) - 1 <= depth
  BY <1>4, <1>6
<1>8. Avoids(longer, target)
  <2> SUFFICES ASSUME NEW n \in 1 .. a PROVE longer[n] # target
    BY <1>6 DEF Avoids
  <2>1. n = a \/ n \in 1 .. a - 1
    OBVIOUS
  <2> QED
    BY <1>2, <1>3, <1>4, <1>6, <2>1 DEF Avoids
<1> QED
  BY <1>1, <1>5, <1>6, <1>7, <1>8 DEF Partials

(* The paths one node longer that are put into the queue.                    *)
StepsTo(d, nodes) ==
  {e \in EdgesOf(d) : /\ e.source = Last(nodes) /\ e.exact /\ EdgeAllowed(DbOf[d], e) /\ e.target \notin ToSet(nodes)}
Extended(nodes, steps) == [m \in DOMAIN steps |-> Append(nodes, steps[m].target)]
LEMMA ExtendedAre ==
  ASSUME NEW T, NEW nodes, NEW steps, NEW L \in Nat, DOMAIN steps = 1 .. L, \A m \in 1 .. L : Append(nodes, steps[m].target) \in T
  PROVE  Extended(nodes, steps) \in Seq(T)
BY DEF Extended
NextAre(d, parts, nodes, page, next) ==
  /\ next \in Seq(parts) /\ page.truncated \in BOOLEAN /\ Len(page.items) \in Nat
  /\ ~page.truncated => \A e \in StepsTo(d, nodes) : \E m \in DOMAIN next : next[m] = Append(nodes, e.target)
LEMMA NeighboursAre ==
  ASSUME NEW d \in Deployments, NEW start, NEW target, NEW depth \in Nat, NEW nodes \in Partials(d, start, target, depth),
         Last(nodes) # target, ~(Len(nodes) - 1 >= depth),
         NEW page, page = Outgoing(DbOf[d], Last(nodes)),
         NEW steps, steps = Among(page.items, {e \in ToSet(page.items) : EdgeAllowed(DbOf[d], e) /\ e.target \notin ToSet(nodes)}),
         NEW next, next = Extended(nodes, steps)
  PROVE  NextAre(d, Partials(d, start, target, depth), nodes, page, next)
<1>1. PICK rows, out : rows = DbOf[d].edges /\ out = {e \in EdgesOf(d) : e.source = Last(nodes) /\ e.exact}
  OBVIOUS
<1>2. rows \in Seq(EdgesOf(d)) /\ ToSet(rows) = EdgesOf(d) /\ PageSize \in Nat
  BY <1>1, TraceAssumption DEF EdgesOf
<1>3. PageHolds(page, out)
  <2>1. page = Page(Among(rows, out), PageSize)
    BY <1>1, <1>2 DEF Outgoing
  <2>2. PageHolds(page, ToSet(rows) \cap out)
    BY <1>2, <2>1, PageOfSome
  <2>3. ToSet(rows) \cap out = out
    BY <1>1, <1>2
  <2> QED
    BY <2>2, <2>3
<1>4. PICK items, S : /\ items = page.items
                      /\ S = {e \in ToSet(items) : EdgeAllowed(DbOf[d], e) /\ e.target \notin ToSet(nodes)}
  OBVIOUS
<1>5. items \in Seq(out) /\ page.truncated \in BOOLEAN /\ (~page.truncated => \A e \in out : \E n \in DOMAIN items : items[n] = e)
  BY <1>3, <1>4 DEF PageHolds
<1>6. steps \in Seq(out) /\ ToSet(steps) = S
  <2>1. steps = Among(items, S)
    BY <1>4
  <2>2. items \in Seq(out)
    BY <1>5
  <2>3. Among(items, S) \in Seq(out)
    BY <2>2, AmongGrows
  <2>4. ToSet(Among(items, S)) = ToSet(items) \cap S
    BY <2>2, AmongMembers
  <2>5. ToSet(items) \cap S = S
    BY <1>4
  <2> QED
    BY <2>1, <2>3, <2>4, <2>5
<1>7. DOMAIN steps = 1 .. Len(steps) /\ Len(steps) \in Nat /\ Len(items) \in Nat
  BY <1>5, <1>6
<1>8. ASSUME NEW m \in DOMAIN steps PROVE steps[m] \in StepsTo(d, nodes)
  <2>1. steps[m] \in ToSet(steps)
    BY DEF ToSet
  <2>2. steps[m] \in S /\ steps[m] \in out
    <3>1. m \in 1 .. Len(steps)
      BY <1>7
    <3>2. steps[m] \in out
      BY <1>6, <3>1
    <3> QED
      BY <1>6, <2>1, <3>2
  <2> QED
    BY <1>1, <1>4, <2>2 DEF StepsTo
<1>9. next \in Seq(Partials(d, start, target, depth))
  <2>1. ASSUME NEW e \in StepsTo(d, nodes) PROVE Append(nodes, e.target) \in Partials(d, start, target, depth)
    <3>1. e \in EdgesOf(d) /\ e.source = Last(nodes) /\ e.exact /\ EdgeAllowed(DbOf[d], e) /\ e.target \notin ToSet(nodes)
      BY DEF StepsTo
    <3> QED
      BY <3>1, PartialGrows
  <2>2. \A m \in 1 .. Len(steps) : Append(nodes, steps[m].target) \in Partials(d, start, target, depth)
    BY <1>7, <1>8, <2>1
  <2> QED
    BY <1>7, <2>2, ExtendedAre
<1>10. ASSUME ~page.truncated, NEW e \in StepsTo(d, nodes) PROVE \E m \in DOMAIN next : next[m] = Append(nodes, e.target)
  <2>1. e \in out /\ EdgeAllowed(DbOf[d], e) /\ e.target \notin ToSet(nodes)
    BY <1>1 DEF StepsTo
  <2>2. e \in ToSet(items)
    BY <1>5, <1>10, <2>1 DEF ToSet
  <2>3. e \in ToSet(steps)
    BY <1>4, <1>6, <2>1, <2>2
  <2>4. PICK m \in DOMAIN steps : steps[m] = e
    BY <2>3 DEF ToSet
  <2> QED
    BY <2>4 DEF Extended
<1> QED
  BY <1>4, <1>5, <1>7, <1>9, <1>10 DEF NextAre

(* Two queues one after the other hold what each holds.                      *)
Holds(st, s) == \A n \in DOMAIN s : \E m \in DOMAIN st : st[m] = s[n]
LEMMA InEither ==
  ASSUME NEW T, NEW s, s \in Seq(T), NEW t, t \in Seq(T)
  PROVE  s \o t \in Seq(T) /\ Holds(s \o t, s) /\ Holds(s \o t, t)
<1>1. PICK st : st = s \o t
  OBVIOUS
<1>2. /\ st \in Seq(T) /\ Len(s) \in Nat /\ Len(t) \in Nat /\ Len(st) = Len(s) + Len(t)
      /\ \A n \in 1 .. Len(s) + Len(t) : st[n] = IF n <= Len(s) THEN s[n] ELSE t[n - Len(s)]
  BY <1>1, ConcatProperties
<1>3. DOMAIN s = 1 .. Len(s) /\ DOMAIN t = 1 .. Len(t) /\ DOMAIN st = 1 .. Len(s) + Len(t)
  BY <1>2
<1>4. ASSUME NEW n \in DOMAIN s PROVE n \in DOMAIN st /\ st[n] = s[n]
  BY <1>2, <1>3, <1>4
<1>5. ASSUME NEW n \in DOMAIN t PROVE n + Len(s) \in DOMAIN st /\ st[n + Len(s)] = t[n]
  <2>1. n + Len(s) \in 1 .. Len(s) + Len(t) /\ ~(n + Len(s) <= Len(s)) /\ (n + Len(s)) - Len(s) = n
    BY <1>2, <1>3, <1>5
  <2> QED
    BY <1>2, <1>3, <2>1
<1>6. Holds(st, s)
  BY <1>4 DEF Holds
<1>7. Holds(st, t)
  BY <1>5 DEF Holds
<1> QED
  BY <1>1, <1>2, <1>6, <1>7

(* One path of the queue: it is found, or it is cut, or what it goes on to is
   put into the queue.                                                       *)
Goes(p, g, queue, found, cut) == /\ g.pc = p.pc /\ g.queue = queue /\ g.found = found /\ g.cut = cut /\ g.intents = p.intents
                                 /\ g.n = p.n /\ g.paths = p.paths /\ g.body = p.body /\ g.bodies = p.bodies /\ g.depth = p.depth
LEMMA PathIsExtended ==
  ASSUME NEW d \in Deployments, request.served = d, NEW q, q = request.question, NEW start,
         NEW p, p \in TraceStates(p), p.pc = "trace.search", p.depth \in Nat, Searching(d, start, q.target, p), p.queue # <<>>,
         NEW b, b \in TraceStates(b), Goes(p, b, Tail(p.queue), p.found, p.cut),
         NEW g, g = ExtendOne(b, p.queue[1])
  PROVE  /\ g \in TraceStates(g) /\ Goes(p, g, g.queue, g.found, g.cut) /\ (~g.cut => ~p.cut)
         /\ Searching(d, start, q.target, g)
<1>1. PICK depth \in Nat : depth = p.depth
  OBVIOUS
<1>2. PICK target, nodes, rest, parts, walks :
        /\ depth = p.depth /\ target = q.target /\ nodes = p.queue[1] /\ rest = Tail(p.queue)
        /\ parts = Partials(d, start, target, depth) /\ walks = WalksTo(d, start, target)
  BY <1>1
<1>3. PICK queue : queue = p.queue
  OBVIOUS
<1>4. PICK found : found = p.found
  OBVIOUS
<1>5. /\ queue \in Seq(parts) /\ queue # <<>> /\ found \in Seq({w \in walks : Len(w) - 1 <= depth})
      /\ ~p.cut => \A w \in walks : w \in ToSet(found) \/ \E n \in DOMAIN queue : Begins(queue[n], w)
  BY <1>2, <1>3, <1>4 DEF Searching
<1>6. /\ nodes \in parts /\ rest \in Seq(parts)
      /\ \A n \in DOMAIN queue : queue[n] = nodes \/ \E m \in DOMAIN rest : rest[m] = queue[n]
  <2>1. queue \in Seq(parts) /\ queue # <<>> /\ rest = Tail(queue) /\ nodes = queue[1]
    BY <1>2, <1>3, <1>5
  <2>2. Parted(parts, queue, nodes, rest)
    BY <2>1, QueueIsParted
  <2> QED
    BY <2>2 DEF Parted
<1>7. /\ b.pc = "trace.search" /\ b.queue = rest /\ b.found = found /\ b.cut = p.cut /\ p.cut \in BOOLEAN /\ b.depth = depth
      /\ b.edges \in Nat
  BY <1>2, <1>4 DEF Goes, TraceStates
<1>8. ~p.cut => \A w \in walks : w \in ToSet(found) \/ Begins(nodes, w) \/ \E m \in DOMAIN rest : Begins(rest[m], w)
  BY <1>5, <1>6
<1>9. CASE Last(nodes) = target
  <2>1. PICK more : more = Append(found, nodes)
    OBVIOUS
  <2>2. g = [b EXCEPT !.found = more]
    BY <1>2, <1>7, <1>9, <2>1 DEF ExtendOne
  <2>3. g \in TraceStates(g) /\ Goes(p, g, rest, more, p.cut)
    BY <1>2, <1>7, <2>2 DEF TraceStates, Goes
  <2>4. nodes \in walks /\ Len(nodes) - 1 <= depth
    BY <1>2, <1>6, <1>9 DEF Partials, WalksTo, Last
  <2>5. more \in Seq({w \in walks : Len(w) - 1 <= depth}) /\ nodes \in ToSet(more) /\ ToSet(found) \subseteq ToSet(more)
    <3>1. /\ more \in Seq({w \in walks : Len(w) - 1 <= depth}) /\ DOMAIN more = 1 .. Len(found) + 1 /\ DOMAIN found = 1 .. Len(found)
          /\ Len(found) \in Nat /\ more[Len(found) + 1] = nodes /\ \A n \in 1 .. Len(found) : more[n] = found[n]
      BY <1>5, <2>1, <2>4
    <3>2. Len(found) + 1 \in DOMAIN more /\ \A n \in DOMAIN found : n \in DOMAIN more /\ more[n] = found[n]
      BY <3>1
    <3> QED
      BY <3>1, <3>2 DEF ToSet
  <2>6. ASSUME ~p.cut, NEW w \in walks PROVE w \in ToSet(more) \/ \E m \in DOMAIN rest : Begins(rest[m], w)
    <3>1. Begins(nodes, w) => w = nodes
      BY <1>2, <1>6, <1>9, WalkThatBegins
    <3> QED
      BY <1>8, <2>5, <2>6, <3>1
  <2>7. Searching(d, start, target, g)
    BY <1>2, <1>6, <2>3, <2>5, <2>6 DEF Searching, Goes
  <2> QED
    BY <1>2, <2>3, <2>7 DEF Goes
<1>10. CASE Last(nodes) # target /\ Len(nodes) - 1 >= depth
  <2>1. g = [b EXCEPT !.cut = TRUE]
    BY <1>2, <1>7, <1>10 DEF ExtendOne
  <2>2. g \in TraceStates(g) /\ Goes(p, g, rest, found, TRUE)
    BY <1>2, <1>7, <2>1 DEF TraceStates, Goes
  <2>3. Searching(d, start, target, g)
    BY <1>2, <1>5, <1>6, <2>2 DEF Searching, Goes
  <2> QED
    BY <1>2, <2>2, <2>3 DEF Goes
<1>11. CASE Last(nodes) # target /\ ~(Len(nodes) - 1 >= depth)
  <2>1. PICK page : page = Outgoing(DbOf[d], Last(nodes))
    OBVIOUS
  <2>2. PICK steps : steps = Among(page.items, {e \in ToSet(page.items) : EdgeAllowed(DbOf[d], e) /\ e.target \notin ToSet(nodes)})
    OBVIOUS
  <2>3. PICK next : next = Extended(nodes, steps)
    OBVIOUS
  <2>4. /\ next \in Seq(parts) /\ page.truncated \in BOOLEAN /\ Len(page.items) \in Nat
        /\ ~page.truncated => \A e \in StepsTo(d, nodes) : \E m \in DOMAIN next : next[m] = Append(nodes, e.target)
    <3>1. nodes \in Partials(d, start, target, depth)
      BY <1>2, <1>6
    <3>2. NextAre(d, Partials(d, start, target, depth), nodes, page, next)
      BY <1>11, <2>1, <2>2, <2>3, <3>1, NeighboursAre
    <3> QED
      BY <1>2, <3>2 DEF NextAre
  <2>5. PICK edges \in Nat : edges = b.edges + Len(page.items)
    BY <1>7, <2>4
  <2>6. PICK cut \in BOOLEAN : cut = (p.cut \/ page.truncated)
    BY <1>7, <2>4
  <2>7. PICK longer : cut = (p.cut \/ page.truncated) /\ edges = b.edges + Len(page.items) /\ longer = rest \o next
    BY <2>5, <2>6
  <2>8. g = [b EXCEPT !.edges = edges, !.cut = cut, !.queue = longer]
    <3>1. g = Neighbours(b, nodes, page)
      BY <1>2, <1>7, <1>11, <2>1 DEF ExtendOne, Db
    <3>2. g = [b EXCEPT !.edges = @ + Len(page.items), !.cut = @ \/ page.truncated, !.queue = @ \o next]
      BY <2>2, <2>3, <3>1 DEF Neighbours, Db, Extended
    <3> QED
      BY <1>7, <2>7, <3>2 DEF TraceStates
  <2>9. g \in TraceStates(g) /\ Goes(p, g, longer, found, cut)
    BY <1>2, <1>7, <2>7, <2>8 DEF TraceStates, Goes
  <2>10. /\ longer \in Seq(parts)
         /\ \A n \in DOMAIN rest : \E m \in DOMAIN longer : longer[m] = rest[n]
         /\ \A n \in DOMAIN next : \E m \in DOMAIN longer : longer[m] = next[n]
    <3>1. rest \in Seq(parts) /\ next \in Seq(parts)
      BY <1>6, <2>4
    <3>2. longer \in Seq(parts) /\ Holds(longer, rest) /\ Holds(longer, next)
      BY <2>7, <3>1, InEither
    <3> QED
      BY <3>2 DEF Holds
  <2>11. ASSUME ~cut, NEW w \in walks PROVE w \in ToSet(found) \/ \E m \in DOMAIN longer : Begins(longer[m], w)
    <3>1. ~p.cut /\ ~page.truncated
      BY <2>7, <2>11
    <3>2. CASE Begins(nodes, w)
      <4>1. PICK e \in StepsTo(d, nodes) : Begins(Append(nodes, e.target), w)
        <5>1. PICK e \in EdgesOf(d) : /\ e.source = Last(nodes) /\ e.exact /\ EdgeAllowed(DbOf[d], e)
                                      /\ e.target \notin ToSet(nodes) /\ Begins(Append(nodes, e.target), w)
          BY <1>2, <1>6, <1>11, <3>2, WalkThatBegins
        <5> QED
          BY <5>1 DEF StepsTo
      <4>2. PICK m \in DOMAIN next : next[m] = Append(nodes, e.target)
        BY <2>4, <3>1, Zenon
      <4>3. PICK k \in DOMAIN longer : longer[k] = next[m]
        BY <2>10
      <4>4. Begins(longer[k], w)
        BY <4>1, <4>2, <4>3
      <4> QED
        BY <4>4
    <3>3. CASE \E m \in DOMAIN rest : Begins(rest[m], w)
      BY <2>10, <3>3
    <3> QED
      BY <1>8, <3>1, <3>2, <3>3
  <2>12. Searching(d, start, target, g)
    BY <1>2, <1>5, <2>9, <2>10, <2>11 DEF Searching, Goes
  <2> QED
    BY <1>2, <2>7, <2>9, <2>12 DEF Goes
<1> QED
  BY <1>9, <1>10, <1>11

LEMMA PathsAreExtended == TraceInv /\ ExtendPath => TraceInv'
<1> SUFFICES ASSUME TraceInv, ExtendPath PROVE TraceInv'
  OBVIOUS
<1>1. PICK d, q : d = request.served /\ q = request.question
  OBVIOUS
<1>2. progress.pc = "trace.search" /\ progress.pc # "idle" /\ request' = request
  BY DEF ExtendPath
<1>3. /\ d \in Deployments /\ progress \in TraceStates(progress) /\ TracePlace(d, q, progress)
      /\ q.depth \in Nat /\ q.limit \in Nat
  BY <1>1, <1>2, TraceAtHand
<1>4. TraceHolds(d, q, progress) /\ AtSearch(d, q, progress) /\ Followed(d, q, progress, progress.n - 2)
  BY <1>2, <1>3 DEF TracePlace, TraceHolds
<1>5. \A i \in Intents(d) : i # None
  BY <1>3, TraceAssumption DEF Intents
<1>6. PICK start : start = RoutineOf(d, Searched(progress))
  OBVIOUS
<1>7. Searching(d, start, q.target, progress) /\ progress.depth \in Nat /\ progress.cut \in BOOLEAN /\ progress.visited \in Nat
  BY <1>3, <1>4, <1>6 DEF AtSearch, TraceStates
<1>8. CASE progress.queue = <<>> \/ Len(progress.found) >= PathCap \/ Spent
  <2>1. PICK cut \in BOOLEAN : /\ progress' = Join([progress EXCEPT !.cut = cut])
                               /\ ~cut => ~progress.cut /\ progress.queue = <<>>
    <3>1. CASE progress.queue = <<>> \/ Len(progress.found) >= PathCap
      <4>1. progress' = Join([progress EXCEPT !.cut = @ \/ progress.queue # <<>>])
        BY <3>1 DEF ExtendPath
      <4>2. PICK cut \in BOOLEAN : cut = (progress.cut \/ progress.queue # <<>>)
        BY <1>7
      <4>3. [progress EXCEPT !.cut = @ \/ progress.queue # <<>>] = [progress EXCEPT !.cut = cut]
        BY <1>3, <4>2 DEF TraceStates
      <4> QED
        BY <4>1, <4>2, <4>3
    <3>2. CASE ~(progress.queue = <<>> \/ Len(progress.found) >= PathCap) /\ Spent
      <4>1. progress' = Join([progress EXCEPT !.cut = TRUE])
        BY <3>2 DEF ExtendPath
      <4> QED
        BY <4>1
    <3> QED
      BY <1>8, <3>1, <3>2
  <2>2. PICK p : p = [progress EXCEPT !.cut = cut]
    OBVIOUS
  <2>3. p \in TraceStates(p) /\ Goes(progress, p, progress.queue, progress.found, cut)
    BY <1>3, <2>2 DEF TraceStates, Goes
  <2>4. TraceHolds(d, q, p) /\ Followed(d, q, p, p.n - 2)
    BY <1>4, <2>1, <2>3, FollowedGrows, GatheredStays DEF TraceHolds, Goes
  <2>5. Lead(p) = Lead(progress) /\ Searched(p) = Searched(progress)
    BY <2>3 DEF Goes, Lead, Searched
  <2>6. UsedBy(q, p) = UsedBy(q, progress)
    BY <2>3, <2>5 DEF UsedBy, Goes
  <2>7. Searching(d, start, q.target, p)
    BY <1>7, <2>1, <2>3 DEF Searching, Goes
  <2>8. p.body # None => p.body \in BodiesIn(d, Lead(p).of) /\ AtBodies(d, q, p, p.body)
    BY <1>4, <2>1, <2>3, <2>5 DEF AtSearch, AtBodies, Goes
  <2>9. AtSearch(d, q, p)
    BY <1>4, <1>6, <2>3, <2>5, <2>6, <2>7, <2>8 DEF AtSearch, Goes
  <2>10. ~p.cut => WalksTo(d, RoutineOf(d, Searched(p)), q.target) \subseteq ToSet(p.found)
    <3> SUFFICES ASSUME ~p.cut, NEW w \in WalksTo(d, start, q.target) PROVE w \in ToSet(p.found)
      BY <1>6, <2>5
    <3>1. p.queue = <<>>
      BY <2>1, <2>3 DEF Goes
    <3>2. DOMAIN p.queue = {}
      BY <3>1
    <3> QED
      BY <2>7, <3>2 DEF Searching
  <2>11. TraceStands(d, q, Join(p))
    BY <1>1, <1>2, <1>3, <1>5, <2>3, <2>4, <2>9, <2>10, SearchIsJoined DEF Goes
  <2> QED
    BY <1>1, <1>2, <2>1, <2>2, <2>11, StandsNext
<1>9. CASE ~(progress.queue = <<>> \/ Len(progress.found) >= PathCap \/ Spent)
  <2>1. PICK visited \in Nat : visited = progress.visited + 1
    BY <1>7
  <2>2. PICK rest : rest = Tail(progress.queue) /\ visited = progress.visited + 1
    BY <2>1
  <2>3. PICK b : b = [progress EXCEPT !.queue = rest, !.visited = visited]
    OBVIOUS
  <2>4. PICK g : g = ExtendOne(b, progress.queue[1])
    OBVIOUS
  <2>5. progress' = g
    <3>1. b = [progress EXCEPT !.queue = Tail(@), !.visited = @ + 1]
      BY <1>3, <2>2, <2>3 DEF TraceStates
    <3> QED
      BY <1>9, <2>4, <3>1, Zenon DEF ExtendPath
  <2>6. b \in TraceStates(b) /\ Goes(progress, b, Tail(progress.queue), progress.found, progress.cut)
    BY <1>3, <2>2, <2>3 DEF TraceStates, Goes
  <2>7. /\ g \in TraceStates(g) /\ Goes(progress, g, g.queue, g.found, g.cut) /\ (~g.cut => ~progress.cut)
        /\ Searching(d, start, q.target, g)
    BY <1>1, <1>2, <1>3, <1>7, <1>9, <2>4, <2>6, PathIsExtended
  <2>8. Followed(d, q, g, g.n - 2) /\ Gathered(d, q, g)
    BY <1>4, <2>7, FollowedGrows, GatheredStays DEF TraceHolds, Goes
  <2>9. Lead(g) = Lead(progress) /\ Searched(g) = Searched(progress)
    BY <2>7 DEF Goes, Lead, Searched
  <2>10. UsedBy(q, g) = UsedBy(q, progress)
    BY <2>7, <2>9 DEF UsedBy, Goes
  <2>11. g.body # None => g.body \in BodiesIn(d, Lead(g).of) /\ AtBodies(d, q, g, g.body)
    BY <1>4, <2>7, <2>9 DEF AtSearch, AtBodies, Goes
  <2>12. AtSearch(d, q, g)
    BY <1>4, <1>6, <2>7, <2>9, <2>10, <2>11 DEF AtSearch, Goes
  <2>13. TracePlace(d, q, g)
    BY <1>2, <1>4, <2>7, <2>8, <2>12 DEF TraceHolds, TracePlace, Goes
  <2> QED
    BY <1>1, <1>2, <2>5, <2>7, <2>13, TraceGoesOn
<1> QED
  BY <1>8, <1>9

-----------------------------------------------------------------------------
(* The calls of a reported path lead from the entry to the evidence's owner.  *)
LEMMA ChainIsReal ==
  ASSUME NEW d \in Deployments, request.served = d, NEW q, NEW path, path \in GoodPaths(d, q)
  PROVE  RealChain(q, path)
<1>1. PICK chain : chain = path.chain
  OBVIOUS
<1>2. PICK i \in Intents(d) : path.evidence = i.key /\ Leading(d, q, i, chain)
  BY <1>1 DEF GoodPaths, GoodPath
<1>3. ChainOf(d, q, chain) /\ chain \in Seq(CalledFrom(d, q)) /\ (q.entry # None => i.owner = EndOf(q, chain))
  BY <1>2 DEF Leading, ChainOf
<1>4. PICK len \in Nat : len = Len(chain)
  BY <1>3
<1>5. PICK hops : hops = <<q.entry>> \o chain
  OBVIOUS
<1>6. Len(hops) = len + 1 /\ \A n \in 1 .. len + 1 : hops[n] = IF n = 1 THEN q.entry ELSE chain[n - 1]
  <2>1. q.entry \in CalledFrom(d, q)
    BY DEF CalledFrom
  <2>2. <<q.entry>> \in Seq(CalledFrom(d, q)) /\ Len(<<q.entry>>) = 1 /\ <<q.entry>>[1] = q.entry
    BY <2>1
  <2>3. /\ Len(hops) = 1 + len
        /\ \A n \in 1 .. 1 + len : hops[n] = IF n <= 1 THEN <<q.entry>>[n] ELSE chain[n - 1]
    BY <1>3, <1>4, <1>5, <2>2, ConcatProperties
  <2> QED
    BY <2>2, <2>3
<1>7. ASSUME NEW n \in 1 .. Len(hops) - 1
      PROVE  \E m \in DOMAIN App.calls : App.calls[m].source = hops[n] /\ App.calls[m].target = hops[n + 1]
  <2>1. n \in 1 .. len /\ n \in 1 .. len + 1 /\ n + 1 \in 1 .. len + 1 /\ n + 1 # 1 /\ (n + 1) - 1 = n
    BY <1>6
  <2>2. Calling(d, IF n = 1 THEN q.entry ELSE chain[n - 1], chain[n])
    BY <1>3, <1>4, <2>1 DEF ChainOf
  <2>3. hops[n] = (IF n = 1 THEN q.entry ELSE chain[n - 1]) /\ hops[n + 1] = chain[n]
    BY <1>6, <2>1
  <2>4. PICK c \in CallsOf(d) : c.source = hops[n] /\ c.target = hops[n + 1]
    BY <2>2, <2>3 DEF Calling
  <2> QED
    BY <2>4 DEF CallsOf, App, ToSet
<1>8. q.entry # None => IntentAt(App, path.evidence).owner = Last(hops)
  <2> SUFFICES ASSUME q.entry # None PROVE IntentAt(App, path.evidence).owner = Last(hops)
    OBVIOUS
  <2>1. IntentAt(App, path.evidence) = CHOOSE j \in Intents(d) : j.key = i.key
    BY <1>2 DEF IntentAt, App, Intents
  <2>2. \A j \in Intents(d) : j.key = i.key => j = i
    BY TraceAssumption DEF Intents
  <2>3. IntentAt(App, path.evidence) = i
    BY <2>1, <2>2
  <2>4. Last(hops) = EndOf(q, chain)
    <3>1. Last(hops) = hops[len + 1] /\ hops[len + 1] = IF len + 1 = 1 THEN q.entry ELSE chain[(len + 1) - 1]
      BY <1>6 DEF Last
    <3>2. (len + 1) - 1 = len /\ (len + 1 = 1 <=> chain = <<>>)
      BY <1>3, <1>4
    <3> QED
      BY <1>4, <3>1, <3>2 DEF EndOf
  <2> QED
    BY <1>3, <2>3, <2>4
<1> QED
  BY <1>1, <1>5, <1>7, <1>8 DEF RealChain

LEMMA TraceInvGivesComplete == TraceInv => TraceComplete
<1> SUFFICES ASSUME TraceInv, Answered PROVE TraceComplete
  BY DEF TraceComplete
<1>1. PICK d, q : d = request.served /\ q = request.question
  OBVIOUS
<1>2. PICK paths : paths = request.paths
  OBVIOUS
<1>3. /\ d \in Deployments /\ paths \in Seq(GoodPaths(d, q))
      /\ ~request.truncated /\ Len(paths) < q.limit => AllIn(d, q) \subseteq Briefs(paths)
  BY <1>1, <1>2 DEF TraceInv, TraceRequests, TraceAnswers, Answered
<1>4. Reported = Briefs(paths)
  BY <1>2 DEF Reported, Briefs, Brief
<1>5. AllPaths(q) = AllIn(d, q)
  BY <1>1, <1>3, AllPathsAre
<1>6. ASSUME NEW n \in DOMAIN paths PROVE paths[n] \in GoodPaths(d, q)
  <2>1. n \in 1 .. Len(paths)
    BY <1>3
  <2> QED
    BY <1>3, <2>1
<1>7. ASSUME NEW n \in DOMAIN paths
      PROVE  /\ Brief(paths[n]) \in AllIn(d, q) /\ RealChain(q, paths[n])
             /\ q.target # None => Weight(q, paths[n]) <= q.depth
  <2>1. paths[n] \in GoodPaths(d, q)
    BY <1>6
  <2>2. GoodPath(d, q, paths[n])
    BY <2>1 DEF GoodPaths
  <2> QED
    BY <1>1, <1>3, <2>1, <2>2, ChainIsReal DEF GoodPath
<1>8. Reported \subseteq AllPaths(q)
  BY <1>4, <1>5, <1>7 DEF Briefs
<1>9. ~request.truncated /\ Len(paths) < q.limit => Reported = AllPaths(q)
  BY <1>3, <1>4, <1>5, <1>8
<1> QED
  BY <1>1, <1>2, <1>7, <1>8, <1>9 DEF TraceComplete, Weight

LEMMA TraceStep == TraceInv /\ [TraceNext]_vars => TraceInv'
<1> SUFFICES ASSUME TraceInv, [TraceNext]_vars PROVE TraceInv'
  OBVIOUS
<1>1. CASE TraceDeadline
  BY <1>1, TraceIsAnswered DEF TraceDeadline, Deadline
<1>2. CASE UNCHANGED vars
  BY <1>2 DEF vars, TraceInv
<1> QED
  BY <1>1, <1>2, TraceIsAsked, PythonReached, OwnedIsCollected, TargetIsChecked, EvidenceIsResolved, BodyIsFollowed,
     PathsAreExtended, PathsAreReported, TraceIsLate DEF TraceNext

(* Every path a trace answers leads along recorded calls and allowed edges
   from the entry to the target, within the depth; and an answer that is not
   marked truncated, and not filled to its limit, holds every path there is,
   wherever the budgets and the deadline cut the walks
   (federation.py:147-383).                                                  *)
THEOREM TraceIsComplete == TraceSpec => []TraceComplete
<1>1. TraceInit => TraceInv
  BY TraceBegins
<1>2. TraceInv /\ [TraceNext]_vars => TraceInv'
  BY TraceStep
<1> QED
  BY <1>1, <1>2, TraceInvGivesComplete, PTL DEF TraceSpec
=============================================================================
