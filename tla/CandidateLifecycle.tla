------------------------- MODULE CandidateLifecycle -------------------------
(***************************************************************************)
(* `codekg graph prepare` and `codekg graph bootstrap`                     *)
(* (src/src/codekg/graph_lifecycle.py:62-266, 383-460): a generation of    *)
(* one graph is imported offline into a fresh Docker volume, a Neo4j       *)
(* container is started on it, and a later command writes the generation   *)
(* marker that activation and the MCP server verify.                       *)
(*                                                                         *)
(* The commands are separate processes; Docker and Neo4j are the only      *)
(* state they share.  Other people use the same Docker daemon, any command *)
(* may fail or be killed between two calls, and a container may stop.      *)
(*                                                                         *)
(* A candidate is named by its generation and its token; its container,    *)
(* its volume and its network alias carry the same name.  A generation's   *)
(* CSV files are abstracted to the generation itself, and what can be seen *)
(* of an imported database to its label and relationship counts.           *)
(***************************************************************************)
EXTENDS Integers

CONSTANTS
  Operators,      \* concurrent invocations of the command line
  Generations,    \* frozen generations of the graph
  TokenOf,        \* TokenOf[o]: the candidate token an operator's prepares use
  Names,          \* the candidate names in play: pairs of generation and token
  CountsOf,       \* CountsOf[g]: the counts in the manifest of generation g
  Unowned,        \* the label of a volume or container made by somebody else
  Missing         \* no volume, no container

Tokens == {TokenOf[o] : o \in Operators}

ASSUME CandidateAssumption ==
  /\ Unowned \notin Tokens /\ Missing \notin Tokens /\ Unowned # Missing
  /\ {"empty", "partial"} \cap Generations = {}
  /\ Names \subseteq Generations \X Tokens
  /\ Names # {}

VARIABLES
  volume,     \* per name: its label, the data in it, is an import running on it
  container,  \* per name: its label, is it running
  markers,    \* per name: how many CodeKGGeneration nodes name each generation
  op          \* the command each operator runs

lifecycleVars == <<volume, container, markers, op>>

-----------------------------------------------------------------------------
Volume    == [label : Tokens \cup {Unowned, Missing},
              data  : Generations \cup {"empty", "partial"},
              importing : BOOLEAN,
              maker : Operators \cup {Missing}]       \* history: who created it
Container == [label : Tokens \cup {Unowned, Missing}, running : BOOLEAN]

NoVolume    == [label |-> Missing, data |-> "empty", importing |-> FALSE, maker |-> Missing]
NoContainer == [label |-> Missing, running |-> FALSE]

PrepareSteps   == {"containers", "volumes", "create", "inspect", "import",
                   "importing", "run", "running", "cleanup"}
BootstrapSteps == {"counts", "existing", "marker", "match", "merge", "verify"}

(* name: the candidate a prepare makes, or the endpoint a bootstrap talks
   to; generation: the registry's generation for the graph.                 *)
Command == [pc : {"idle"} \cup PrepareSteps \cup BootstrapSteps,
            name : Names, generation : Generations]

Running(o)   == op[o].pc # "idle"
Unused       == LET n == CHOOSE n \in Names : TRUE
                IN  [pc |-> "idle", name |-> n, generation |-> n[1]]
Goto(o, pc)  == op' = [op EXCEPT ![o] = IF pc = "idle" THEN Unused
                                                       ELSE [@ EXCEPT !.pc = pc]]
Mine(o)      == volume[op[o].name]
Server(o)    == container[op[o].name]
Marked(n)    == {g \in Generations : markers[n][g] > 0}

Init ==
  /\ volume = [n \in Names |-> NoVolume]
  /\ container = [n \in Names |-> NoContainer]
  /\ markers = [n \in Names |-> [g \in Generations |-> 0]]
  /\ op = [o \in Operators |-> Unused]

-----------------------------------------------------------------------------
(* prepare_graph_candidate.  The token is part of the name.                 *)
BeginPrepare(o, g) ==
  /\ ~Running(o)
  /\ <<g, TokenOf[o]>> \in Names
  /\ op' = [op EXCEPT ![o] = [pc |-> "containers", name |-> <<g, TokenOf[o]>>,
                              generation |-> g]]
  /\ UNCHANGED <<volume, container, markers>>

(* docker container ls: an existing candidate container ends the command.   *)
ListContainers(o) ==
  /\ op[o].pc = "containers"
  /\ Server(o).label = Missing
  /\ Goto(o, "volumes")
  /\ UNCHANGED <<volume, container, markers>>

(* docker volume ls: "refusing reuse".                                      *)
ListVolumes(o) ==
  /\ op[o].pc = "volumes"
  /\ Mine(o).label = Missing
  /\ Goto(o, "create")
  /\ UNCHANGED <<volume, container, markers>>

(* docker volume create succeeds, and changes nothing, if the name exists.  *)
CreateVolume(o) ==
  /\ op[o].pc = "create"
  /\ volume' = [volume EXCEPT ![op[o].name] =
                  IF @.label = Missing
                  THEN [NoVolume EXCEPT !.label = TokenOf[o], !.maker = o] ELSE @]
  /\ Goto(o, "inspect")
  /\ UNCHANGED <<container, markers>>

(* Faulty variant: the label is not compared after the create.              *)
InspectNothing(o) ==
  /\ op[o].pc = "inspect"
  /\ Goto(o, "import")
  /\ UNCHANGED <<volume, container, markers>>

(* docker volume inspect: another label is a collision.                     *)
InspectVolume(o) ==
  /\ op[o].pc = "inspect"
  /\ Mine(o).label = TokenOf[o]
  /\ Goto(o, "import")
  /\ UNCHANGED <<volume, container, markers>>

(* docker run neo4j-admin database import full: refuses an existing store.  *)
BeginImport(o) ==
  /\ op[o].pc = "import"
  /\ Mine(o).data = "empty"
  /\ volume' = [volume EXCEPT ![op[o].name] =
                  [@ EXCEPT !.data = "partial", !.importing = TRUE]]
  /\ Goto(o, "importing")
  /\ UNCHANGED <<container, markers>>

(* The import container ends, well or not, whether or not the command that
   started it is still waiting for it.                                      *)
ImportEnds(n) ==
  /\ volume[n].importing
  /\ \E data \in {"partial", n[1]} :
       volume' = [volume EXCEPT ![n] = [@ EXCEPT !.data = data, !.importing = FALSE]]
  /\ UNCHANGED <<container, markers, op>>

(* Faulty variant: the exit status of the import is ignored.                *)
ImportAnyhow(o) ==
  /\ op[o].pc = "importing"
  /\ ~Mine(o).importing
  /\ Goto(o, "run")
  /\ UNCHANGED <<volume, container, markers>>

(* _docker_output raises unless the import exited with status 0.            *)
ImportSucceeded(o) ==
  /\ op[o].pc = "importing"
  /\ ~Mine(o).importing
  /\ Mine(o).data = op[o].generation
  /\ Goto(o, "run")
  /\ UNCHANGED <<volume, container, markers>>

(* docker run --detach --name: refuses a name in use.  It may also fail to
   start the container it created; no id is printed then and nothing is
   cleaned up.                                                              *)
RunContainer(o) ==
  /\ op[o].pc = "run"
  /\ Server(o).label = Missing
  /\ \E started \in BOOLEAN :
       /\ container' = [container EXCEPT ![op[o].name] =
                          [label |-> TokenOf[o], running |-> started]]
       /\ Goto(o, IF started THEN "running" ELSE "idle")
  /\ UNCHANGED <<volume, markers>>

(* docker inspect: a container that is not running is removed.              *)
InspectRunning(o) ==
  /\ op[o].pc = "running"
  /\ Goto(o, IF Server(o).running THEN "idle" ELSE "cleanup")
  /\ UNCHANGED <<volume, container, markers>>

(* _docker_cleanup_container: checks the label, then docker rm --force; the
   volume is kept.                                                          *)
CleanupContainer(o) ==
  /\ op[o].pc = "cleanup"
  /\ container' = IF Server(o).label = TokenOf[o]
                  THEN [container EXCEPT ![op[o].name] = NoContainer] ELSE container
  /\ Goto(o, "idle")
  /\ UNCHANGED <<volume, markers>>

-----------------------------------------------------------------------------
(* bootstrap_graph.  The endpoint comes from the environment and may be any
   running candidate, the wrong one included.                               *)
BeginBootstrap(o, n, g) ==
  /\ ~Running(o)
  /\ container[n].running
  /\ op' = [op EXCEPT ![o] = [pc |-> "counts", name |-> n, generation |-> g]]
  /\ UNCHANGED <<volume, container, markers>>

(* A call to the database: it is up.                                        *)
Call(o, from, to) ==
  /\ op[o].pc = from
  /\ Server(o).running
  /\ Goto(o, to)
  /\ UNCHANGED <<volume, container>>

Counts(data) == IF data \in Generations THEN CountsOf[data] ELSE 0

(* Faulty variant: the database is marked without counting.                 *)
CountNothing(o) == Call(o, "counts", "existing") /\ UNCHANGED markers

(* verify_import_counts: every label and relationship type.                 *)
VerifyCounts(o) ==
  /\ Call(o, "counts", "existing")
  /\ Counts(Mine(o).data) = CountsOf[op[o].generation]
  /\ UNCHANGED markers

OnlyMarker(n, g) == markers[n] = [h \in Generations |-> IF h = g THEN 1 ELSE 0]

(* _validate_existing_marker, then bootstrap_schema, which has no constraint
   on the marker.                                                           *)
ExistingMarker(o) ==
  /\ Call(o, "existing", "marker")
  /\ Marked(op[o].name) = {} \/ OnlyMarker(op[o].name, op[o].generation)
  /\ UNCHANGED markers

(* write_generation_marker reads the markers first...                       *)
InspectMarker(o) ==
  /\ Call(o, "marker", "match")
  /\ Marked(op[o].name) \subseteq {op[o].generation}
  /\ UNCHANGED markers

(* Faulty variant: CREATE in place of MERGE.                                *)
CreateUnmatched(o) == Call(o, "match", "merge") /\ UNCHANGED markers

(* ... then MERGE finds the graph's marker, or finds none and creates it.
   No constraint makes the two steps one.                                   *)
MergeMatches(o) ==
  /\ Call(o, "match", IF Marked(op[o].name) = {} THEN "merge" ELSE "verify")
  /\ Marked(op[o].name) # {} => OnlyMarker(op[o].name, op[o].generation)
  /\ UNCHANGED markers

(* A transaction that fails transiently is run again by the driver.         *)
MergeCreates(o) ==
  \/ /\ Call(o, "merge", "verify")
     /\ markers' = [markers EXCEPT ![op[o].name][op[o].generation] = @ + 1]
  \/ /\ Call(o, "merge", "match")
     /\ UNCHANGED markers

(* verify_graph_marker: exactly one marker, of this generation.             *)
VerifyMarker(o) ==
  /\ Call(o, "verify", "idle")
  /\ OnlyMarker(op[o].name, op[o].generation)
  /\ UNCHANGED markers

-----------------------------------------------------------------------------
(* A check failed, a call raised, or the process was killed.  Once the
   container id is known, an exception removes the container; a kill does
   not.                                                                     *)
Abort(o) ==
  /\ Running(o)
  /\ Goto(o, "idle") \/ (op[o].pc = "running" /\ Goto(o, "cleanup"))
  /\ UNCHANGED <<volume, container, markers>>

(* Other users of the daemon: somebody makes a volume or a container of that
   name, removes a container, or stops or starts one.                       *)
ForeignVolume(n) ==
  /\ volume[n].label = Missing
  /\ volume' = [volume EXCEPT ![n].label = Unowned]
  /\ UNCHANGED <<container, markers, op>>

ForeignContainer(n) ==
  /\ container[n].label = Missing
  /\ container' = [container EXCEPT ![n] = [label |-> Unowned, running |-> FALSE]]
  /\ UNCHANGED <<volume, markers, op>>

StopOrStart(n) ==
  /\ container[n].label \in Tokens
  /\ container' = [container EXCEPT ![n].running = ~@]
  /\ UNCHANGED <<volume, markers, op>>

Prepare(o) ==
  \/ \E g \in Generations : BeginPrepare(o, g)
  \/ ListContainers(o) \/ ListVolumes(o) \/ CreateVolume(o) \/ InspectVolume(o)
  \/ BeginImport(o) \/ ImportSucceeded(o) \/ RunContainer(o)
  \/ InspectRunning(o) \/ CleanupContainer(o)

Bootstrap(o) ==
  \/ \E n \in Names, g \in Generations : BeginBootstrap(o, n, g)
  \/ VerifyCounts(o) \/ ExistingMarker(o) \/ InspectMarker(o)
  \/ MergeMatches(o) \/ MergeCreates(o) \/ VerifyMarker(o)

Docker(n) ==
  ImportEnds(n) \/ ForeignVolume(n) \/ ForeignContainer(n) \/ StopOrStart(n)

Next ==
  \/ \E o \in Operators : Prepare(o) \/ Bootstrap(o) \/ Abort(o)
  \/ \E n \in Names : Docker(n)

Spec == Init /\ [][Next]_lifecycleVars

-----------------------------------------------------------------------------
TypeOK ==
  /\ volume \in [Names -> Volume]
  /\ container \in [Names -> Container]
  /\ markers \in [Names -> [Generations -> Nat]]
  /\ op \in [Operators -> Command]

(* A candidate container serves exactly the generation it is named for, whole
   (graph_lifecycle.py:156-165: the import must succeed before docker run).  *)
StartedIsImported ==
  \A n \in Names : container[n].label \in Tokens =>
    volume[n].data = n[1] /\ ~volume[n].importing

(* A marker vouches for a finished import whose counts are those of the
   generation it names, even when a bootstrap was pointed at the wrong
   candidate (graph_lifecycle.py:392-398).                                  *)
MarkedWasCounted ==
  \A n \in Names : \A g \in Marked(n) :
    /\ volume[n].data \in Generations
    /\ CountsOf[volume[n].data] = CountsOf[g]

(* "The dedicated Neo4j instance is expected to contain exactly one marker"
   (graph_artifacts.py:14-15): two would make it unverifiable for good.  A
   database with one marker, or none, and at most one MERGE about to create
   the first, stays so through retries, unconfirmed commits, kills and any
   number of bootstraps, except where a second MERGE finds nothing before the
   first has created its node: no constraint forbids that.                  *)
Creating(n)   == {o \in Operators : op[o].pc = "merge" /\ op[o].name = n}
Settled(n, g) == OnlyMarker(n, g) /\ Creating(n) = {}
FirstDue(n)   == Marked(n) = {} /\ \A o, p \in Creating(n) : o = p
AtMostOne(n)  == FirstDue(n) \/ \E g \in Generations : Settled(n, g)
Races(n) ==
  Marked(n) = {} /\ Marked(n)' = {} /\ \E o \in Creating(n) : o \in Creating(n)'
SecondMarkerOnlyByRace ==
  [][\A n \in Names : AtMostOne(n) => AtMostOne(n)' \/ Races(n)]_lifecycleVars

(* A prepare imports only into the volume it created itself, although it
   looks for the name and creates it in two calls (graph_lifecycle.py:113-155).
   *)
ImportsOwnVolume ==
  [][\A o \in Operators : BeginImport(o) => Mine(o).maker = o]_lifecycleVars
=============================================================================
