-------------------------- MODULE RuntimePublication --------------------------
(***************************************************************************)
(* run-compose.sh index-sources, the bulk publication of a generation      *)
(* (src/run-compose.sh:175-269): export, search index and import into new  *)
(* volumes, then the services are stopped, the runtime file is made to     *)
(* name the new volumes, Neo4j is started, bootstrapped and validated, and *)
(* the MCP server is started; a failure puts the previous file back.       *)
(*                                                                         *)
(* Generation 0 is what the default volumes hold; each run of the script   *)
(* has a generation of its own.  The script runs under set -e and may be   *)
(* killed between any two commands.  One script or operator's command runs *)
(* at a time: nothing locks, and nothing claims that they may overlap.     *)
(***************************************************************************)
EXTENDS Integers, FiniteSets

CONSTANTS
  Scripts,   \* how many times the script is run
  Callables  \* the keys of the callables of the sources

VARIABLES
  script,  \* [pc, g, backup]: the run that is in progress, or the last one
  runtime, \* the generation that runtime.env names; 0 if there is no file
  neo4j,   \* the generation of the running Neo4j, or -1
  mcp,     \* the generation whose search index the running MCP server reads, or -1
  volumes, \* of each generation: [staged, graph, zvec], the keys in them
  outcome  \* of each generation: [is, before], how its script ended

scriptVars == <<script, runtime, neo4j, mcp, volumes, outcome>>

Repository == "repository"
ASSUME ScriptAssumption == Scripts \in Nat /\ Repository \notin Callables

Stopped == -1
Ended == {"idle", "ended"}
Continue(pc) == script' = [script EXCEPT !.pc = pc]
At(pc) == script.pc = pc
(* The script ends: it returns, exits because a command failed, or is killed. *)
Ends(how) == Continue("ended") /\ outcome' = [outcome EXCEPT ![script.g].is = how]
SameServices == UNCHANGED <<neo4j, mcp>>

ScriptInit ==
  /\ script = [pc |-> "idle", g |-> 0, backup |-> 0]
  /\ runtime = 0
  /\ neo4j \in {0, Stopped} /\ mcp \in {neo4j, Stopped}
  /\ volumes = [g \in 0..Scripts |-> [staged |-> {}, graph |-> {}, zvec |-> {}]]
  /\ outcome = [g \in 0..Scripts |-> [is |-> "none", before |-> 0]]

StartScript ==
  /\ script.pc \in Ended /\ script.g < Scripts
  /\ script' = [pc |-> "export", g |-> script.g + 1, backup |-> 0]
  /\ outcome' = [outcome EXCEPT ![script.g + 1] = [is |-> "running", before |-> runtime]]
  /\ UNCHANGED <<runtime, neo4j, mcp, volumes>>

(* The three builds, each into a volume of its own; keys may be lost.         *)
Fill(volume, keys) ==
  /\ \E kept \in SUBSET keys : volumes' = [volumes EXCEPT ![script.g][volume] = kept]
  /\ UNCHANGED <<runtime, neo4j, mcp, outcome>>
BulkExport ==
  /\ At("export") /\ Continue("zvec")
  /\ volumes' = [volumes EXCEPT ![script.g].staged = Callables \cup {Repository}]
  /\ UNCHANGED <<runtime, neo4j, mcp, outcome>>
BulkZvec == At("zvec") /\ Continue("import") /\ Fill("zvec", volumes[script.g].staged \ {Repository})
BulkImport == At("import") /\ Continue("backup") /\ Fill("graph", volumes[script.g].staged)

BackupRuntime ==
  /\ At("backup") /\ script' = [script EXCEPT !.pc = "stop", !.backup = runtime]
  /\ UNCHANGED <<runtime, neo4j, mcp, volumes, outcome>>

(* Faulty variant: only Neo4j is stopped.                                    *)
StopGraph ==
  /\ At("stop") /\ Continue("write") /\ neo4j' = Stopped
  /\ UNCHANGED <<runtime, mcp, volumes, outcome>>

StopServing ==
  /\ At("stop") /\ Continue("write") /\ neo4j' = Stopped /\ mcp' = Stopped
  /\ UNCHANGED <<runtime, volumes, outcome>>
(* The server, which depends on Neo4j, is stopped first.                     *)
StopFails ==
  /\ At("stop") /\ Ends("failed") /\ neo4j' = neo4j /\ mcp' \in {mcp, Stopped}
  /\ UNCHANGED <<runtime, volumes>>
WriteRuntime ==
  /\ At("write") /\ Continue("up") /\ runtime' = script.g
  /\ SameServices /\ UNCHANGED <<volumes, outcome>>

UpGraph ==
  /\ At("up") /\ neo4j' = runtime /\ Continue("bootstrap")
  /\ UNCHANGED <<runtime, mcp, volumes, outcome>>
(* Not healthy in time, or not started at all.                               *)
UpGraphFails ==
  /\ At("up") /\ neo4j' \in {runtime, Stopped} /\ Continue("restore")
  /\ UNCHANGED <<runtime, mcp, volumes, outcome>>
Bootstrap ==
  /\ At("bootstrap") /\ \E pc \in {"validate", "restore_stop"} : Continue(pc)
  /\ SameServices /\ UNCHANGED <<runtime, volumes, outcome>>

(* validate_staged_search (src/src/codekg/bulk_search.py:209-323).           *)
Agrees(g) ==
  /\ volumes[g].staged = volumes[g].graph
  /\ volumes[g].graph \ {Repository} \subseteq volumes[g].zvec
ValidateIndex ==
  /\ At("validate") /\ Agrees(neo4j) /\ Continue("discard")
  /\ SameServices /\ UNCHANGED <<runtime, volumes, outcome>>
ValidateFails ==
  /\ At("validate") /\ Continue("restore_stop")
  /\ SameServices /\ UNCHANGED <<runtime, volumes, outcome>>
(* The backup is removed, and the server started.                            *)
Discard ==
  /\ At("discard") /\ script' = [script EXCEPT !.pc = "activate", !.backup = 0]
  /\ SameServices /\ UNCHANGED <<runtime, volumes, outcome>>
Activate ==
  /\ At("activate") /\ mcp' = runtime /\ Ends("published")
  /\ UNCHANGED <<runtime, neo4j, volumes>>
ActivateFails ==
  /\ At("activate") /\ Ends("published") /\ SameServices /\ UNCHANGED <<runtime, volumes>>

StopForRestore ==
  /\ At("restore_stop") /\ Continue("restore") /\ neo4j' = Stopped
  /\ UNCHANGED <<runtime, mcp, volumes, outcome>>
(* Faulty variant: the file is removed, whatever there was before.           *)
RestoreDefault ==
  /\ At("restore") /\ Continue("restore_up") /\ runtime' = 0
  /\ SameServices /\ UNCHANGED <<volumes, outcome>>

RestoreRuntime ==
  /\ At("restore") /\ Continue("restore_up") /\ runtime' = script.backup
  /\ SameServices /\ UNCHANGED <<volumes, outcome>>

(* docker compose up -d neo4j schema_bootstrap mcp: a service of another
   generation is made anew; it may fail before, between and after.           *)
UpAll ==
  \/ neo4j' = runtime /\ mcp' = runtime
  \/ neo4j' = runtime /\ mcp' = mcp
  \/ neo4j' = Stopped /\ mcp' = mcp
  \/ SameServices
RestoreUp ==
  /\ At("restore_up") /\ UpAll /\ Ends("rolled_back") /\ UNCHANGED <<runtime, volumes>>

(* A command fails outside of the tests: set -e ends the script.             *)
CommandFails ==
  /\ script.pc \in {"export", "zvec", "import", "backup", "write", "restore_stop", "restore"}
  /\ Ends(IF runtime = script.g THEN "cut" ELSE "failed")
  /\ SameServices /\ UNCHANGED <<runtime, volumes>>
KillScript ==
  /\ script.pc \notin Ended /\ Ends(IF runtime = script.g THEN "cut" ELSE "failed")
  /\ SameServices /\ UNCHANGED <<runtime, volumes>>

OperatorStarts ==
  /\ script.pc \in Ended /\ UpAll /\ UNCHANGED <<script, runtime, volumes, outcome>>
OperatorStops ==
  /\ script.pc \in Ended /\ neo4j' = Stopped /\ mcp' = Stopped
  /\ UNCHANGED <<script, runtime, volumes, outcome>>

ScriptNext ==
  StartScript \/ BulkExport \/ BulkZvec \/ BulkImport \/ BackupRuntime \/ StopServing \/ StopFails
  \/ WriteRuntime \/ UpGraph \/ UpGraphFails \/ Bootstrap \/ ValidateIndex \/ ValidateFails \/ Discard
  \/ Activate \/ ActivateFails \/ StopForRestore \/ RestoreRuntime \/ RestoreUp \/ CommandFails
  \/ KillScript \/ OperatorStarts \/ OperatorStops

(* The scripts of one host, and nothing else.                                *)
ScriptSpec == ScriptInit /\ [][ScriptNext]_scriptVars

-----------------------------------------------------------------------------
(* The server never answers from the search index of one generation and the
   graph of another, whatever fails and whenever the script is killed; and
   what it answers from was published with its whole graph and index, or was
   there before any publication, or is of a script that was cut off while its
   generation was the current one (run-compose.sh:239-266, README.md:122-126).*)
ServedGeneration ==
  /\ neo4j # Stopped /\ mcp # Stopped => mcp = neo4j
  /\ mcp \notin {Stopped, 0} /\ outcome[mcp].is # "cut" =>
       /\ volumes[mcp].graph = Callables \cup {Repository} /\ volumes[mcp].zvec = Callables
       /\ outcome[mcp].is = "published"

(* A script that fails by itself leaves current what was current before it,
   up to commands that fail while it restores (run-compose.sh:242-262,
   README.md:127).                                                           *)
PreviousRestored ==
  At("ended") /\ outcome[script.g].is \in {"failed", "rolled_back"} => runtime = outcome[script.g].before
=============================================================================
