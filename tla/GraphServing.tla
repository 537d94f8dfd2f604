---------------------------- MODULE GraphServing ----------------------------
(***************************************************************************)
(* An MCP server process that answers federated requests on several        *)
(* threads (src/src/codekg/federation.py:19-71, 792-820, and                *)
(* GraphHandle in src/src/codekg/graph_registry.py:65-146): the registry    *)
(* is read once per process, handles and their Neo4j clients are made on    *)
(* first use, and the marker of each backend is read at the beginning of a  *)
(* request.  Meanwhile operators activate other registries, replace what a  *)
(* backend holds, and end or restart the server.                            *)
(***************************************************************************)
EXTENDS Integers, Sequences, FiniteSets

CONSTANTS
  Threads,
  Order,         \* the two graphs of the bridge context: application, database
  Versions,      \* activated registries; Versions is also what a backend may hold
  None,
  MaxEvents,     \* bound on activations, replacements, outages and restarts
  Bolts          \* how many Neo4j clients there may be (more than are ever needed)

VARIABLES
  file,      \* the registry that is activated
  backend,   \* backend[g]: the generation its Neo4j holds, None if it is down
  pinned,    \* _REGISTRY of the process
  handles,   \* _HANDLES: the graphs that have one
  client,    \* client[g]: _client of the handle of g
  lock,      \* lock[g]: the thread that holds the handle's _lock
  open,      \* the clients that were created and not closed
  thread,    \* the local variables of each thread's request
  events

Graphs == {Order[n] : n \in DOMAIN Order}

ASSUME ServingAssumption ==
  /\ None \notin Threads \cup Versions \cup 1..Bolts
  /\ Order \in Seq(Graphs) /\ Order # <<>>
  /\ Bolts \in Nat /\ Cardinality(Graphs) <= Bolts

vars == <<file, backend, pinned, handles, client, lock, open, thread, events>>
shared == <<file, backend, pinned, handles, client, lock, open, events>>

Quiet == [pc |-> "quiet", reg |-> None, n |-> 1, mine |-> None,
          data |-> {}, disturbed |-> FALSE]

Init ==
  /\ file \in Versions /\ backend \in [Graphs -> Versions]
  /\ pinned = None /\ handles = {} /\ client = [g \in Graphs |-> None]
  /\ lock = [g \in Graphs |-> None] /\ open = {}
  /\ thread = [t \in Threads |-> Quiet] /\ events = 0

GraphOf(t) == Order[thread[t].n]
Goto(t, pc) == thread' = [thread EXCEPT ![t].pc = pc]

-----------------------------------------------------------------------------
(* Faulty variant: every request reads the activated file.                   *)
BeginUnpinned(t) ==
  /\ thread[t].pc = "quiet"
  /\ pinned' = file
  /\ thread' = [thread EXCEPT ![t] = [Quiet EXCEPT !.pc = "handle", !.reg = pinned']]
  /\ UNCHANGED <<file, backend, handles, client, lock, open, events>>

(* registry(): under _LOCK, the first request reads the activated file.      *)
Begin(t) ==
  /\ thread[t].pc = "quiet"
  /\ pinned' = IF pinned = None THEN file ELSE pinned
  /\ thread' = [thread EXCEPT ![t] = [Quiet EXCEPT !.pc = "handle", !.reg = pinned']]
  /\ UNCHANGED <<file, backend, handles, client, lock, open, events>>

(* handle(): under _LOCK, a graph's handle is made on first use; then
   verify_generation looks, without the handle's lock, whether it has a client. *)
GetHandle(t) ==
  /\ thread[t].pc = "handle"
  /\ handles' = handles \cup {GraphOf(t)}
  /\ Goto(t, IF client[GraphOf(t)] = None THEN "wait" ELSE "verify")
  /\ UNCHANGED <<file, backend, pinned, client, lock, open, events>>

(* _ensure_client: the lock, the second test, a new client.                  *)
Lock(t) ==
  /\ thread[t].pc = "wait" /\ lock[GraphOf(t)] = None
  /\ lock' = [lock EXCEPT ![GraphOf(t)] = t]
  /\ Goto(t, "locked")
  /\ UNCHANGED <<file, backend, pinned, handles, client, open, events>>

(* Faulty variant: no second test under the lock.                            *)
CreateUntested(t) ==
  /\ thread[t].pc = "locked"
  /\ LET b == CHOOSE c \in 1 .. Bolts : c \notin open
     IN  /\ open' = open \cup {b}
         /\ thread' = [thread EXCEPT ![t].pc = "first", ![t].mine = b]
  /\ UNCHANGED <<file, backend, pinned, handles, client, lock, events>>

Create(t) ==
  /\ thread[t].pc = "locked" /\ client[GraphOf(t)] = None
  /\ LET b == CHOOSE c \in 1 .. Bolts : c \notin open
     IN  /\ open' = open \cup {b}
         /\ thread' = [thread EXCEPT ![t].pc = "first", ![t].mine = b]
  /\ UNCHANGED <<file, backend, pinned, handles, client, lock, events>>

Found(t) ==
  /\ thread[t].pc = "locked" /\ client[GraphOf(t)] # None
  /\ lock' = [lock EXCEPT ![GraphOf(t)] = None]
  /\ Goto(t, "verified")
  /\ UNCHANGED <<file, backend, pinned, handles, client, open, events>>

(* The marker of the backend is the one of the pinned generation.            *)
Matches(t) == backend[GraphOf(t)] = thread[t].reg

FirstVerified(t) ==
  /\ thread[t].pc = "first" /\ Matches(t)
  /\ client' = [client EXCEPT ![GraphOf(t)] = thread[t].mine]
  /\ lock' = [lock EXCEPT ![GraphOf(t)] = None]
  /\ thread' = [thread EXCEPT ![t].pc = "verified", ![t].mine = None]
  /\ UNCHANGED <<file, backend, pinned, handles, open, events>>

(* Faulty variant: the failure leaves the lock taken.                        *)
FirstRefusedLocked(t) ==
  /\ thread[t].pc = "first" /\ ~Matches(t)
  /\ open' = open \ {thread[t].mine}
  /\ thread' = [thread EXCEPT ![t].pc = "error", ![t].mine = None]
  /\ UNCHANGED <<file, backend, pinned, handles, client, lock, events>>

(* except: the client is closed, the lock released, the request fails.       *)
FirstRefused(t) ==
  /\ thread[t].pc = "first" /\ ~Matches(t)
  /\ open' = open \ {thread[t].mine}
  /\ lock' = [lock EXCEPT ![GraphOf(t)] = None]
  /\ thread' = [thread EXCEPT ![t].pc = "error", ![t].mine = None]
  /\ UNCHANGED <<file, backend, pinned, handles, client, events>>

(* _verify_marker through the client that is there.                          *)
Verify(t) ==
  /\ thread[t].pc = "verify"
  /\ Goto(t, IF client[GraphOf(t)] \in open /\ Matches(t) THEN "verified" ELSE "error")
  /\ UNCHANGED shared

(* Both handles are verified one after the other; then the Neo4j reads.      *)
NextHandle(t) ==
  /\ thread[t].pc = "verified"
  /\ thread' = IF thread[t].n = Len(Order) THEN [thread EXCEPT ![t].pc = "read"]
               ELSE [thread EXCEPT ![t].pc = "handle", ![t].n = @ + 1]
  /\ UNCHANGED shared

Read(t) ==
  /\ thread[t].pc = "read"
  /\ thread' = IF \A g \in Graphs : client[g] \in open /\ backend[g] # None
               THEN [thread EXCEPT ![t].pc = "answer", ![t].data = {backend[g] : g \in Graphs}]
               ELSE [thread EXCEPT ![t].pc = "error"]
  /\ UNCHANGED shared

Return(t) ==
  /\ thread[t].pc \in {"answer", "error"}
  /\ thread' = [thread EXCEPT ![t] = Quiet]
  /\ UNCHANGED shared

-----------------------------------------------------------------------------
Event == events < MaxEvents /\ events' = events + 1

Activate(v) ==
  /\ Event /\ v # file /\ file' = v
  /\ UNCHANGED <<backend, pinned, handles, client, lock, open, thread>>

(* A backend is stopped, or replaced by one of another generation.           *)
Replace(g, v) ==
  /\ Event /\ v # backend[g]
  /\ backend' = [backend EXCEPT ![g] = v]
  /\ thread' = [t \in Threads |-> 
               [thread[t] EXCEPT !.disturbed = thread[t].pc # "quiet"]]
  /\ UNCHANGED <<file, pinned, handles, client, lock, open>>

(* atexit: the handles are forgotten and then closed one by one, each under
   its lock; a client being verified is not the handle's yet.                *)
Exit ==
  /\ Event
  /\ \A t \in Threads : thread[t].pc = "quiet"
  /\ open' = open \ {client[g] : g \in handles}
  /\ client' = [g \in Graphs |-> None] /\ handles' = {} /\ pinned' = None
  /\ UNCHANGED <<file, backend, lock, thread>>

(* The process is killed, with its connections.                              *)
KillServer ==
  /\ Event
  /\ pinned' = None /\ handles' = {} /\ client' = [g \in Graphs |-> None]
  /\ lock' = [g \in Graphs |-> None] /\ open' = {} /\ thread' = [t \in Threads |-> Quiet]
  /\ UNCHANGED <<file, backend>>

Step(t) ==
  \/ GetHandle(t) \/ Lock(t) \/ Create(t) \/ Found(t) \/ FirstVerified(t) \/ FirstRefused(t) \/ Verify(t)
  \/ NextHandle(t) \/ Read(t)

Next ==
  \/ \E t \in Threads : Begin(t) \/ Step(t) \/ Return(t)
  \/ \E v \in Versions : Activate(v)
  \/ \E g \in Graphs, v \in Versions \cup {None} : Replace(g, v)
  \/ Exit \/ KillServer

(* A thread that is running goes on, and a lock that is released again and
   again is some day obtained.                                               *)
Spec == Init /\ [][Next]_vars /\ \A t \in Threads : WF_vars(Step(t)) /\ SF_vars(Lock(t))

-----------------------------------------------------------------------------
(* The threads of a process work on one registry, whatever is activated
   meanwhile, and an answer whose backends nobody replaced since its markers
   were read comes from that registry's generations (federation.py:37-55,
   graph_registry.py:107-133).                                               *)
AnswersFromPinnedRegistry ==
  \A t \in Threads :
    /\ thread[t].pc # "quiet" => thread[t].reg = pinned
    /\ thread[t].pc = "answer" /\ ~thread[t].disturbed => thread[t].data = {pinned}

(* However the unlocked first tests interleave, a handle never has two open
   clients, and every open client is its handle's or that of the thread which
   is verifying it under the lock (graph_registry.py:82-105).                *)
Owner(b) == {g \in Graphs : client[g] = b}
OneClientPerHandle ==
  \A b \in open :
    \/ Owner(b) # {}
    \/ \E t \in Threads : thread[t].pc = "first" /\ thread[t].mine = b
                          /\ lock[GraphOf(t)] = t /\ client[GraphOf(t)] = None

(* Every request is answered or refused, whatever fails while a lock is held. *)
RequestsEnd == \A t \in Threads : thread[t].pc = "handle" ~> thread[t].pc \in {"answer", "error", "quiet"}
=============================================================================
