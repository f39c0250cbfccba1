---------------------------- MODULE NativeGraph ----------------------------
(***************************************************************************)
(* The native runtime graphs of abi.rs: a Core runtime counted between a   *)
(* SharedRuntime handle and the graphs attached to it, each graph with its *)
(* client, start tickets, retained waits, live worker and replay worker,   *)
(* its close (explicit or by the collector) and its cleanup thread.        *)
(*                                                                         *)
(* A graph's calls are exclusive.  Start tasks, detached finalizers, the   *)
(* replay lane and the cleanup threads run beside them.  How a live worker *)
(* drains is modelled in WorkflowLane and ActivityLane; here it has the    *)
(* outcomes of finalize_bounded.  A graph made with a Core of its own is   *)
(* the case of a handle that is released first.                            *)
(***************************************************************************)
EXTENDS Replay

CONSTANTS
    Graphs,          \* the graphs that may be attached
    Replayer,        \* the graph whose replay worker is modelled
    Starts,          \* the start requests
    graph,           \* [Starts -> Graphs]: the graph a request is made on
    pending_starts,  \* ClientLimits::pending_starts, scaled down
    Workloads        \* what a behaviour uses: its graphs, those that connect
                     \* a client, its starts and its histories

ASSUME GraphAssumption ==
    /\ Replayer \in Graphs
    /\ graph \in [Starts -> Graphs]
    /\ pending_starts \in Nat \ {0}
    /\ Workloads \subseteq [graphs : SUBSET Graphs, clients : SUBSET Graphs,
                            starts : SUBSET Starts, histories : SUBSET Histories]

VARIABLES
    shared,     \* the SharedRuntime handle: "held", "releasing" or "released"
    core,       \* the Core runtime: "alive" or "dropped"
    phase,      \* per graph: its life, and where its close or cleanup is
    client,     \* per graph: a connection is held
    waiting,    \* per graph: a history observation is retained
    worker,     \* per graph: the live worker, "none", "running" or "draining"
    finalizer,  \* per graph: a detached task that owns a worker
    start,      \* per request: its task
    tickets,    \* the requests in pending_starts of their graph
    handles,    \* the join handles moved out of the maps and not yet awaited
    workload    \* the workload of this behaviour

graphVars == <<shared, core, phase, client, waiting, worker, finalizer, start, tickets, handles,
               workload>>
vars == <<graphVars, replayVars>>

Phases == {"unborn", "open", "disconnecting", "closing", "tasks", "worker", "replay",
           "references", "gone"}

Init ==
    /\ ReplayInit
    /\ shared = "held" /\ core = "alive"
    /\ phase = [g \in Graphs |-> "unborn"]
    /\ client = [g \in Graphs |-> FALSE] /\ waiting = [g \in Graphs |-> FALSE]
    /\ worker = [g \in Graphs |-> "none"] /\ finalizer = [g \in Graphs |-> "none"]
    /\ start = [s \in Starts |-> "none"] /\ tickets = {} /\ handles = {}
    /\ workload \in Workloads /\ (workload.histories = {} => fault = "none")

StartsOf(g) == {s \in Starts : graph[s] = g}
Runs(s)     == start[s] \in {"running", "aborted"}
Holders     == {g \in Graphs : phase[g] \notin {"unborn", "gone"}}

\* The graph's exclusive reference is free for another call.
Open(g) == phase[g] = "open" /\ (g = Replayer => call = "none")

(***************************************************************************)
(* Creation and the client.                                                *)
(***************************************************************************)
attach(g) ==
    /\ shared = "held" /\ phase[g] = "unborn" /\ g \in workload.graphs
    /\ phase' = [phase EXCEPT ![g] = "open"]
    /\ UNCHANGED <<shared, core, client, waiting, worker, finalizer, start, tickets, handles>>

\* Nothing is published unless the connection is made.
connect_client(g) ==
    /\ Open(g) /\ ~client[g] /\ g \in workload.clients
    /\ client' = [client EXCEPT ![g] = TRUE]
    /\ UNCHANGED <<shared, core, phase, waiting, worker, finalizer, start, tickets, handles>>

\* A repeated begin finds its ticket and changes nothing.
begin_start(s) ==
    LET g == graph[s] IN
    /\ Open(g) /\ client[g] /\ start[s] = "none" /\ s \in workload.starts
    /\ Cardinality(tickets \cap StartsOf(g)) < pending_starts
    /\ start' = [start EXCEPT ![s] = "running"] /\ tickets' = tickets \cup {s}
    /\ UNCHANGED <<shared, core, phase, client, waiting, worker, finalizer, handles>>

\* The task sends its result and ends, or ends without one; a task that was
\* aborted ends at its next suspension point, unless it has sent before.
StartEnds(s) ==
    /\ Runs(s)
    /\ \E how \in {"sent", "died"} : start' = [start EXCEPT ![s] = how]
    /\ UNCHANGED <<shared, core, phase, client, waiting, worker, finalizer, tickets, handles>>

\* A ticket is retired by the read that finds its result, or finds that there
\* is none: that start is reported as unknown.
read_start(s) ==
    /\ Open(graph[s]) /\ client[graph[s]] /\ s \in tickets /\ ~Runs(s)
    /\ start' = [start EXCEPT ![s] = IF @ = "sent" THEN "answered" ELSE "unknown"]
    /\ tickets' = tickets \ {s}
    /\ UNCHANGED <<shared, core, phase, client, waiting, worker, finalizer, handles>>

\* wait_workflow_json keeps the future while it is not ready and drops it
\* when it has a result or an error.
observe(g) ==
    /\ Open(g) /\ client[g]
    /\ waiting' = [waiting EXCEPT ![g] = ~@]
    /\ UNCHANGED <<shared, core, phase, client, worker, finalizer, start, tickets, handles>>

(***************************************************************************)
(* The live worker.                                                        *)
(***************************************************************************)
Exclusive(g) == worker[g] = "none" /\ (g = Replayer => slot = "none")

\* A finalizer that its caller no longer awaits: it suspends, or it blocks a
\* thread on the end of Core's own.  Bound: one of a graph at a time.
Detached == {"suspended", "blocking"}

Released(g, how) == finalizer' = [finalizer EXCEPT ![g] = how]

\* A worker that fails its validation is never published.
start_worker(g) ==
    /\ Open(g) /\ Exclusive(g) /\ client[g] /\ finalizer[g] = "none"
    /\ \/ worker' = [worker EXCEPT ![g] = "running"] /\ UNCHANGED finalizer
       \/ \E how \in Detached : Released(g, how) /\ UNCHANGED worker
    /\ UNCHANGED <<shared, core, phase, client, waiting, start, tickets, handles>>

initiate_worker_shutdown(g) ==
    /\ Open(g) /\ worker[g] = "running"
    /\ worker' = [worker EXCEPT ![g] = "draining"]
    /\ UNCHANGED <<shared, core, phase, client, waiting, finalizer, start, tickets, handles>>

\* A failed drain and a refused finalization keep the worker; otherwise it is
\* finalized, was dropped by a panic, or belongs to a detached finalizer.
shutdown_worker(g) ==
    /\ Open(g) /\ worker[g] # "none"
    /\ \/ worker' = [worker EXCEPT ![g] = "draining"] /\ UNCHANGED finalizer
       \/ /\ worker' = [worker EXCEPT ![g] = "none"]
          /\ \E how \in {"none"} \cup Detached : Released(g, how)
    /\ UNCHANGED <<shared, core, phase, client, waiting, start, tickets, handles>>

FinalizerEnds(g) ==
    /\ finalizer[g] # "none"
    /\ Released(g, "none")
    /\ UNCHANGED <<shared, core, phase, client, waiting, worker, start, tickets, handles>>

(***************************************************************************)
(* Disconnect and close.                                                   *)
(***************************************************************************)
ForgetsHandles(g) ==
    /\ tickets' = tickets \ StartsOf(g)
    /\ start' = [s \in Starts |-> IF s \in tickets \cap StartsOf(g) /\ start[s] = "running"
                                  THEN "aborted" ELSE start[s]]
    /\ UNCHANGED handles

\* Every ticket is retired, its task aborted and its handle kept to be awaited.
abort_pending_starts(g) ==
    /\ tickets' = tickets \ StartsOf(g)
    /\ start' = [s \in Starts |-> IF s \in tickets \cap StartsOf(g) /\ start[s] = "running"
                                  THEN "aborted" ELSE start[s]]
    /\ handles' = handles \cup (tickets \cap StartsOf(g))

Awaited(g) == \A s \in handles \cap StartsOf(g) : ~Runs(s)

disconnect_client(g) ==
    /\ Open(g) /\ worker[g] = "none" /\ client[g]
    /\ waiting' = [waiting EXCEPT ![g] = FALSE]
    /\ abort_pending_starts(g)
    /\ phase' = [phase EXCEPT ![g] = "disconnecting"]
    /\ UNCHANGED <<shared, core, client, worker, finalizer>>

Disconnected(g) ==
    /\ phase[g] = "disconnecting" /\ Awaited(g)
    /\ handles' = handles \ StartsOf(g)
    /\ client' = [client EXCEPT ![g] = FALSE]
    /\ phase' = [phase EXCEPT ![g] = "open"]
    /\ UNCHANGED <<shared, core, waiting, worker, finalizer, start, tickets>>

\* An explicit close awaits the tasks itself, a finalizer of the collector
\* leaves that to the cleanup thread.
close(g, wait) ==
    /\ Open(g)
    /\ waiting' = [waiting EXCEPT ![g] = FALSE]
    /\ abort_pending_starts(g)
    /\ phase' = [phase EXCEPT ![g] = IF wait THEN "closing" ELSE "tasks"]
    /\ UNCHANGED <<shared, core, client, worker, finalizer>>

CloseAwaits(g) ==
    /\ phase[g] = "closing" /\ Awaited(g)
    /\ handles' = handles \ StartsOf(g)
    /\ phase' = [phase EXCEPT ![g] = "tasks"]
    /\ UNCHANGED <<shared, core, client, waiting, worker, finalizer, start, tickets>>

(***************************************************************************)
(* drop_runtime_graph, on the cleanup thread.                              *)
(***************************************************************************)
DropsTasks(g) ==
    /\ phase[g] = "tasks" /\ Awaited(g)
    /\ handles' = handles \ StartsOf(g)
    /\ phase' = [phase EXCEPT ![g] = "worker"]
    /\ UNCHANGED <<shared, core, client, waiting, worker, finalizer, start, tickets>>

\* Finalized, dropped after a refusal or a panic, or left to its finalizer.
DropsWorker(g) ==
    /\ phase[g] = "worker"
    /\ worker' = [worker EXCEPT ![g] = "none"]
    /\ IF worker[g] = "none" THEN UNCHANGED finalizer
       ELSE \E how \in {"none"} \cup Detached : Released(g, how)
    /\ phase' = [phase EXCEPT ![g] = "replay"]
    /\ UNCHANGED <<shared, core, client, waiting, start, tickets, handles>>

\* Two attempts suffice: the second finds no lane to join, and a worker whose
\* lane was late is leaked.
DropsReplay(g) ==
    /\ phase[g] = "replay" /\ (g = Replayer => slot = "none")
    /\ phase' = [phase EXCEPT ![g] = "references"]
    /\ client' = [client EXCEPT ![g] = FALSE]
    /\ UNCHANGED <<shared, core, waiting, worker, finalizer, start, tickets, handles>>

\* Dropping the last reference to Core ends its Tokio runtime: that cancels a
\* finalizer which is suspended and waits for one which blocks a thread.
DropsCore(last) ==
    IF ~last THEN UNCHANGED <<core, finalizer>>
    ELSE /\ \A g \in Graphs : finalizer[g] # "blocking"
         /\ core' = "dropped" /\ finalizer' = [g \in Graphs |-> "none"]

DropsReferences(g) ==
    /\ phase[g] = "references"
    /\ DropsCore(Holders = {g} /\ shared = "released")
    /\ phase' = [phase EXCEPT ![g] = "gone"]
    /\ UNCHANGED <<shared, client, waiting, worker, start, tickets, handles>>

release ==
    /\ shared = "held" /\ shared' = "releasing"
    /\ UNCHANGED <<core, phase, client, waiting, worker, finalizer, start, tickets, handles>>

run_shared_runtime_cleanup ==
    /\ shared = "releasing" /\ shared' = "released"
    /\ DropsCore(Holders = {})
    /\ UNCHANGED <<phase, client, waiting, worker, start, tickets, handles>>

(***************************************************************************)
(* The system.                                                             *)
(***************************************************************************)
GraphCalls(g) ==
    \/ attach(g) \/ connect_client(g) \/ observe(g) \/ disconnect_client(g)
    \/ start_worker(g) \/ initiate_worker_shutdown(g) \/ shutdown_worker(g)
    \/ \E wait \in BOOLEAN : close(g, wait)

Cleanup(g) ==
    Disconnected(g) \/ CloseAwaits(g) \/ DropsTasks(g) \/ DropsWorker(g) \/ DropsReplay(g)
        \/ DropsReferences(g)

GraphStep ==
    /\ \/ \E g \in Graphs : GraphCalls(g) \/ Cleanup(g) \/ FinalizerEnds(g)
       \/ \E s \in Starts : begin_start(s) \/ StartEnds(s) \/ read_start(s)
       \/ release \/ run_shared_runtime_cleanup
    /\ UNCHANGED <<workload, replayVars>>

\* The owner replays on an open graph without a live worker.
OwnerStep ==
    /\ Open(Replayer) /\ worker[Replayer] = "none" /\ workload.histories # {}
    /\ OwnerReplays /\ accepted' \subseteq workload.histories
    /\ UNCHANGED graphVars

CleanupDisposes ==
    /\ phase[Replayer] = "replay" /\ slot = "owned" /\ call = "none"
    /\ dispose /\ UNCHANGED graphVars

CallStep       == CallSteps /\ UNCHANGED graphVars
BackgroundStep == ReplayBackground /\ UNCHANGED graphVars

\* The bridge stops when everything has been released.
Next == GraphStep \/ OwnerStep \/ CleanupDisposes \/ CallStep \/ BackgroundStep

\* Threads and tasks run; the owner may stop calling, and nothing bounds a
\* finalizer that blocks.
Fairness ==
    /\ \A g \in Graphs : WF_vars(Cleanup(g) /\ UNCHANGED <<workload, replayVars>>)
    /\ \A s \in Starts : WF_vars(StartEnds(s) /\ start[s] = "aborted"
                                  /\ UNCHANGED <<workload, replayVars>>)
    /\ WF_vars(run_shared_runtime_cleanup /\ UNCHANGED <<workload, replayVars>>)
    /\ WF_vars(CleanupDisposes) /\ WF_vars(CallStep) /\ WF_vars(BackgroundStep)

Spec == Init /\ [][Next]_vars /\ Fairness

(***************************************************************************)
(* Nothing is detached from its graph.  A start task that may still use    *)
(* its connection has a join handle in the graph's map or in the list of   *)
(* those to await, its graph holds the connection, and the graph has not   *)
(* gone past the step that awaits it.  A graph never has a live and a      *)
(* replay worker at once, a running worker keeps its client, and a graph   *)
(* that is gone has neither, nor a connection or an observation.  Core is  *)
(* dropped exactly when its last holder has gone, and no finalizer of a    *)
(* worker runs on it then.                                                 *)
(***************************************************************************)
NothingDetached ==
    /\ \A s \in Starts : Runs(s) =>
         /\ s \in tickets \cup handles
         /\ client[graph[s]]
         /\ phase[graph[s]] \in {"open", "disconnecting", "closing", "tasks"}
    /\ tickets \cap handles = {}
    /\ worker[Replayer] = "none" \/ slot = "none"
    /\ \A g \in Graphs :
         /\ worker[g] # "none" => client[g]
         /\ phase[g] = "gone" => /\ worker[g] = "none" /\ ~client[g] /\ ~waiting[g]
                                 /\ g = Replayer => slot = "none" /\ call = "none"
    /\ core = "dropped" <=> Holders = {} /\ shared = "released"
    /\ core = "dropped" => \A g \in Graphs : finalizer[g] = "none"

(***************************************************************************)
(* A close or a disconnect that has begun ends, a replay call returns and  *)
(* Core is dropped once every holder has let go, whatever the lanes, the   *)
(* start tasks and Core's replies do.  The one exception is the one that   *)
(* drop_runtime_graph documents: a detached finalizer that blocks.         *)
(***************************************************************************)
Blocked == \E g \in Graphs : finalizer[g] = "blocking"

GraphsReclaimed ==
    /\ \A g \in Graphs :
         /\ phase[g] = "disconnecting" ~> phase[g] # "disconnecting"
         /\ phase[g] \notin {"unborn", "open", "disconnecting", "gone"} ~>
              phase[g] = "gone" \/ Blocked
    /\ call # "none" ~> call = "none"
    /\ shared = "releasing" ~> shared = "released" \/ Blocked
=============================================================================
