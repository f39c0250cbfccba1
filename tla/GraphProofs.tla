---------------------------- MODULE GraphProofs ----------------------------
(***************************************************************************)
(* Nothing is detached from its graph, for every number of graphs, start   *)
(* requests and histories.                                                 *)
(*                                                                         *)
(* Tickets exist on open graphs only, and a close or a disconnect moves    *)
(* every ticket of the graph to the handles it awaits; a worker is gone    *)
(* from the graph before its client is.                                    *)
(***************************************************************************)
EXTENDS NativeGraph, TLAPS

TypedGraph ==
    /\ phase \in [Graphs -> Phases]
    /\ client \in [Graphs -> BOOLEAN] /\ waiting \in [Graphs -> BOOLEAN]
    /\ DOMAIN worker = Graphs /\ DOMAIN finalizer = Graphs /\ DOMAIN start = Starts
    /\ tickets \subseteq Starts /\ handles \subseteq Starts

StartInv ==
    /\ \A s \in Starts : Runs(s) =>
         /\ s \in tickets \cup handles
         /\ client[graph[s]]
         /\ phase[graph[s]] \in {"open", "disconnecting", "closing", "tasks"}
    /\ \A s \in tickets : phase[graph[s]] = "open"
    /\ \A s \in tickets \cup handles : start[s] # "none"
    /\ tickets \cap handles = {}

\* The life of a graph.
GraphInv ==
    \A g \in Graphs :
        /\ worker[g] # "none" => client[g] /\ phase[g] \in {"open", "closing", "tasks", "worker"}
        /\ waiting[g] => phase[g] = "open"
        /\ phase[g] \in {"references", "gone"} => ~client[g]

\* The replay worker of the graph that has one.
SlotInv ==
    /\ worker[Replayer] = "none" \/ slot = "none"
    /\ call # "none" => slot = "owned"
    /\ slot \in {"none", "owned"}
    /\ slot = "owned" => phase[Replayer] \notin {"references", "gone"}

CoreInv ==
    /\ core \in {"alive", "dropped"}
    /\ core = "dropped" <=> Holders = {} /\ shared = "released"
    /\ core = "dropped" => \A g \in Graphs : finalizer[g] = "none"

NativeInv == TypedGraph /\ StartInv /\ GraphInv /\ SlotInv /\ CoreInv

\* The inductive invariant implies the property.
LEMMA NativeInvSuffices == NativeInv => NothingDetached
<1> SUFFICES ASSUME NativeInv PROVE NothingDetached
  OBVIOUS
<1>1. \A g \in Graphs :
         /\ worker[g] # "none" => client[g]
         /\ phase[g] = "gone" => worker[g] = "none" /\ ~client[g] /\ ~waiting[g]
  BY DEF NativeInv, GraphInv
<1>2. phase[Replayer] = "gone" => slot = "none" /\ call = "none"
  BY DEF NativeInv, SlotInv
<1> QED BY <1>1, <1>2 DEF NativeInv, StartInv, SlotInv, CoreInv, NothingDetached

\* The inductive invariant holds before the first graph is attached.
LEMMA InitNativeInv == Init => NativeInv
<1> SUFFICES ASSUME Init PROVE NativeInv
  OBVIOUS
<1>1. TypedGraph
  BY DEF Init, TypedGraph, Phases
<1>2. StartInv
  BY DEF Init, StartInv, Runs
<1>3. GraphInv
  BY DEF Init, GraphInv
<1>4. SlotInv
  BY GraphAssumption DEF Init, ReplayInit, SlotInv
<1>5. CoreInv
  BY DEF Init, CoreInv, Holders
<1> QED BY <1>1, <1>2, <1>3, <1>4, <1>5 DEF NativeInv

\* The steps of the replay worker, its lane and Core leave the graphs alone.
LEMMA ReplayKeeps ==
    ASSUME NativeInv, OwnerStep \/ CleanupDisposes \/ CallStep \/ BackgroundStep
    PROVE  NativeInv'
<1>1. UNCHANGED <<shared, core, phase, client, waiting, worker, finalizer, start, tickets, handles>>
  BY DEF OwnerStep, CleanupDisposes, CallStep, BackgroundStep, graphVars
<1>2. TypedGraph' /\ StartInv' /\ GraphInv' /\ CoreInv'
  BY <1>1 DEF NativeInv, TypedGraph, StartInv, GraphInv, CoreInv, Runs, Holders
<1>3. SlotInv'
  <2>1. CASE start_replay_worker /\ OwnerStep
    BY <1>1, <2>1 DEF OwnerStep, Open, NativeInv, SlotInv, start_replay_worker
  <2>2. CASE slot' = slot /\ (call' = "none" \/ slot = "owned")
    BY <1>1, <2>2 DEF NativeInv, SlotInv
  <2>3. CASE slot' = "none" /\ call' = "none"
    BY <1>1, <2>3 DEF NativeInv, SlotInv
  <2>4. CASE OwnerStep /\ ~start_replay_worker
    <3>1. CASE dispose_replay
      BY <2>2, <2>3, <3>1 DEF dispose_replay, Callable, dispose, Gone
    <3>2. CASE ~dispose_replay
      BY <2>2, <2>4, <3>2 DEF OwnerStep, OwnerReplays, finish_replay_input, wait_replay_workflow,
         feed_replay_history_json, try_poll_replay_workflow, complete_replay_workflow,
         reject_replay_workflow, finalize_replay, Callable
    <3> QED BY <3>1, <3>2
  <2>5. CASE CleanupDisposes
    BY <2>2, <2>3, <2>5 DEF CleanupDisposes, dispose, Gone
  <2>6. CASE CallStep
    <3>1. slot = "owned"
      BY <2>6 DEF CallStep, CallSteps, JoinDrains, JoinsNothing, CoreFinalizes, Join, Joining,
                  NativeInv, SlotInv
    <3> QED BY <2>2, <2>3, <2>6, <3>1 DEF CallStep, CallSteps, JoinDrains, JoinsNothing,
               CoreFinalizes, Join, Gone
  <2>7. CASE BackgroundStep
    BY <2>2, <2>7 DEF BackgroundStep, ReplayBackground, CoreTakes, CoreEnds, LanePublishes, LaneStops,
                      NativeInv, SlotInv
  <2> QED BY <2>1, <2>4, <2>5, <2>6, <2>7
<1> QED BY <1>2, <1>3 DEF NativeInv

\* A graph that is in use keeps Core alive.
LEMMA HeldCore == ASSUME NativeInv, NEW g \in Graphs, phase[g] \notin {"unborn", "gone"}
                  PROVE  core # "dropped" /\ g \in Holders
BY DEF NativeInv, CoreInv, Holders

\* Attaching a graph, connecting its client and observing a history.
LEMMA ClientKeeps ==
    ASSUME NativeInv, NEW g \in Graphs, attach(g) \/ connect_client(g) \/ observe(g),
           UNCHANGED <<workload, replayVars>>
    PROVE  NativeInv'
<1>1. UNCHANGED <<shared, core, worker, finalizer, start, tickets, handles, slot, call>>
  BY DEF attach, connect_client, observe, replayVars
<1>2. CASE attach(g)
  <2>1. /\ phase[g] = "unborn" /\ phase' = [phase EXCEPT ![g] = "open"] /\ shared = "held"
        /\ UNCHANGED <<client, waiting>>
    BY <1>2 DEF attach
  <2>2. TypedGraph'
    BY <1>1, <2>1 DEF NativeInv, TypedGraph, Phases
  <2>3. StartInv'
    BY <1>1, <2>1, GraphAssumption DEF NativeInv, TypedGraph, StartInv, Runs
  <2>4. GraphInv'
    BY <1>1, <2>1 DEF NativeInv, TypedGraph, GraphInv
  <2>5. SlotInv'
    BY <1>1, <2>1, GraphAssumption DEF NativeInv, TypedGraph, SlotInv
  <2>6. CoreInv'
    BY <1>1, <2>1 DEF NativeInv, CoreInv
  <2> QED BY <2>2, <2>3, <2>4, <2>5, <2>6 DEF NativeInv
<1>3. CASE connect_client(g) \/ observe(g)
  <2>1. /\ phase[g] = "open" /\ UNCHANGED phase
        /\ \/ client' = [client EXCEPT ![g] = TRUE] /\ UNCHANGED waiting
           \/ waiting' = [waiting EXCEPT ![g] = ~@] /\ UNCHANGED client
    BY <1>3 DEF connect_client, observe, Open
  <2>2. TypedGraph'
    BY <1>1, <2>1 DEF NativeInv, TypedGraph
  <2>3. StartInv'
    BY <1>1, <2>1, GraphAssumption DEF NativeInv, TypedGraph, StartInv, Runs
  <2>4. GraphInv'
    BY <1>1, <2>1 DEF NativeInv, TypedGraph, GraphInv
  <2>5. SlotInv' /\ CoreInv'
    BY <1>1, <2>1 DEF NativeInv, SlotInv, CoreInv, Holders
  <2> QED BY <2>2, <2>3, <2>4, <2>5 DEF NativeInv
<1> QED BY <1>2, <1>3

\* The start requests and their tasks.
LEMMA StartsKeep ==
    ASSUME NativeInv, NEW s \in Starts, begin_start(s) \/ StartEnds(s) \/ read_start(s),
           UNCHANGED <<workload, replayVars>>
    PROVE  NativeInv'
<1>1. UNCHANGED <<shared, core, phase, client, waiting, worker, finalizer, handles, slot, call>>
  BY DEF begin_start, StartEnds, read_start, replayVars
<1>2. /\ \/ tickets' = tickets \cup {s} /\ start[s] = "none" /\ client[graph[s]] /\ phase[graph[s]] = "open"
            /\ start' = [start EXCEPT ![s] = "running"]
         \/ tickets' = tickets /\ Runs(s) /\ \E how \in {"sent", "died"} : start' = [start EXCEPT ![s] = how]
         \/ /\ tickets' = tickets \ {s} /\ ~Runs(s) /\ s \in tickets
            /\ start' = [start EXCEPT ![s] = IF @ = "sent" THEN "answered" ELSE "unknown"]
  BY DEF begin_start, StartEnds, read_start, Open
<1>3. TypedGraph'
  BY <1>1, <1>2 DEF NativeInv, TypedGraph
<1>4. StartInv'
  <2>1. DOMAIN start = Starts /\ tickets \subseteq Starts /\ handles \subseteq Starts
    BY DEF NativeInv, TypedGraph
  <2>2. /\ \A k \in Starts \ {s} : start'[k] = start[k]
        /\ start'[s] # "none"
    BY <1>2, <2>1
  <2>3. /\ Runs(s)' => s \in tickets' /\ client[graph[s]] /\ phase[graph[s]] = "open"
        /\ \A k \in Starts \ {s} : Runs(k)' <=> Runs(k)
    BY <1>2, <2>1, <2>2 DEF Runs
  <2>4. \A k \in Starts \ {s} : k \in tickets' <=> k \in tickets
    BY <1>2
  <2>5. s \in tickets' => s \notin handles /\ phase[graph[s]] = "open"
    BY <1>2 DEF NativeInv, StartInv
  <2> QED BY <1>1, <1>3, <2>1, <2>2, <2>3, <2>4, <2>5 DEF NativeInv, StartInv, TypedGraph
<1>5. GraphInv' /\ SlotInv' /\ CoreInv'
  BY <1>1 DEF NativeInv, GraphInv, SlotInv, CoreInv, Holders
<1> QED BY <1>3, <1>4, <1>5 DEF NativeInv

\* The live worker and its finalizers.
LEMMA WorkersKeep ==
    ASSUME NativeInv, NEW g \in Graphs,
           start_worker(g) \/ initiate_worker_shutdown(g) \/ shutdown_worker(g) \/ FinalizerEnds(g),
           UNCHANGED <<workload, replayVars>>
    PROVE  NativeInv'
<1>1. UNCHANGED <<shared, core, phase, client, waiting, start, tickets, handles, slot, call>>
  BY DEF start_worker, initiate_worker_shutdown, shutdown_worker, FinalizerEnds, replayVars
<1>2. DOMAIN worker = Graphs /\ DOMAIN finalizer = Graphs
  BY DEF NativeInv, TypedGraph
<1>3. /\ \A k \in Graphs \ {g} : worker'[k] = worker[k] /\ finalizer'[k] = finalizer[k]
      /\ DOMAIN worker' = Graphs /\ DOMAIN finalizer' = Graphs
      /\ finalizer'[g] = "none" \/ finalizer' = finalizer \/ phase[g] = "open"
      /\ \/ worker'[g] = "none" \/ worker' = worker
         \/ phase[g] = "open" /\ (worker[g] # "none" \/ (client[g] /\ Exclusive(g)))
  BY <1>2 DEF start_worker, initiate_worker_shutdown, shutdown_worker, FinalizerEnds, Released, Open
<1>4. TypedGraph' /\ StartInv'
  BY <1>1, <1>3 DEF NativeInv, TypedGraph, StartInv, Runs
<1>5. GraphInv'
  BY <1>1, <1>3 DEF NativeInv, GraphInv
<1>6. SlotInv'
  BY <1>1, <1>3, GraphAssumption DEF NativeInv, SlotInv, Exclusive
<1>7. CoreInv'
  <2>1. core = "dropped" => phase[g] # "open"
    BY HeldCore
  <2> QED BY <1>1, <1>3, <2>1 DEF NativeInv, CoreInv, Holders
<1> QED BY <1>4, <1>5, <1>6, <1>7 DEF NativeInv

\* A disconnect or a close begins: every ticket becomes a handle to await.
LEMMA AbortingKeeps ==
    ASSUME NativeInv, NEW g \in Graphs, disconnect_client(g) \/ \E wait \in BOOLEAN : close(g, wait),
           UNCHANGED <<workload, replayVars>>
    PROVE  NativeInv'
<1>1. /\ UNCHANGED <<shared, core, client, worker, finalizer, slot, call>>
      /\ waiting' = [waiting EXCEPT ![g] = FALSE] /\ abort_pending_starts(g) /\ phase[g] = "open"
      /\ \E p \in {"disconnecting", "closing", "tasks"} :
           /\ phase' = [phase EXCEPT ![g] = p]
           /\ p = "disconnecting" => worker[g] = "none"
  BY DEF disconnect_client, close, Open, replayVars
<1>2. PICK p \in {"disconnecting", "closing", "tasks"} :
        phase' = [phase EXCEPT ![g] = p] /\ (p = "disconnecting" => worker[g] = "none")
  BY <1>1
<1>3. /\ DOMAIN phase = Graphs /\ DOMAIN waiting = Graphs /\ tickets \subseteq Starts /\ handles \subseteq Starts
  BY DEF NativeInv, TypedGraph
<1>4. TypedGraph'
  BY <1>1, <1>2 DEF NativeInv, TypedGraph, Phases, abort_pending_starts
<1>5. StartInv'
  <2>1. /\ tickets' = tickets \ StartsOf(g) /\ handles' = handles \cup (tickets \cap StartsOf(g))
        /\ tickets' \cup handles' = tickets \cup handles
        /\ \A k \in Starts : (Runs(k)' <=> Runs(k)) /\ (start'[k] = "none" <=> start[k] = "none")
    BY <1>1 DEF abort_pending_starts, Runs
  <2>2. /\ phase'[g] = p /\ \A k \in Graphs \ {g} : phase'[k] = phase[k]
    BY <1>2, <1>3
  <2>3. \A k \in Starts : graph[k] \in Graphs /\ (k \in StartsOf(g) <=> graph[k] = g)
    BY GraphAssumption DEF StartsOf
  <2> QED BY <1>1, <1>3, <2>1, <2>2, <2>3 DEF NativeInv, StartInv
<1>6. GraphInv'
  BY <1>1, <1>2, <1>3 DEF NativeInv, GraphInv
<1>7. SlotInv'
  BY <1>1, <1>2, <1>3 DEF NativeInv, SlotInv
<1>8. CoreInv'
  <2>1. Holders' = Holders
    BY <1>1, <1>2, <1>3 DEF Holders
  <2> QED BY <1>1, <2>1 DEF NativeInv, CoreInv
<1> QED BY <1>4, <1>5, <1>6, <1>7, <1>8 DEF NativeInv

\* The handles have been awaited: no start of the graph runs any more.
LEMMA AwaitingKeeps ==
    ASSUME NativeInv, NEW g \in Graphs, Disconnected(g) \/ CloseAwaits(g) \/ DropsTasks(g),
           UNCHANGED <<workload, replayVars>>
    PROVE  NativeInv'
<1>1. /\ UNCHANGED <<shared, core, waiting, worker, finalizer, start, tickets, slot, call>>
      /\ Awaited(g) /\ handles' = handles \ StartsOf(g)
  BY DEF Disconnected, CloseAwaits, DropsTasks, replayVars
<1>2. \/ /\ phase[g] = "disconnecting" /\ phase' = [phase EXCEPT ![g] = "open"]
         /\ client' = [client EXCEPT ![g] = FALSE]
      \/ /\ phase[g] = "closing" /\ phase' = [phase EXCEPT ![g] = "tasks"] /\ client' = client
      \/ /\ phase[g] = "tasks" /\ phase' = [phase EXCEPT ![g] = "worker"] /\ client' = client
  BY DEF Disconnected, CloseAwaits, DropsTasks
<1>3. /\ DOMAIN phase = Graphs /\ DOMAIN client = Graphs /\ tickets \subseteq Starts /\ handles \subseteq Starts
  BY DEF NativeInv, TypedGraph
<1>4. /\ \A k \in Graphs \ {g} : phase'[k] = phase[k] /\ client'[k] = client[k]
      /\ phase[g] \in {"disconnecting", "closing", "tasks"}
      /\ phase'[g] \in {"open", "tasks", "worker"}
      /\ \/ phase[g] = "disconnecting"
         \/ client'[g] = client[g] /\ phase'[g] \in {"tasks", "worker"}
  BY <1>2, <1>3
<1>5. TypedGraph'
  BY <1>1, <1>2 DEF NativeInv, TypedGraph, Phases
<1>6. StartInv'
  <2>1. \A k \in Starts : graph[k] \in Graphs /\ (k \in StartsOf(g) <=> graph[k] = g)
    BY GraphAssumption DEF StartsOf
  <2>2. \A k \in Starts : graph[k] = g => k \notin tickets /\ ~Runs(k)
    BY <1>1, <1>4, <2>1 DEF NativeInv, StartInv, Awaited
  <2>3. \A k \in Starts : Runs(k)' <=> Runs(k)
    BY <1>1 DEF Runs
  <2> QED BY <1>1, <1>3, <1>4, <2>1, <2>2, <2>3 DEF NativeInv, StartInv
<1>7. GraphInv'
  BY <1>1, <1>4 DEF NativeInv, GraphInv
<1>8. SlotInv'
  BY <1>1, <1>4, GraphAssumption DEF NativeInv, SlotInv
<1>9. CoreInv'
  <2>1. Holders' = Holders
    BY <1>4 DEF Holders
  <2> QED BY <1>1, <2>1 DEF NativeInv, CoreInv
<1> QED BY <1>5, <1>6, <1>7, <1>8, <1>9 DEF NativeInv

\* The cleanup thread drops the worker, then the replay worker and client.
LEMMA DroppingKeeps ==
    ASSUME NativeInv, NEW g \in Graphs, DropsWorker(g) \/ DropsReplay(g),
           UNCHANGED <<workload, replayVars>>
    PROVE  NativeInv'
<1>1. UNCHANGED <<shared, core, waiting, start, tickets, handles, slot, call>>
  BY DEF DropsWorker, DropsReplay, replayVars
<1>2. DOMAIN phase = Graphs /\ DOMAIN client = Graphs /\ DOMAIN worker = Graphs /\ DOMAIN finalizer = Graphs
  BY DEF NativeInv, TypedGraph
<1>3. /\ \A k \in Graphs \ {g} : phase'[k] = phase[k] /\ client'[k] = client[k] /\ worker'[k] = worker[k]
      /\ \/ /\ phase[g] = "worker" /\ phase'[g] = "replay"
            /\ worker'[g] = "none" /\ client'[g] = client[g]
         \/ /\ phase[g] = "replay" /\ phase'[g] = "references" /\ worker'[g] = worker[g]
            /\ client'[g] = FALSE /\ (g = Replayer => slot = "none")
  BY <1>2 DEF DropsWorker, DropsReplay
<1>4. /\ TypedGraph'
  BY <1>1, <1>2 DEF NativeInv, TypedGraph, Phases, DropsWorker, DropsReplay, Released
<1>5. StartInv'
  <2>1. \A k \in Starts : graph[k] \in Graphs
    BY GraphAssumption
  <2>2. \A k \in Starts : Runs(k)' <=> Runs(k)
    BY <1>1 DEF Runs
  <2>3. tickets \subseteq Starts
    BY DEF NativeInv, TypedGraph
  <2> QED BY <1>1, <1>3, <2>1, <2>2, <2>3 DEF NativeInv, StartInv
<1>6. GraphInv'
  BY <1>1, <1>3 DEF NativeInv, GraphInv
<1>7. SlotInv'
  BY <1>1, <1>3, GraphAssumption DEF NativeInv, SlotInv
<1>8. CoreInv'
  <2>1. Holders' = Holders
    BY <1>3 DEF Holders
  <2>2. core # "dropped"
    BY <1>3, HeldCore
  <2> QED BY <1>1, <2>1, <2>2 DEF NativeInv, CoreInv
<1> QED BY <1>4, <1>5, <1>6, <1>7, <1>8 DEF NativeInv

\* The last reference to Core goes.
LEMMA CoreKeeps ==
    ASSUME NativeInv, NEW g \in Graphs,
           DropsReferences(g) \/ release \/ run_shared_runtime_cleanup,
           UNCHANGED <<workload, replayVars>>
    PROVE  NativeInv'
<1>1. UNCHANGED <<client, waiting, worker, start, tickets, handles, slot, call>>
  BY DEF DropsReferences, release, run_shared_runtime_cleanup, replayVars
<1>2. DOMAIN phase = Graphs /\ DOMAIN finalizer = Graphs
  BY DEF NativeInv, TypedGraph
<1>3. /\ \A k \in Graphs \ {g} : phase'[k] = phase[k]
      /\ phase'[g] = phase[g] \/ (phase[g] = "references" /\ phase'[g] = "gone")
  BY <1>2 DEF DropsReferences, release, run_shared_runtime_cleanup
<1>4. TypedGraph'
  BY <1>1, <1>2 DEF NativeInv, TypedGraph, Phases, DropsReferences, release,
                    run_shared_runtime_cleanup, DropsCore
<1>5. StartInv'
  <2>1. \A k \in Starts : graph[k] \in Graphs
    BY GraphAssumption
  <2>2. \A k \in Starts : Runs(k)' <=> Runs(k)
    BY <1>1 DEF Runs
  <2>3. tickets \subseteq Starts
    BY DEF NativeInv, TypedGraph
  <2> QED BY <1>1, <1>3, <2>1, <2>2, <2>3 DEF NativeInv, StartInv
<1>6. GraphInv'
  BY <1>1, <1>3 DEF NativeInv, GraphInv
<1>7. SlotInv'
  BY <1>1, <1>3, GraphAssumption DEF NativeInv, SlotInv
<1>8. CoreInv'
  <2>1. CASE DropsReferences(g)
    <3>1. shared' = shared /\ Holders' = Holders \ {g} /\ g \in Holders
      BY <1>2, <2>1 DEF DropsReferences, Holders
    <3>2. core = "alive"
      BY <3>1 DEF NativeInv, CoreInv
    <3>3. Holders = {g} <=> Holders' = {}
      BY <3>1
    <3> QED BY <2>1, <3>1, <3>2, <3>3 DEF CoreInv, DropsReferences, DropsCore
  <2>2. CASE release
    BY <2>2 DEF release, NativeInv, CoreInv, Holders
  <2>3. CASE run_shared_runtime_cleanup
    BY <2>3 DEF run_shared_runtime_cleanup, DropsCore, NativeInv, CoreInv, Holders
  <2> QED BY <2>1, <2>2, <2>3
<1> QED BY <1>4, <1>5, <1>6, <1>7, <1>8 DEF NativeInv

\* The inductive invariant is preserved by every step.
LEMMA NextKeepsNativeInv == NativeInv /\ [Next]_vars => NativeInv'
<1> SUFFICES ASSUME NativeInv, [Next]_vars PROVE NativeInv'
  OBVIOUS
<1>1. CASE GraphStep
  <2>1. UNCHANGED <<workload, replayVars>> /\ Replayer \in Graphs
    BY <1>1, GraphAssumption DEF GraphStep
  <2>2. ASSUME NEW g \in Graphs, GraphCalls(g) PROVE NativeInv'
    BY <2>1, <2>2, ClientKeeps, WorkersKeep, AbortingKeeps DEF GraphCalls
  <2>3. ASSUME NEW g \in Graphs, Cleanup(g) PROVE NativeInv'
    BY <2>1, <2>3, AwaitingKeeps, DroppingKeeps, CoreKeeps DEF Cleanup
  <2>4. ASSUME NEW g \in Graphs, FinalizerEnds(g) PROVE NativeInv'
    BY <2>1, <2>4, WorkersKeep
  <2>5. ASSUME NEW s \in Starts, begin_start(s) \/ StartEnds(s) \/ read_start(s) PROVE NativeInv'
    BY <2>1, <2>5, StartsKeep
  <2>6. CASE release \/ run_shared_runtime_cleanup
    BY <2>1, <2>6, CoreKeeps
  <2> QED BY <1>1, <2>2, <2>3, <2>4, <2>5, <2>6 DEF GraphStep
<1>2. CASE OwnerStep \/ CleanupDisposes \/ CallStep \/ BackgroundStep
  BY <1>2, ReplayKeeps
<1>3. CASE UNCHANGED vars
  BY <1>3 DEF vars, graphVars, replayVars, NativeInv, TypedGraph, StartInv, GraphInv, SlotInv,
              CoreInv, Runs, Holders
<1> QED BY <1>1, <1>2, <1>3 DEF Next

(***************************************************************************)
(* Whatever the owners call and in whatever order tasks, cleanups and      *)
(* releases run, a start task keeps a handle that its graph will await and *)
(* the connection it uses, live and replay workers exclude each other, a   *)
(* graph that is gone owns nothing, and Core is dropped with its last      *)
(* holder, with no finalizer left on it.                                   *)
(***************************************************************************)
THEOREM NothingIsDetached == Spec => []NothingDetached
<1> QED BY InitNativeInv, NextKeepsNativeInv, NativeInvSuffices, PTL DEF Spec
=============================================================================
