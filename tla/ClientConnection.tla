-------------------------- MODULE ClientConnection --------------------------
(***************************************************************************)
(* A connection: the client calls composed with the heartbeat throttle and *)
(* with the tasks of the asynchronous activity requests of abi.rs          *)
(* (ClientRpc::into_future, AsyncActivityRequest::send_evicting), up to    *)
(* the disconnect that ends calls, tasks and drivers.                      *)
(*                                                                         *)
(* An asynchronous request is a submitted call of the graph that has the   *)
(* worker.  Its caller and its slot are like those of the other calls and  *)
(* are not repeated; heartbeat details are named by their request.         *)
(***************************************************************************)
EXTENDS ClientCalls, HeartbeatThrottle

CONSTANTS
    Worker,         \* the graph that has a worker, and so a namespace
    Requests,       \* the asynchronous requests, in the order of submission
    AsyncWorkloads  \* what they may ask for

ASSUME WorkerAssumption ==
    /\ Worker \in Owners /\ max_tokens = in_flight_calls[Worker]
    /\ Requests \subseteq Nat
    /\ AsyncWorkloads \subseteq [Requests -> [kind : STRING, token : STRING, released : BOOLEAN]]

VARIABLES
    asked,    \* the asynchronous requests that are made
    async,    \* how far the task of each is
    aborted,  \* the tasks that were aborted
    uses,     \* the driver that a task awaits or aborts
    carried,  \* the details a terminal request took over from the throttle
    latest,   \* history: the newest details recorded for each tracked token
    owed,     \* history: the newest details when a terminal request evicted
    flushed   \* history: the details that a cancellation sent ahead of it

asyncVars == <<asked, async, aborted, uses, carried, latest, owed, flushed>>
vars == <<callVars, throttleVars, asyncVars>>

Terminals == {"completed", "failed", "canceled"}

\* Bound: a behaviour has asynchronous requests or other calls, not both.
Init ==
    /\ CallsInit /\ ThrottleInit
    /\ asked \in AsyncWorkloads
    /\ (\A r \in Requests : asked[r].kind = "none") # (\A c \in Calls : request[c].kind = "none")
    /\ async = [r \in Requests |-> "none"] /\ aborted = {}
    /\ uses = [r \in Requests |-> {}]
    /\ carried = [r \in Requests |-> NoDetails] /\ owed = [r \in Requests |-> NoDetails]
    /\ latest = <<>> /\ flushed = {}

(***************************************************************************)
(* The tasks of asynchronous activity requests.                            *)
(***************************************************************************)
Runs(r, kinds, at) == asked[r].kind \in kinds /\ async[r] = at
Goes(r, to)        == async' = [async EXCEPT ![r] = to]

Alive(r) == async[r] \notin {"none", "done", "gone"}

AsyncIsNext(r) ==
    /\ asked[r].kind # "none" /\ async[r] = "none"
    /\ \A k \in Requests : k < r => async[k] # "none" \/ asked[k].kind = "none"

\* submit_client_call, which needs the namespace of a worker.
Spawn(r) ==
    /\ doing[Worker] = "nothing" /\ Worker \in connected
    /\ AsyncIsNext(r)
    /\ Cardinality({k \in Requests : Alive(k)}) < in_flight_calls[Worker]
    /\ Goes(r, "start")
    /\ UNCHANGED <<callVars, throttleVars, asked, aborted, uses, carried, latest, owed, flushed>>

\* A heartbeat is admitted: sent by a new driver, kept for the trailing send of
\* its token, or sent by the task itself.
HeartbeatTask(r) ==
    LET t   == asked[r].token
        how == admission(t)
    IN  /\ Runs(r, {"heartbeat"}, "start")
        /\ record(t, r)
        /\ Goes(r, CASE how = "coalesced" -> "done" [] how = "sent" -> "awaiting" [] OTHER -> "sending")
        /\ uses' = [uses EXCEPT ![r] = IF how = "sent" THEN {next_id} ELSE {}]
        /\ latest' = IF how = "unthrottled" THEN latest ELSE (t :> r) @@ latest
        /\ UNCHANGED <<callVars, asked, aborted, carried, owed, flushed>>

\* The heartbeat's own send returned, or the driver reported the first one.
HeartbeatIsSent(r) ==
    /\ \/ Runs(r, {"heartbeat"}, "sending")
       \/ Runs(r, {"heartbeat"}, "awaiting") /\ \A d \in uses[r] : Reported(d)
    /\ Goes(r, "done")
    /\ UNCHANGED <<callVars, throttleVars, asked, aborted, uses, carried, latest, owed, flushed>>

\* What send_evicting does with the pending details: a failure carries them, a
\* cancellation sends them first, a completion drops them.
takes_over(r, details) ==
    carried' = [carried EXCEPT ![r] = IF asked[r].kind = "completed" THEN NoDetails ELSE details]

\* send_evicting up to the abort of a sleeping driver outside the lock.
Evicts(r) ==
    LET t == asked[r].token
    IN  /\ Runs(r, Terminals, "start")
        /\ evict(t)
        /\ takes_over(r, evicted(t))
        /\ owed' = [owed EXCEPT ![r] = IF t \in DOMAIN tokens THEN latest[t] ELSE NoDetails]
        /\ uses' = [uses EXCEPT ![r] = sleeping(t)]
        /\ Goes(r, "evicted")
        /\ UNCHANGED <<callVars, asked, aborted, latest, flushed>>

AbortsDriver(r) ==
    LET flush == asked[r].kind = "canceled" /\ carried[r] # NoDetails
    IN  /\ Runs(r, Terminals, "evicted")
        /\ AbortDrivers(uses[r])
        /\ Goes(r, IF flush THEN "flushing" ELSE "responding")
        /\ flushed' = IF flush THEN flushed \cup {carried[r]} ELSE flushed
        /\ UNCHANGED <<callVars, asked, aborted, uses, carried, latest, owed>>

\* The outcome of the flushed heartbeat is ignored.
Flushed(r) ==
    /\ Runs(r, Terminals, "flushing")
    /\ Goes(r, "responding")
    /\ UNCHANGED <<callVars, throttleVars, asked, aborted, uses, carried, latest, owed, flushed>>

Responded(r) ==
    /\ Runs(r, Terminals, "responding")
    /\ Goes(r, "done")
    /\ UNCHANGED <<callVars, throttleVars, asked, aborted, uses, carried, latest, owed, flushed>>

\* The caller of the request gave it up.
Released(r) ==
    /\ asked[r].released /\ Alive(r) /\ r \notin aborted
    /\ aborted' = aborted \cup {r}
    /\ UNCHANGED <<callVars, throttleVars, asked, async, uses, carried, latest, owed, flushed>>

\* An abort takes effect at an await, and there is none after the eviction.
Dropped(r) ==
    /\ r \in aborted /\ Alive(r) /\ async[r] # "evicted"
    /\ Goes(r, "gone")
    /\ UNCHANGED <<callVars, throttleVars, asked, aborted, uses, carried, latest, owed, flushed>>

AsyncStep(r) ==
    \/ HeartbeatTask(r) \/ HeartbeatIsSent(r)
    \/ Evicts(r) \/ AbortsDriver(r) \/ Flushed(r)
    \/ Responded(r) \/ Dropped(r)

(***************************************************************************)
(* The Domain of a graph.                                                  *)
(***************************************************************************)
\* Bound: a graph connects while it has calls to make.
Connects(o) ==
    /\ \/ \E c \in Of(o) : IsNext(c)
       \/ o = Worker /\ \E r \in Requests : AsyncIsNext(r)
    /\ connect_client(o)
    /\ UNCHANGED <<throttleVars, asyncVars>>

AbortsCalls(o) ==
    /\ abort_pending_calls(o)
    /\ aborted' = aborted \cup {r \in Requests : o = Worker /\ Alive(r)}
    /\ UNCHANGED <<throttleVars, asked, async, uses, carried, latest, owed, flushed>>

\* abort_heartbeat_drivers, after the tasks of the calls were joined: shut the
\* throttle down, abort its drivers, and join them.
CallsJoined(o) == (\A c \in work[o] : task[c] = "finished") /\ (o = Worker => \A r \in Requests : ~Alive(r))
DriversJoined  == closed /\ \A d \in drained : driver[d].stage = "finished"

abort_heartbeat_drivers ==
    /\ doing[Worker] = "joining" /\ CallsJoined(Worker)
    /\ \/ ~closed /\ shutdown
       \/ closed /\ ~(drained \subseteq cancelled) /\ AbortDrivers(drained)
    /\ UNCHANGED <<callVars, asyncVars>>

\* The next connection has a throttle of its own.
Disconnects(o) ==
    /\ CallsJoined(o) /\ disconnect_client(o)
    /\ IF o # Worker THEN UNCHANGED <<throttleVars, asyncVars>>
       ELSE /\ DriversJoined /\ Fresh
            /\ latest' = <<>> /\ owed' = [r \in Requests |-> NoDetails]
            /\ UNCHANGED <<asked, async, aborted, uses, carried, flushed>>

OwnerActs(o) ==
    \/ Connects(o)
    \/ o = Worker /\ \E r \in Requests : Spawn(r)
    \/ AbortsCalls(o)
    \/ o = Worker /\ abort_heartbeat_drivers
    \/ Disconnects(o)
    \/ /\ \/ \E c \in Of(o) : submit_client_call(c)
          \/ \E c \in Calls : Admit(o, c) \/ CloseReleased(o, c)
          \/ release_owner(o)
       /\ UNCHANGED <<throttleVars, asyncVars>>

Finishing(o) == OwnerActs(o) /\ doing[o] # "nothing"
Caller(c)    == CallerStep(c) /\ UNCHANGED <<throttleVars, asyncVars>>
CallTask(c)  == TaskStep(c) /\ UNCHANGED <<throttleVars, asyncVars>>
Driver(d)    == DriverStep(d) /\ UNCHANGED <<callVars, asyncVars>>

Next ==
    \/ \E o \in Owners : OwnerActs(o)
    \/ \E c \in Calls : CallTask(c) \/ Caller(c)
    \/ \E r \in Requests : AsyncStep(r) \/ Released(r)
    \/ \E d \in Drivers : Driver(d)

(***************************************************************************)
(* Domains, tasks and timers run: a caller goes on awaiting, a driver's    *)
(* sends and sleeps end, a cancelled task unwinds, and a graph finishes    *)
(* the call that it began.  No task is bound to produce an outcome.        *)
(***************************************************************************)
Spec ==
    /\ Init /\ [][Next]_vars
    /\ \A o \in Owners : WF_vars(Finishing(o))
    /\ \A c \in Calls : WF_vars((Awaits(c) \/ Releases(c)) /\ UNCHANGED <<throttleVars, asyncVars>>)
    /\ WF_vars(\E c \in Calls : task[c] # "running" /\ CallTask(c))
    /\ WF_vars(\E r \in Requests : AsyncStep(r))
    /\ WF_vars(\E d \in Drivers : Driver(d))

(***************************************************************************)
(* Properties.                                                             *)
(***************************************************************************)
\* When a graph has disconnected, no task or driver that holds a clone of its
\* connection is alive and no call is registered, whatever was released, read
\* or evicted while it was still running.
NothingOutlives ==
    /\ NothingOutlivesDisconnect
    /\ Worker \notin connected =>
         /\ tokens = <<>>
         /\ \A d \in Drivers : driver[d].stage \in {"none", "finished"}

\* A token is throttled only while a driver of its own state will end it, and
\* the newest details recorded for it are those the driver sent last or those
\* it sends next; so a driver that was left behind by an eviction never ends or
\* marks the state of its successor.  A failed or cancelled activity reports
\* the newest details, unless its driver was given them before.
HeartbeatsHeld ==
    /\ \A t \in DOMAIN tokens :
         LET s == tokens[t]
             d == driver[s.id]
         IN  /\ d.token = t
             /\ d.stage \in {IF s.sending THEN "sending" ELSE "sleeping", "leaving"}
             /\ latest[t] = IF s.pending # NoDetails THEN s.pending ELSE d.details
    /\ \A r \in Requests : async[r] \in {"responding", "done"} =>
         LET sent == {NoDetails} \cup {driver[d].details : d \in Drivers}
         IN  /\ asked[r].kind = "failed" => owed[r] \in sent \cup {carried[r]}
             /\ asked[r].kind = "canceled" => owed[r] \in sent \cup flushed

\* Once the graph with the worker has begun to disconnect it gets there: no
\* task, no driver and no caller keeps it waiting, also when the throttle holds
\* pending details.
DisconnectEnds == doing[Worker] = "closing" ~> Worker \notin connected
=============================================================================
