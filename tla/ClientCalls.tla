----------------------------- MODULE ClientCalls -----------------------------
(***************************************************************************)
(* Submitted client calls: the completion cells and the registry of        *)
(* client_calls.rs, the admission and the shutdown of calls in abi.rs      *)
(* (submit_client_call, abort_pending_calls), and the loop in which OCaml  *)
(* awaits a call (Client_call.await in sdk_supervisor.ml).                 *)
(*                                                                         *)
(* An owner is the Domain of one runtime graph, which submits and          *)
(* disconnects; every call has a Tokio task and a caller on a Domain of    *)
(* its own.  They share the registry and the slots, and a step is one      *)
(* critical section of either lock.                                        *)
(***************************************************************************)
EXTENDS Integers, FiniteSets

CONSTANTS
    Calls,     \* the identifiers that NEXT_CALL hands out
    Owners,    \* the runtime graphs
    owner,     \* the graph that each call belongs to
    Workloads, \* what the calls may ask for
    Panicking, \* the calls whose task may panic
    pending_starts, pending_waits,  \* ClientLimits
    in_flight_calls  \* and the ceiling of each graph

ASSUME CallsAssumption ==
    /\ IsFiniteSet(Calls) /\ Calls \subseteq Nat /\ Panicking \subseteq Calls
    /\ owner \in [Calls -> Owners]
    /\ Workloads \subseteq [Calls -> [kind : STRING, key : STRING, body : STRING, leaves : STRING]]
    /\ pending_starts \in Nat \ {0} /\ pending_waits \in Nat \ {0} /\ in_flight_calls \in [Owners -> Nat \ {0}]

VARIABLES
    request,     \* the request of each call, of kind "none" if it is not made
    connected,   \* the graphs with a client
    registered,  \* Registry.calls
    per_owner,   \* Registry.per_owner
    slot,        \* SlotState of each call; a ready slot is its outcome
    task,        \* the Tokio task of each call
    pending,     \* pending_calls: the scope of each call whose handle is kept
    doing,       \* what the Domain of each graph is doing
    work,        \* the calls that it is doing this with
    caller,      \* the caller of each call
    last,        \* the calls whose deadline has passed
    got          \* what each caller received

callVars == <<request, connected, registered, per_owner, slot, task, pending, doing, work, caller, last, got>>

Of(o) == {c \in Calls : owner[c] = o}

Outcomes == {"value", "panic", "aborted"}

TypeOK ==
    /\ request \in Workloads
    /\ connected \subseteq Owners /\ registered \subseteq Calls /\ last \subseteq Calls
    /\ per_owner \in [Owners -> Nat]
    /\ slot \in [Calls -> {"none", "pending", "closed"} \cup Outcomes]
    /\ task \in [Calls -> {"none", "running", "cancelled", "ending", "finished"}]
    /\ pending \in [Calls -> {"none", "start", "wait", "bounded", "released"}]
    /\ doing \in [Owners -> {"nothing", "admitting", "closing", "joining"}]
    /\ work \in [Owners -> SUBSET Calls]
    /\ caller \in [Calls -> {"none", "refused", "holding", "waiting", "retiring", "releasing",
                             "closing", "aborting", "returned"}]
    /\ got \in [Calls -> {"none", "value", "panic", "closed", "given up"}]

CallsInit ==
    /\ request \in Workloads
    /\ connected = {} /\ registered = {} /\ last = {}
    /\ per_owner = [o \in Owners |-> 0]
    /\ slot = [c \in Calls |-> "none"]
    /\ task = [c \in Calls |-> "none"]
    /\ pending = [c \in Calls |-> "none"]
    /\ doing = [o \in Owners |-> "nothing"]
    /\ work = [o \in Owners |-> {}]
    /\ caller = [c \in Calls |-> "none"]
    /\ got = [c \in Calls |-> "none"]

(***************************************************************************)
(* The registry, the slots and the tasks.                                  *)
(***************************************************************************)
Saturating(n, m) == IF n >= m THEN n - m ELSE 0

RemovesAnyway(calls, o) ==
    /\ registered' = registered \ calls
    /\ per_owner' = [per_owner EXCEPT ![o] = Saturating(@, Cardinality(calls))]

\* Registry::remove of the calls that are registered, all of the owner.
remove(calls, o) ==
    /\ registered' = registered \ calls
    /\ per_owner' = [per_owner EXCEPT ![o] = Saturating(@, Cardinality(registered \cap calls))]

\* CallSlot::complete and CallSlot::close act on a pending slot only.
complete(c, outcome) == slot' = [slot EXCEPT ![c] = IF @ = "pending" THEN outcome ELSE @]
close(c)             == slot' = [slot EXCEPT ![c] = IF @ = "pending" THEN "closed" ELSE @]

LeavesPolls(calls) ==
    task' = [c \in Calls |-> IF c \in calls /\ task[c] = "running" /\ request[c].kind # "wait"
                             THEN "cancelled" ELSE task[c]]

\* AbortHandle::abort: a task that is past its last await ends by itself.
abort(calls) ==
    task' = [c \in Calls |-> IF c \in calls /\ task[c] = "running" THEN "cancelled" ELSE task[c]]

Kept(o) == {c \in Of(o) : pending[c] # "none"}

(***************************************************************************)
(* The Domain of a runtime graph.                                          *)
(***************************************************************************)
\* The calls of a graph are numbered in the order of their submission.
IsNext(c) ==
    /\ caller[c] = "none" /\ request[c].kind # "none"
    /\ \A k \in Of(owner[c]) : k < c => caller[k] # "none" \/ request[k].kind = "none"

connect_client(o) ==
    /\ doing[o] = "nothing" /\ o \notin connected
    /\ connected' = connected \cup {o}
    /\ UNCHANGED <<request, registered, per_owner, slot, task, pending, doing, work, caller, last, got>>

Refused(c, o) ==
    /\ caller' = [caller EXCEPT ![c] = "refused"]
    /\ doing' = [doing EXCEPT ![o] = "nothing"] /\ work' = [work EXCEPT ![o] = {}]

scope(c) == IF request[c].kind \in {"start", "wait"} THEN request[c].kind ELSE "bounded"

DropsUnregistered(o) ==
    [c \in Calls |-> IF c \in Of(o) /\ (task[c] = "finished" \/ c \notin registered) THEN "none" ELSE pending[c]]

\* The pending_calls without the handles of finished tasks, and with those of
\* the calls that left the registry released.
swept(o) ==
    [c \in Calls |->
        CASE c \in Of(o) /\ pending[c] # "none" /\ task[c] = "finished" -> "none"
          [] c \in Kept(o) /\ task[c] # "finished" /\ c \notin registered -> "released"
          [] OTHER -> pending[c]]

\* The limit of distinct starts or waits, which equal ones share; a start ID
\* that is pending for another request.
distinct(scopes, s) == {request[c].key : c \in {k \in Calls : scopes[k] = s}}
over_scope_limit(scopes, c) ==
    LET s    == scope(c)
        o    == owner[c]
        mine == [k \in Calls |-> IF owner[k] = o THEN scopes[k] ELSE "none"]
        over == IF s = "start" THEN pending_starts ELSE pending_waits
    IN  /\ s # "bounded"
        /\ \/ Cardinality(distinct(mine, s)) >= over /\ request[c].key \notin distinct(mine, s)
           \/ s = "start" /\ \E k \in Calls : /\ mine[k] = s /\ request[k].key = request[c].key
                                              /\ request[k].body # request[c].body

submit_client_call(c) ==
    LET o        == owner[c]
        scopes   == swept(o)
        released == {k \in Of(o) : scopes[k] = "released"}
    IN  /\ doing[o] = "nothing" /\ IsNext(c)
        /\ IF o \notin connected
           THEN Refused(c, o) /\ UNCHANGED <<pending, task>>
           ELSE /\ pending' = scopes /\ abort(released)
                /\ IF over_scope_limit(scopes, c) THEN Refused(c, o)
                   ELSE /\ doing' = [doing EXCEPT ![o] = "admitting"]
                        /\ work' = [work EXCEPT ![o] = {c}]
                        /\ UNCHANGED caller
        /\ UNCHANGED <<request, connected, registered, per_owner, slot, last, got>>

register(o, c, scopes) ==
    /\ registered' = registered \cup {c}
    /\ per_owner' = [per_owner EXCEPT ![o] = @ + 1]
    /\ slot' = [slot EXCEPT ![c] = "pending"]
    /\ task' = [task EXCEPT ![c] = "running"]
    /\ pending' = [scopes EXCEPT ![c] = scope(c)]
    /\ caller' = [caller EXCEPT ![c] = "holding"]
    /\ doing' = [doing EXCEPT ![o] = "nothing"] /\ work' = [work EXCEPT ![o] = {}]

in_flight(o, scopes) == Cardinality({c \in Of(o) : scopes[c] \notin {"none", "released"}})

\* At the ceiling the released tasks are joined first, then the two counts are
\* compared with it.  The caller of an admitted call has it after register, the
\* spawn of its task and attach_task; only callers change the registry of the
\* graph in between, and they only remove calls.
Admit(o, c) ==
    LET full    == Cardinality(Kept(o)) >= in_flight_calls[o]
        reaped  == {k \in Kept(o) : full /\ pending[k] = "released"}
        scopes  == [k \in Calls |-> IF k \in reaped THEN "none" ELSE pending[k]]
        refused == in_flight(o, scopes) >= in_flight_calls[o] \/ per_owner[o] >= in_flight_calls[o]
    IN  /\ doing[o] = "admitting" /\ work[o] = {c}
        /\ \A k \in reaped : task[k] = "finished"
        /\ IF refused
           THEN Refused(c, o) /\ pending' = scopes /\ UNCHANGED <<registered, per_owner, slot, task>>
           ELSE register(o, c, scopes)
        /\ UNCHANGED <<request, connected, last, got>>

\* disconnect_client: release_owner unregisters the calls, then closes them
\* outside the registry lock; the tasks are aborted and joined.
release_owner(o) ==
    /\ doing[o] = "nothing" /\ o \in connected
    /\ remove(Of(o), o)
    /\ doing' = [doing EXCEPT ![o] = "closing"]
    /\ work' = [work EXCEPT ![o] = registered \cap Of(o)]
    /\ UNCHANGED <<request, connected, slot, task, pending, caller, last, got>>

CloseReleased(o, c) ==
    /\ doing[o] = "closing" /\ c \in work[o]
    /\ close(c)
    /\ work' = [work EXCEPT ![o] = @ \ {c}]
    /\ UNCHANGED <<request, connected, registered, per_owner, task, pending, doing, caller, last, got>>

abort_pending_calls(o) ==
    /\ doing[o] = "closing" /\ work[o] = {}
    /\ abort(Kept(o))
    /\ pending' = [c \in Calls |-> IF c \in Of(o) THEN "none" ELSE pending[c]]
    /\ doing' = [doing EXCEPT ![o] = "joining"] /\ work' = [work EXCEPT ![o] = Kept(o)]
    /\ UNCHANGED <<request, connected, registered, per_owner, slot, caller, last, got>>

disconnect_client(o) ==
    /\ doing[o] = "joining"
    /\ \A c \in work[o] : task[c] = "finished"
    /\ connected' = connected \ {o}
    /\ doing' = [doing EXCEPT ![o] = "nothing"] /\ work' = [work EXCEPT ![o] = {}]
    /\ UNCHANGED <<request, registered, per_owner, slot, task, pending, caller, last, got>>

(***************************************************************************)
(* The task of a call, and its CompletionGuard.                            *)
(***************************************************************************)
Ends(c, outcome) ==
    /\ complete(c, outcome)
    /\ task' = [task EXCEPT ![c] = "ending"]
    /\ UNCHANGED <<request, connected, registered, per_owner, pending, doing, work, caller, last, got>>

\* Also a cancelled task may be past its last await.
TaskCompletes(c) == task[c] \in {"running", "cancelled"} /\ Ends(c, "value")

UnwindsUnsettled(c) ==
    /\ c \in Panicking /\ task[c] = "running"
    /\ task' = [task EXCEPT ![c] = "ending"]
    /\ UNCHANGED <<request, connected, registered, per_owner, slot, pending, doing, work, caller, last, got>>

\* CompletionGuard::drop: the task ends without an outcome.
TaskPanics(c)    == c \in Panicking /\ task[c] \in {"running", "cancelled"} /\ Ends(c, "panic")
TaskIsDropped(c) == task[c] = "cancelled" /\ Ends(c, "aborted")

TaskFinishes(c) ==
    /\ task[c] = "ending"
    /\ task' = [task EXCEPT ![c] = "finished"]
    /\ UNCHANGED <<request, connected, registered, per_owner, slot, pending, doing, work, caller, last, got>>

(***************************************************************************)
(* The caller: one bounded await_call after the other, until the call is   *)
(* settled, its deadline passes or an exception interrupts the loop.       *)
(***************************************************************************)
CallerUnchanged == UNCHANGED <<request, connected, per_owner, registered, task, pending, doing, work>>

\* await_call finds the slot, or the call is closed.
LooksUp(c) ==
    /\ caller[c] = "holding"
    /\ IF c \in registered
       THEN caller' = [caller EXCEPT ![c] = "waiting"] /\ UNCHANGED got
       ELSE caller' = [caller EXCEPT ![c] = "returned"] /\ got' = [got EXCEPT ![c] = "closed"]
    /\ UNCHANGED <<slot, last>> /\ CallerUnchanged

\* The terminal read, which leaves the slot closed.
Reads(c) ==
    /\ caller[c] = "waiting" /\ slot[c] # "pending"
    /\ got' = [got EXCEPT ![c] = IF slot[c] \in {"value", "panic"} THEN slot[c] ELSE "closed"]
    /\ slot' = [slot EXCEPT ![c] = "closed"]
    /\ caller' = [caller EXCEPT ![c] = "retiring"]
    /\ UNCHANGED last /\ CallerUnchanged

Retires(c) ==
    /\ caller[c] = "retiring"
    /\ remove({c}, owner[c])
    /\ caller' = [caller EXCEPT ![c] = "returned"]
    /\ UNCHANGED <<request, connected, slot, task, pending, doing, work, last, got>>

\* STATUS_NOT_READY: another slice, or, past the deadline, the end.  The slice
\* of a caller that stays is as long as it takes.
NotReady(c) ==
    /\ caller[c] = "waiting" /\ slot[c] = "pending" /\ request[c].leaves # ""
    /\ caller' = [caller EXCEPT ![c] = IF c \in last THEN "releasing" ELSE "holding"]
    /\ UNCHANGED <<slot, last, got>> /\ CallerUnchanged

\* The cell is read once more after the deadline.
DeadlinePasses(c) ==
    /\ caller[c] = "holding" /\ c \notin last /\ request[c].leaves = "deadline"
    /\ last' = last \cup {c}
    /\ UNCHANGED <<slot, caller, got>> /\ CallerUnchanged

Interrupted(c) ==
    /\ caller[c] = "holding" /\ request[c].leaves = "interrupt"
    /\ caller' = [caller EXCEPT ![c] = "releasing"]
    /\ UNCHANGED <<slot, last, got>> /\ CallerUnchanged

\* release_call: unregister, close, abort; nothing if the call has left.
release_call(c) ==
    /\ caller[c] = "releasing"
    /\ remove({c}, owner[c])
    /\ caller' = [caller EXCEPT ![c] = IF c \in registered THEN "closing" ELSE "returned"]
    /\ got' = [got EXCEPT ![c] = "given up"]
    /\ UNCHANGED <<request, connected, slot, task, pending, doing, work, last>>

ReleaseCloses(c) ==
    /\ caller[c] = "closing"
    /\ close(c)
    /\ caller' = [caller EXCEPT ![c] = "aborting"]
    /\ UNCHANGED <<last, got>> /\ CallerUnchanged

ReleaseAborts(c) ==
    /\ caller[c] = "aborting"
    /\ abort({c})
    /\ caller' = [caller EXCEPT ![c] = "returned"]
    /\ UNCHANGED <<request, connected, registered, per_owner, slot, pending, doing, work, last, got>>

(***************************************************************************)
(* The specification.  Of the tasks, only those of a long poll may run on  *)
(* for ever; every other one has a deadline of its own.                    *)
(***************************************************************************)
Awaits(c) == LooksUp(c) \/ Reads(c) \/ Retires(c) \/ NotReady(c)
Releases(c) == release_call(c) \/ ReleaseCloses(c) \/ ReleaseAborts(c)
CallerStep(c) == Awaits(c) \/ DeadlinePasses(c) \/ Interrupted(c) \/ Releases(c)

Shutdown(o) ==
    \/ \E c \in Calls : CloseReleased(o, c)
    \/ abort_pending_calls(o)
    \/ disconnect_client(o)

OwnerStep(o) ==
    \/ connect_client(o)
    \/ \E c \in Of(o) : submit_client_call(c)
    \/ \E c \in Calls : Admit(o, c)
    \/ release_owner(o)
    \/ Shutdown(o)

TaskStep(c) == TaskCompletes(c) \/ TaskPanics(c) \/ TaskIsDropped(c) \/ TaskFinishes(c)

CallsNext ==
    \/ \E o \in Owners : OwnerStep(o)
    \/ \E c \in Calls : TaskStep(c) \/ CallerStep(c)

CallsSpec == CallsInit /\ [][CallsNext]_callVars

(***************************************************************************)
(* Properties.                                                             *)
(***************************************************************************)
\* The count that admission reads in O(1) is exactly the number of registered
\* calls of the graph, although callers, releases and shutdowns remove calls
\* from three sides; and no graph has more calls, or keeps more task handles,
\* than its ceiling, released ones included.
Accounted ==
    \A o \in Owners :
        /\ per_owner[o] = Cardinality(registered \cap Of(o))
        /\ per_owner[o] <= in_flight_calls[o]
        /\ Cardinality(Kept(o)) <= in_flight_calls[o]

\* After a disconnect, and before the connection is dropped, no call of the
\* graph is registered and no task that holds a clone of the connection is
\* alive, also none that was released or read while it was still running.
NothingOutlivesDisconnect ==
    \A o \in Owners \ connected :
        \A c \in Of(o) : c \notin registered /\ task[c] \in {"none", "finished"}

\* The life of a call as the caller sees it.  A task that is gone without
\* having settled its slot would be none of the promised phases.
Phase(c) ==
    CASE caller[c] \in {"none", "refused"} -> "new"
      [] caller[c] \in {"releasing", "closing", "aborting"} \/ got[c] = "given up" -> "abandoned"
      [] got[c] = "closed" -> "closed"
      [] got[c] \in {"value", "panic"} -> "answered"
      [] OTHER -> IF slot[c] \in {"value", "panic"} THEN "produced"
                  ELSE IF slot[c] = "pending" /\ task[c] \in {"ending", "finished"} THEN "stranded"
                  ELSE "open"

Cells == INSTANCE OneShotCalls WITH
    phase  <- [c \in Calls |-> Phase(c)],
    doomed <- {c \in Calls \ registered : caller[c] \in {"holding", "waiting"}}

\* Every submitted call is answered once, with what its own task produced,
\* unless the client was shut down after the submission or the caller gave up;
\* and a call that is settled or closed does not keep its caller waiting.
CallsAreOneShot == Cells!Spec
=============================================================================
