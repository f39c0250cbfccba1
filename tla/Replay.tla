------------------------------- MODULE Replay -------------------------------
(***************************************************************************)
(* The replay worker of one runtime graph: replay_bridge.rs, the replay    *)
(* operations of abi.rs and the replay side of the workflow lane in        *)
(* worker_bridge.rs.                                                       *)
(*                                                                         *)
(* A history is one run.  Core (external) takes a history from the feeder, *)
(* publishes one activation of work for it and, when that is completed,    *)
(* one cache eviction; it takes the next history when the eviction is      *)
(* acknowledged.  The owner's calls are exclusive; the lane and Core run   *)
(* beside them.  A call that has to join the lane is open until it has.    *)
(***************************************************************************)
EXTENDS Naturals, Sequences, FiniteSets

CONSTANTS
    Histories,       \* the histories that may be fed
    document,        \* [Histories -> ...]: the document of each
    Unconvertible,   \* those whose activation has no semantic document
    NoHistory        \* none of them

ASSUME ReplayAssumption == Unconvertible \subseteq Histories /\ NoHistory \notin Histories

VARIABLES
    slot,        \* "none", or "owned": Runtime::replay_worker
    input,       \* the feeder is held: the input stream is open
    queue,       \* the histories in the feeder, at most one
    stream,      \* Core: the history it runs, the stage, cancelled, ended
    ledger,      \* per run "none", "ready" or "leased"
    ready,       \* the messages of the lane: runs, or NoHistory for an error
    lane,        \* "polling", "ended", "failed", "panicked" or "aborted"
    joined,      \* the lane's handle has been taken
    closed,      \* the readiness signal is closed
    observed,    \* workflow_shutdown_observed
    timed_out,   \* replay_join_timed_out
    activations, \* Runtime::workflow_activations
    call,        \* "none", or the call in progress
    fault,       \* the fault that Core still has in store, or "none"
    accepted,    \* the histories that feed_json took
    answered,    \* those whose work the owner answered in Core
    fate         \* what became of the worker

replayVars == <<slot, input, queue, stream, ledger, ready, lane, joined, closed, observed,
                timed_out, activations, call, fault, accepted, answered, fate>>

Faults == {"none", "poll error", "lane panic", "lost completion"}

NoStream == [run |-> NoHistory, stage |-> "idle", cancelled |-> FALSE, ended |-> FALSE]

ReplayInit ==
    /\ slot = "none" /\ input = FALSE /\ queue = <<>> /\ stream = NoStream
    /\ ledger = [h \in Histories |-> "none"] /\ ready = <<>>
    /\ lane = "ended" /\ joined = TRUE /\ closed = FALSE
    /\ observed = FALSE /\ timed_out = FALSE /\ activations = {} /\ call = "none"
    /\ fault \in Faults
    /\ accepted = {} /\ answered = {} /\ fate = "unborn"

(***************************************************************************)
(* Core.                                                                   *)
(***************************************************************************)
Idle == [stream EXCEPT !.run = NoHistory, !.stage = "idle"]

\* What a completion of a run that Core still waits for does to the stream.
Advanced(h) ==
    IF stream.run # h THEN stream
    ELSE CASE stream.stage = "working"  -> [stream EXCEPT !.stage = "evicting"]
           [] stream.stage = "evicted"  -> Idle
           [] OTHER -> stream

CoreTakes ==
    /\ slot = "owned" /\ ~stream.ended /\ ~stream.cancelled
    /\ stream.stage = "idle" /\ queue # <<>>
    /\ stream' = [stream EXCEPT !.run = Head(queue), !.stage = "taken"]
    /\ queue' = Tail(queue)
    /\ UNCHANGED <<slot, input, ledger, ready, lane, joined, closed, observed, timed_out,
                   activations, call, fault, accepted, answered, fate>>

\* The stream ends when its input has, or at once when it is cancelled; it
\* waits for the work it has issued, not for the acknowledgement of an eviction.
CoreEnds ==
    /\ slot = "owned" /\ ~stream.ended
    /\ \/ stream.cancelled /\ stream.stage # "working"
       \/ ~input /\ queue = <<>> /\ stream.stage \in {"idle", "evicted"}
    /\ stream' = [Idle EXCEPT !.ended = TRUE]
    /\ queue' = <<>>
    /\ UNCHANGED <<slot, input, ledger, ready, lane, joined, closed, observed, timed_out,
                   activations, call, fault, accepted, answered, fate>>

(***************************************************************************)
(* The lane: it admits what Core publishes, also while draining.           *)
(***************************************************************************)
LanePublishes ==
    /\ slot = "owned" /\ lane = "polling" /\ ~stream.ended
    /\ stream.stage \in {"taken", "evicting"}
    /\ ledger' = [ledger EXCEPT ![stream.run] = "ready"]
    /\ ready' = Append(ready, stream.run)
    /\ stream' = [stream EXCEPT !.stage = IF @ = "taken" THEN "working" ELSE "evicted"]
    /\ UNCHANGED <<slot, input, queue, lane, joined, closed, observed, timed_out,
                   activations, call, fault, accepted, answered, fate>>

LaneStops ==
    /\ slot = "owned" /\ lane = "polling"
    /\ \/ /\ stream.ended                     \* PollError::ShutDown
          /\ lane' = "ended" /\ closed' = TRUE
          /\ UNCHANGED <<ready, fault>>
       \/ /\ fault = "poll error"             \* any other error of the poll
          /\ lane' = "failed" /\ closed' = closed
          /\ ready' = Append(ready, NoHistory) /\ fault' = "none"
       \/ /\ fault = "lane panic"
          /\ lane' = "panicked" /\ fault' = "none"
          /\ UNCHANGED <<ready, closed>>
    /\ UNCHANGED <<slot, input, queue, stream, ledger, joined, observed, timed_out,
                   activations, call, accepted, answered, fate>>

(***************************************************************************)
(* The owner's calls.                                                      *)
(***************************************************************************)
\* A call can be made: the replay worker is there and no other call runs.
Callable == slot = "owned" /\ call = "none"

start_workflow_only == lane' = "polling" /\ joined' = FALSE

start_bridge == input' = TRUE /\ stream' = NoStream /\ start_workflow_only

\* Bound: a graph starts one replay worker.
start_replay_worker ==
    /\ slot = "none" /\ call = "none" /\ fate = "unborn"
    /\ start_bridge
    /\ slot' = "owned" /\ fate' = "running"
    /\ UNCHANGED <<queue, ledger, ready, closed, observed, timed_out, activations, call,
                   fault, accepted, answered>>

\* What Core does not check itself before it relies on it.
validate_replay_preconditions(d) ==
    /\ d.recorded \in {"", d.workflow_id}
    /\ d.queue
    /\ \A i \in DOMAIN d.events : d.events[i].id = i /\ (d.events[i].task => d.events[i].timed)

\* wellFormed: the document, its encoding, the protobuf and Core's own gate.
decode_history_document(d) ==
    /\ d.wellFormed
    /\ d.workflow_id \notin {"", "long", "nul"}
    /\ validate_replay_preconditions(d)

\* A full feeder makes the call time out and drops the history unsent.
feed_json(h) ==
    /\ decode_history_document(document[h])
    /\ input /\ Len(queue) < 1
    /\ queue' = Append(queue, h) /\ accepted' = accepted \cup {h}

\* Bound: a history is fed once.
feed_replay_history_json(h) ==
    /\ Callable /\ h \notin accepted
    /\ feed_json(h)
    /\ UNCHANGED <<slot, input, stream, ledger, ready, lane, joined, closed, observed,
                   timed_out, activations, call, fault, answered, fate>>

finish_replay_input ==
    /\ Callable /\ input
    /\ input' = FALSE
    /\ UNCHANGED <<slot, queue, stream, ledger, ready, lane, joined, closed, observed,
                   timed_out, activations, call, fault, accepted, answered, fate>>

\* Queued messages come first, then the lane's error, then the end.
ReportsShutdown == ready = <<>> /\ lane # "failed" /\ closed

wait_workflow == ReportsShutdown /\ observed' = TRUE

wait_replay_workflow ==
    /\ Callable /\ ~observed /\ wait_workflow
    /\ UNCHANGED <<slot, input, queue, stream, ledger, ready, lane, joined, closed,
                   timed_out, activations, call, fault, accepted, answered, fate>>

\* complete_workflow_unless_stranded: Core answers a completion, or the bounded
\* wait gives it up after Core has consumed it ("late") or without ("lost").
Outcomes == {"accepted", "late", "lost"}

Reaches(h, outcome) ==
    /\ outcome # "accepted" => fault = "lost completion" /\ stream.run = h
    /\ fault' = IF outcome = "accepted" THEN fault ELSE "none"
    /\ IF outcome = "lost" THEN UNCHANGED <<stream, answered>>
       ELSE /\ stream' = Advanced(h)
            /\ answered' = IF stream.run = h /\ stream.stage = "working"
                           THEN answered \cup {h} ELSE answered

\* complete_workflow_with and reject_workflow_delivery_with: the lease is
\* retired before Core is called and stays retired.
Retires(h, outcome) ==
    /\ ledger[h] = "leased"
    /\ ledger' = [ledger EXCEPT ![h] = "none"]
    /\ Reaches(h, outcome)

\* The semantic document is made and retained, or the delivery is rejected
\* and the error returned.
try_poll_replay_workflow(outcome) ==
    /\ Callable /\ ready # <<>>
    /\ ready' = Tail(ready)
    /\ LET h == Head(ready)
           rejected == h \in Unconvertible \cup activations
       IN  IF h = NoHistory
           THEN /\ outcome = "accepted"
                /\ UNCHANGED <<ledger, activations, stream, fault, answered>>
           ELSE IF rejected
           THEN /\ ledger' = [ledger EXCEPT ![h] = "none"]
                /\ Reaches(h, outcome) /\ UNCHANGED activations
           ELSE /\ outcome = "accepted"
                /\ ledger' = [ledger EXCEPT ![h] = "leased"]
                /\ activations' = activations \cup {h}
                /\ UNCHANGED <<stream, fault, answered>>
    /\ UNCHANGED <<slot, input, queue, lane, joined, closed, observed, timed_out, call,
                   accepted, fate>>

\* The document is dropped only when Core has accepted the completion.
complete_replay_workflow(h, outcome) ==
    /\ Callable /\ h \in activations
    /\ Retires(h, outcome)
    /\ activations' = IF outcome = "accepted" THEN activations \ {h} ELSE activations
    /\ UNCHANGED <<slot, input, queue, ready, lane, joined, closed, observed, timed_out,
                   call, accepted, fate>>

\* The document goes whatever the outcome; without a lease nothing is sent.
reject_replay_workflow(h, outcome) ==
    /\ Callable /\ h \in activations
    /\ activations' = activations \ {h}
    /\ IF ledger[h] = "leased"
       THEN Retires(h, outcome)
       ELSE outcome = "accepted" /\ UNCHANGED <<ledger, stream, fault, answered>>
    /\ UNCHANGED <<slot, input, queue, ready, lane, joined, closed, observed, timed_out,
                   call, accepted, fate>>

(***************************************************************************)
(* Finalization and disposal.                                              *)
(***************************************************************************)
Outstanding == {h \in Histories : ledger[h] # "none"}

InputAndLedger == ~timed_out /\ ~input /\ Outstanding = {}

\* Otherwise ReplayNotDrained, or the lane error of an earlier join.
Drained == ~timed_out /\ ~input /\ observed /\ Outstanding = {}

finalize_replay ==
    /\ Callable /\ Drained
    /\ call' = "finalize"
    /\ UNCHANGED <<slot, input, queue, stream, ledger, ready, lane, joined, closed, observed,
                   timed_out, activations, fault, accepted, answered, fate>>

\* abandon_replay_for_dispose: everything the bridge owes is acknowledged by
\* an empty completion, whose outcome is ignored.
Abandons(cancel) ==
    /\ ledger' = [h \in Histories |-> "none"]
    /\ ready' = <<>>
    /\ LET s == IF stream.run \in Outstanding THEN Advanced(stream.run) ELSE stream
       IN  stream' = [s EXCEPT !.cancelled = @ \/ cancel]

Gone(how) ==
    /\ slot' = "none" /\ fate' = how /\ activations' = {}
    /\ call' = "none" /\ ledger' = [h \in Histories |-> "none"] /\ ready' = <<>>
    /\ queue' = <<>> /\ input' = FALSE /\ observed' = FALSE /\ closed' = FALSE
    /\ stream' = NoStream /\ lane' = "ended" /\ joined' = TRUE /\ timed_out' = FALSE
    /\ UNCHANGED <<fault, accepted, answered>>

NeverLeaks == FALSE

\* A worker whose lane did not stop never reaches Core's finalizer.
leaks == timed_out

\* From now on the owner has given the replay up.
dispose ==
    IF leaks THEN Gone("leaked")
    ELSE /\ input' = FALSE /\ Abandons(TRUE) /\ closed' = TRUE
         /\ call' = "dispose" /\ fate' = "disposed"
         /\ UNCHANGED <<slot, queue, lane, joined, observed, timed_out, activations,
                        fault, accepted, answered>>

dispose_replay == Callable /\ dispose

Joining == call \in {"finalize", "dispose"} /\ ~joined

\* What the lane publishes while it is joined is acknowledged on the spot.
JoinDrains ==
    /\ Joining /\ ready # <<>>
    /\ ready' = Tail(ready)
    /\ ledger' = [h \in Histories |-> IF h = Head(ready) THEN "none" ELSE ledger[h]]
    /\ stream' = Advanced(Head(ready))
    /\ UNCHANGED <<slot, input, queue, lane, joined, closed, observed, timed_out,
                   activations, call, fault, accepted, answered, fate>>

\* The lane has stopped: a panic is an error of the join, as is a time-out,
\* after which the lane is aborted.  A failed join keeps the worker.
Join(how) ==
    /\ Joining /\ joined' = TRUE
    /\ \/ /\ how = "stopped" /\ lane \in {"ended", "failed"}
          /\ IF call = "dispose" THEN Abandons(FALSE) ELSE UNCHANGED <<ledger, ready, stream>>
          /\ call' = "core" /\ UNCHANGED <<closed, timed_out, lane, fate>>
       \/ /\ \/ how = "panicked" /\ lane = "panicked" /\ UNCHANGED <<timed_out, lane>>
             \/ /\ how = "late" /\ lane = "polling"
                /\ timed_out' = TRUE /\ lane' = "aborted"
          /\ IF call = "finalize"
             THEN Abandons(TRUE) /\ closed' = TRUE /\ fate' = "disposed"
             ELSE UNCHANGED <<ledger, ready, stream, closed, fate>>
          /\ call' = "none"
    /\ UNCHANGED <<slot, input, queue, observed, activations, fault, accepted, answered>>

\* A later attempt finds no handle to join.
JoinsNothing ==
    /\ call \in {"finalize", "dispose"} /\ joined
    /\ IF call = "dispose" THEN Abandons(FALSE) ELSE UNCHANGED <<ledger, ready, stream>>
    /\ call' = "core"
    /\ UNCHANGED <<slot, input, queue, lane, joined, closed, observed, timed_out,
                   activations, fault, accepted, answered, fate>>

\* Core's finalizer joins the thread of the stream, however long that takes.
CoreFinalizes ==
    /\ call = "core" /\ stream.ended /\ Outstanding = {}
    /\ Gone(IF fate = "disposed" THEN "abandoned" ELSE "finalized")

OwnerReplays ==
    \/ start_replay_worker \/ finish_replay_input \/ wait_replay_workflow
    \/ \E h \in Histories : feed_replay_history_json(h)
    \/ \E outcome \in Outcomes :
         \/ try_poll_replay_workflow(outcome)
         \/ \E h \in Histories : \/ complete_replay_workflow(h, outcome)
                                 \/ reject_replay_workflow(h, outcome)
    \/ finalize_replay \/ dispose_replay

CallSteps ==
    \/ JoinDrains \/ JoinsNothing \/ CoreFinalizes
    \/ \E how \in {"stopped", "panicked", "late"} : Join(how)

ReplayBackground == CoreTakes \/ CoreEnds \/ LanePublishes \/ LaneStops

(***************************************************************************)
(* Finalization is evidence of a replay: when finalize_replay has ended    *)
(* well for a worker that was never disposed, the owner itself has         *)
(* answered the work of every history that feed_json accepted.  None was   *)
(* cancelled in the queue, or acknowledged by the bridge in its place.     *)
(***************************************************************************)
FinalizedIsReplayed == fate = "finalized" => accepted \subseteq answered
=============================================================================
