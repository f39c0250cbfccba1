------------------------------ MODULE Readiness ------------------------------
(***************************************************************************)
(* Readiness, AnyLaneWake, observe_both and wait_any_lane of               *)
(* rust/core-bridge/src/worker_bridge.rs: how a poll lane that publishes a *)
(* message, an error or its end wakes the owner, which waits for one lane  *)
(* or for both.  Every lane has a mutex and a condition variable; the      *)
(* combined wait has a mutex of its own (generation), which the owner      *)
(* holds while it looks at the lanes and a producer takes only after it    *)
(* has released its lane.                                                  *)
(***************************************************************************)
EXTENDS Naturals

CONSTANTS
    Lanes,        \* the workflow and the activity lane
    First,        \* the lane that observe_both locks first
    None,         \* no lane: the holder of a free mutex, the combined wait
    MaxMessages   \* bound: messages per lane

ASSUME LaneAssumption == First \in Lanes /\ None \notin Lanes

VARIABLES
    channel,   \* messages in the channel of a lane
    state,     \* the fields pending, error and closed of ReadinessState
    mutex,     \* holder of a lane's mutex: "free", "producer", "owner"
    gen,       \* holder of the generation mutex: "free", "owner" or a lane
    lpc, lop,  \* position and operation of a lane's producer
    sent,      \* messages a lane has sent
    opc,       \* position of the owner
    target,    \* lane the owner waits for or takes from; None waits for both
    seen,      \* lanes whose state the owner has locked and copied, with it
    expired,   \* the deadline of the combined wait has passed
    result,    \* what the wait just ended returned
    had        \* history: a lane waited for had work when the wait began

vars == <<channel, state, mutex, gen, lpc, lop, sent, opc, target, seen, expired,
          result, had>>
waitVars == <<target, seen, expired, result, had>>

Ops     == {"enqueue", "fail", "close"}
LanePcs == {"idle", "send", "commit", "notify", "bump", "ended"}
OwnerPcs == {"idle", "observe", "copied", "asleep", "waitLane", "asleepLane", "woken", "received"}
Results == {"none", "Ready", "Error", "Shutdown", "TimedOut"}
State   == [pending : 0..MaxMessages, error : BOOLEAN, closed : BOOLEAN]

Quiet(s) == s.pending = 0 /\ ~s.error /\ ~s.closed

Init ==
    /\ channel = [l \in Lanes |-> 0]
    /\ state = [l \in Lanes |-> [pending |-> 0, error |-> FALSE, closed |-> FALSE]]
    /\ mutex = [l \in Lanes |-> "free"]
    /\ gen = "free"
    /\ lpc = [l \in Lanes |-> "idle"]
    /\ lop = [l \in Lanes |-> "enqueue"]
    /\ sent = [l \in Lanes |-> 0]
    /\ opc = "idle"
    /\ target = None
    /\ seen = {}
    /\ expired = FALSE
    /\ result = "none"
    /\ had = FALSE

-----------------------------------------------------------------------------
(* A poll lane: enqueue, fail and close *)

Lock(l) ==
    /\ lpc[l] = "idle"
    /\ mutex[l] = "free"
    /\ mutex' = [mutex EXCEPT ![l] = "producer"]
    /\ \E op \in Ops :
          /\ op = "enqueue" => sent[l] < MaxMessages
          /\ lop' = [lop EXCEPT ![l] = op]
          /\ lpc' = [lpc EXCEPT ![l] = IF op = "enqueue" THEN "send" ELSE "commit"]
    /\ UNCHANGED <<channel, state, gen, sent, opc, waitVars>>

\* sender.send: from here on an asynchronous receive can have the message.
SendMessage(l) ==
    /\ lpc[l] = "send"
    /\ channel' = [channel EXCEPT ![l] = @ + 1]
    /\ sent' = [sent EXCEPT ![l] = @ + 1]
    /\ lpc' = [lpc EXCEPT ![l] = "commit"]
    /\ UNCHANGED <<state, mutex, gen, lop, opc, waitVars>>

\* notify_all on the lane's condition variable.
LaneWake(l) == IF opc = "asleepLane" /\ target = l THEN "woken" ELSE opc

\* The lane mutex is released before the generation mutex is requested.
Unlocked(l) == [mutex EXCEPT ![l] = "free"]

\* The new state of the lane.
Recorded(l) ==
    CASE lop[l] = "enqueue" -> [state[l] EXCEPT !.pending = @ + 1]
      [] lop[l] = "fail"    -> [state[l] EXCEPT !.error = TRUE]
      [] lop[l] = "close"   -> [state[l] EXCEPT !.closed = TRUE]

Commit(l) ==
    /\ lpc[l] = "commit"
    /\ state' = [state EXCEPT ![l] = Recorded(l)]
    /\ opc' = LaneWake(l)
    /\ mutex' = Unlocked(l)
    /\ lpc' = [lpc EXCEPT ![l] = "notify"]
    /\ UNCHANGED <<channel, gen, lop, sent, waitVars>>

\* AnyLaneWake::notify: lock, bump, notify_all, unlock.
TakeGeneration(l) ==
    /\ lpc[l] = "notify"
    /\ gen = "free"
    /\ gen' = l
    /\ lpc' = [lpc EXCEPT ![l] = "bump"]
    /\ UNCHANGED <<channel, state, mutex, lop, sent, opc, waitVars>>

\* Mutant: the combined wait is not notified.
NoAnyWake == opc

\* notify_all on the condition variable of the combined wait.
AnyWake == IF opc = "asleep" THEN "woken" ELSE opc

Notify(l) ==
    /\ lpc[l] = "bump"
    /\ opc' = AnyWake
    /\ gen' = "free"
    /\ mutex' = [mutex EXCEPT ![l] = IF @ = "producer" THEN "free" ELSE @]
    /\ lpc' = [lpc EXCEPT ![l] = IF lop[l] = "enqueue" THEN "idle" ELSE "ended"]
    /\ lop' = [lop EXCEPT ![l] = "enqueue"]
    /\ UNCHANGED <<channel, state, sent, waitVars>>

Producer(l) == Lock(l) \/ SendMessage(l) \/ Commit(l) \/ TakeGeneration(l) \/ Notify(l)

-----------------------------------------------------------------------------
(* The owner: wait_any_lane *)

BeginWaitAny ==
    /\ opc = "idle" \/ (opc = "woken" /\ target = None)
    /\ gen = "free"
    /\ gen' = "owner"
    /\ opc' = "observe"
    /\ target' = None
    /\ seen' = {}
    /\ expired' = (opc = "woken" /\ expired)
    /\ result' = "none"
    /\ had' = IF opc = "idle" THEN \E l \in Lanes : state[l].pending > 0 ELSE had
    /\ UNCHANGED <<channel, state, mutex, lpc, lop, sent>>

\* observe_both locks the workflow lane, then the other one.
ObserveLock(l) ==
    /\ opc = "observe"
    /\ mutex[l] = "free"
    /\ l = First \/ mutex[First] = "owner"
    /\ mutex' = [mutex EXCEPT ![l] = "owner"]
    /\ UNCHANGED <<channel, state, gen, lpc, lop, sent, opc, waitVars>>

\* Both states are copied while both lanes are locked.
ObserveCopy ==
    /\ opc = "observe"
    /\ \A l \in Lanes : mutex[l] = "owner"
    /\ seen' = {state[l] : l \in Lanes}
    /\ mutex' = [l \in Lanes |-> "free"]
    /\ opc' = "copied"
    /\ UNCHANGED <<channel, state, gen, lpc, lop, sent, target, expired, result, had>>

\* Mutant: a closed lane ends the wait although the other lane has work.
ClosedFirst(ss) ==
    CASE \E s \in ss : s.closed      -> "Shutdown"
      [] \E s \in ss : s.pending > 0 -> "Ready"
      [] \E s \in ss : s.error       -> "Error"
      [] OTHER                       -> "none"

\* Work is reported before errors, and errors before shutdown.
Verdict(ss) ==
    CASE \E s \in ss : s.pending > 0 -> "Ready"
      [] \E s \in ss : s.error       -> "Error"
      [] \E s \in ss : s.closed      -> "Shutdown"
      [] OTHER                       -> "none"

\* The owner returns, or sleeps: wait_timeout releases generation and blocks.
Decide ==
    /\ opc = "copied"
    /\ gen' = "free"
    /\ result' = IF Verdict(seen) = "none" /\ expired THEN "TimedOut" ELSE Verdict(seen)
    /\ opc' = IF result' = "none" THEN "asleep" ELSE "idle"
    /\ seen' = {}
    /\ expired' = FALSE
    /\ UNCHANGED <<channel, state, mutex, lpc, lop, sent, target, had>>

(* The owner: Readiness::wait *)

BeginWait(l) ==
    /\ opc = "idle" \/ (opc = "woken" /\ target = l)
    /\ mutex[l] = "free"
    /\ result' = Verdict({state[l]})
    /\ target' = IF result' = "none" THEN l ELSE None
    /\ opc' = IF result' = "none" THEN "asleepLane" ELSE "idle"
    /\ had' = IF opc = "idle" THEN state[l].pending > 0 ELSE had
    /\ UNCHANGED <<channel, state, mutex, gen, lpc, lop, sent, seen, expired>>

\* READINESS_WAIT_TIMEOUT elapses, or the wait wakes up spuriously.  The
\* combined wait looks at the lanes once more; the wait for one lane returns.
WaitTimeout ==
    /\ \/ /\ opc = "asleep"
          /\ opc' = "woken"
          /\ expired' \in BOOLEAN
          /\ UNCHANGED <<result, target>>
       \/ /\ opc = "asleepLane"
          /\ \/ opc' = "idle" /\ result' = "TimedOut" /\ target' = None
             \/ opc' = "woken" /\ UNCHANGED <<result, target>>
          /\ UNCHANGED expired
    /\ UNCHANGED <<channel, state, mutex, gen, lpc, lop, sent, seen, had>>

(* The owner: take_inner and take_async *)

Take(l) ==
    /\ opc = "idle"
    /\ mutex[l] = "free"
    /\ channel[l] > 0
    /\ channel' = [channel EXCEPT ![l] = @ - 1]
    /\ state' = [state EXCEPT ![l].pending = @ - 1]
    /\ result' = "none"
    /\ had' = FALSE
    /\ UNCHANGED <<mutex, gen, lpc, lop, sent, opc, target, seen, expired>>

\* recv().await needs no mutex; the count follows under the mutex.
Receive(l) ==
    /\ opc = "idle"
    /\ channel[l] > 0
    /\ channel' = [channel EXCEPT ![l] = @ - 1]
    /\ target' = l
    /\ opc' = "received"
    /\ result' = "none"
    /\ had' = FALSE
    /\ UNCHANGED <<state, mutex, gen, lpc, lop, sent, seen, expired>>

MutexFree(l) == mutex[l] = "free"

ReceiveCount ==
    /\ opc = "received"
    /\ MutexFree(target)
    /\ state' = [state EXCEPT ![target].pending = @ - 1]
    /\ opc' = "idle"
    /\ target' = None
    /\ UNCHANGED <<channel, mutex, gen, lpc, lop, sent, seen, expired, result, had>>

Waiting ==
    \/ BeginWaitAny
    \/ \E l \in Lanes : ObserveLock(l) \/ BeginWait(l)
    \/ ObserveCopy
    \/ Decide

Consuming == (\E l \in Lanes : Take(l) \/ Receive(l)) \/ ReceiveCount

Next == (\E l \in Lanes : Producer(l)) \/ Waiting \/ WaitTimeout \/ Consuming

Spec == Init /\ [][Next]_vars

\* A producer finishes what it has begun, and so does a waiting owner; the
\* wait needs neither its timeout nor a spurious wake-up.
Fairness ==
    /\ \A l \in Lanes : WF_vars(lpc[l] # "idle" /\ Producer(l))
    /\ WF_vars(opc # "idle" /\ Waiting)

FairSpec == Spec /\ Fairness

-----------------------------------------------------------------------------
(* Properties *)

\* Every field keeps its type; in particular a message is never counted out
\* before it was counted in (the debug assertions of take_inner, take_async).
TypeOK ==
    /\ channel \in [Lanes -> 0..MaxMessages]
    /\ state \in [Lanes -> State]
    /\ mutex \in [Lanes -> {"free", "producer", "owner"}]
    /\ gen \in Lanes \cup {"free", "owner"}
    /\ lpc \in [Lanes -> LanePcs]
    /\ lop \in [Lanes -> Ops]
    /\ sent \in [Lanes -> 0..MaxMessages]
    /\ opc \in OwnerPcs
    /\ target \in Lanes \cup {None}
    /\ seen \subseteq State
    /\ expired \in BOOLEAN
    /\ result \in Results
    /\ had \in BOOLEAN

One(b) == IF b THEN 1 ELSE 0

\* Work that was there when a wait began is what the wait reports: neither an
\* error nor the end of a lane, nor a timeout, hides queued messages.  For
\* pending is the length of the channel, up to the message a producer has sent
\* and not yet counted and the one the owner has received and not yet counted
\* out: no wait misses a message, none reports one that is gone.
WorkBeforeEnd ==
    /\ TypeOK
    /\ opc = "idle" /\ had /\ result # "none" => result = "Ready"
    /\ \A l \in Lanes :
        state[l].pending + One(lpc[l] = "commit" /\ lop[l] = "enqueue")
            = channel[l] + One(opc = "received" /\ target = l)

\* A message, an error or the end of a lane ends the wait that it concerns,
\* without the help of a timeout: no notification is lost between the owner's
\* look at the lanes and its sleep, and the two kinds of mutex are never waited
\* for in a circle.
WaitReturns ==
    \A l \in Lanes :
        /\ opc = "asleep" /\ ~Quiet(state[l]) ~> opc = "idle"
        /\ opc = "asleepLane" /\ target = l /\ ~Quiet(state[l]) ~> opc = "idle"
====
