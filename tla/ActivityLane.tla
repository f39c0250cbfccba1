---------------------------- MODULE ActivityLane ----------------------------
(***************************************************************************)
(* The activity half of rust/core-bridge/src/worker_bridge.rs: the poll    *)
(* lane, the activity entries of the task ledger, the ready queue, and the *)
(* thread that owns PollLanes.  A Start carries the only completion debt   *)
(* of its token; a Cancel is an update of that Start, and may be repeated, *)
(* arrive late or overtake the completion.                                 *)
(*                                                                         *)
(* Unlike a workflow lease, an activity lease is retired after Core has    *)
(* accepted the completion.  Core is external: it hands out a token once,  *)
(* cancels only tokens it has handed out, and reports ShutDown when no     *)
(* token is outstanding.                                                   *)
(***************************************************************************)
EXTENDS Naturals, Sequences, FiniteSets

CONSTANTS
    Tokens,       \* activity task tokens
    NoToken,      \* the token of an error message
    MaxCancels,   \* bound: cancellations that Core publishes
    MaxFaults,    \* bound: faults of Core
    Faults,       \* the faults that may happen
    Ends          \* how the owner may end: "shutdown", "dispose", "timeout"

ASSUME NoTokenAssumption == NoToken \notin Tokens

VARIABLES
    core,         \* a token is new, owed a completion, or done
    cancels,      \* cancellations left
    faults,       \* faults left
    broken,       \* history: Core has broken its contract
    stopping,     \* shutdown_started
    calls,        \* completions sent to Core and not processed yet
    lane, task,   \* the poll lane and the task in its hands
    activities,   \* ledger: absent, queued or leased
    cancelled,    \* ledger: tokens whose cancellation was observed
    retired,      \* ledger: retired_activities
    lost,         \* ledger: lost_poll_lease
    ready,        \* the ready queue
    opc, cur,     \* the owner and the token of its current operation
    work,         \* tokens it took out of the ledger and has yet to complete
    claimed,      \* tokens completed by the current disposal pass
    pass,         \* disposal passes begun
    notified      \* history: tokens whose Cancel was handed to OCaml

coreVars   == <<core, cancels, faults, broken>>
ledgerVars == <<activities, cancelled, retired, lost>>
ownerVars  == <<opc, cur, work, claimed, pass, notified>>
vars == <<coreVars, stopping, calls, lane, task, ledgerVars, ready, ownerVars>>

Kinds   == {"Start", "Cancel"}
Message == [token : Tokens, kind : Kinds]
Error   == [token |-> NoToken, kind |-> "Error"]
Call    == [by : {"owner", "lane", "nobody"}, token : Tokens, rejected : BOOLEAN]
LanePcs  == {"poll", "admit", "enqueue", "invalid", "ended"}
OwnerPcs == {"idle", "complete", "reject", "retire", "retireWork", "retireQueue",
             "force", "forceWork", "queueWork", "finalize", "refused",
             "finalized", "dropped"}

Init ==
    /\ core = [t \in Tokens |-> "new"]
    /\ cancels = MaxCancels
    /\ faults = MaxFaults
    /\ broken = FALSE
    /\ stopping = FALSE
    /\ calls = {}
    /\ lane = "poll"
    /\ task = Error
    /\ activities = [t \in Tokens |-> "absent"]
    /\ cancelled = {}
    /\ retired = {}
    /\ lost = FALSE
    /\ ready = <<>>
    /\ opc = "idle"
    /\ cur = NoToken
    /\ work = {}
    /\ claimed = {}
    /\ pass = 0
    /\ notified = {}

-----------------------------------------------------------------------------
(* Completions *)

Calling(by) == \E c \in calls : c.by = by

Send(by, t) == calls' = calls \cup {[by |-> by, token |-> t, rejected |-> FALSE]}

CoreProcesses(c) ==
    /\ c \in calls
    /\ ~c.rejected
    /\ calls' = calls \ {c}
    /\ core' = [core EXCEPT ![c.token] = "done"]
    /\ UNCHANGED <<cancels, faults, broken, stopping, lane, task, ledgerVars, ready, ownerVars>>

CoreRejects(c) ==
    /\ "reject" \in Faults
    /\ faults > 0
    /\ c \in calls
    /\ opc = "complete"
    /\ c.by = "owner"
    /\ ~c.rejected
    /\ faults' = faults - 1
    /\ calls' = (calls \ {c}) \cup {[c EXCEPT !.rejected = TRUE]}
    /\ UNCHANGED <<core, cancels, broken, stopping, lane, task, ledgerVars, ready, ownerVars>>

-----------------------------------------------------------------------------
(* The ledger *)

\* ActivityState disappears with its entry.
Removed(ts) ==
    /\ activities' = [t \in Tokens |-> IF t \in ts THEN "absent" ELSE activities[t]]
    /\ cancelled' = cancelled \ ts

Leased      == {t \in Tokens : activities[t] = "leased"}
Outstanding == {t \in Tokens : activities[t] # "absent"}

-----------------------------------------------------------------------------
(* run_activity_lane *)

Polling == lane = "poll" /\ ~Calling("lane")

PollStart(t) ==
    /\ Polling
    /\ core[t] = "new"
    /\ core' = [core EXCEPT ![t] = "owed"]
    /\ task' = [token |-> t, kind |-> "Start"]
    /\ lane' = "admit"
    /\ UNCHANGED <<cancels, faults, broken, stopping, calls, ledgerVars, ready, ownerVars>>

\* A cancellation can reach the lane after the token has been completed.
PollCancel(t) ==
    /\ Polling
    /\ core[t] # "new"
    /\ cancels > 0
    /\ cancels' = cancels - 1
    /\ task' = [token |-> t, kind |-> "Cancel"]
    /\ lane' = "admit"
    /\ UNCHANGED <<core, faults, broken, stopping, calls, ledgerVars, ready, ownerVars>>

\* Core breaks its contract: a second Start of an outstanding token.
PollDuplicate(t) ==
    /\ "duplicate" \in Faults
    /\ faults > 0
    /\ Polling
    /\ core[t] = "owed"
    /\ faults' = faults - 1
    /\ broken' = TRUE
    /\ task' = [token |-> t, kind |-> "Start"]
    /\ lane' = "admit"
    /\ UNCHANGED <<core, cancels, stopping, calls, ledgerVars, ready, ownerVars>>

\* A task without a variant, or with an unusable token, is failed at once.
PollInvalid(t) ==
    /\ "invalid" \in Faults
    /\ faults > 0
    /\ Polling
    /\ core[t] = "new"
    /\ faults' = faults - 1
    /\ core' = [core EXCEPT ![t] = "owed"]
    /\ task' = [token |-> t, kind |-> "Start"]
    /\ Send("lane", t)
    /\ lane' = "invalid"
    /\ UNCHANGED <<cancels, broken, stopping, ledgerVars, ready, ownerVars>>

PollShutDown ==
    /\ Polling
    /\ stopping
    /\ \A t \in Tokens : core[t] # "owed"
    /\ lane' = "ended"
    /\ UNCHANGED <<coreVars, stopping, calls, task, ledgerVars, ready, ownerVars>>

PollError ==
    /\ "error" \in Faults
    /\ faults > 0
    /\ Polling
    /\ faults' = faults - 1
    /\ lane' = "ended"
    /\ ready' = IF opc = "dropped" THEN ready ELSE Append(ready, Error)
    /\ UNCHANGED <<core, cancels, broken, stopping, calls, task, ledgerVars, ownerVars>>

\* enqueue of a diagnostic: it fails, and ends the lane, once the receiver is gone.
PublishError ==
    IF opc = "dropped" THEN lane' = "ended" /\ UNCHANGED ready
                       ELSE lane' = "poll" /\ ready' = Append(ready, Error)

InvalidReturns ==
    /\ lane = "invalid"
    /\ ~Calling("lane")
    /\ PublishError
    /\ UNCHANGED <<coreVars, stopping, calls, task, ledgerVars, ownerVars>>

\* is_ignorable_activity_cancellation does not hold: the cancellation is the
\* first one of an entry.
FirstCancellation ==
    /\ task.token \notin retired
    /\ activities[task.token] # "absent"
    /\ task.token \notin cancelled

\* admit_polled_activity and the match on its result.
Admit ==
    /\ lane = "admit"
    /\ \/ /\ task.kind = "Cancel"
          /\ FirstCancellation
          /\ cancelled' = cancelled \cup {task.token}
          /\ lane' = "enqueue"
          /\ UNCHANGED <<activities, lost, ready>>
       \/ /\ task.kind = "Cancel"
          /\ ~FirstCancellation
          /\ lane' = "poll"
          /\ UNCHANGED <<activities, cancelled, lost, ready>>
       \/ /\ task.kind = "Start"
          /\ task.token \notin retired
          /\ activities[task.token] = "absent"
          /\ activities' = [activities EXCEPT ![task.token] = "queued"]
          /\ lane' = "enqueue"
          /\ UNCHANGED <<cancelled, lost, ready>>
       \/ /\ task.kind = "Start"
          /\ task.token \in retired \/ activities[task.token] # "absent"
          /\ lost' = TRUE
          /\ PublishError
          /\ UNCHANGED <<activities, cancelled>>
    /\ UNCHANGED <<coreVars, stopping, calls, task, retired, ownerVars>>

\* signal.enqueue; once the receiver is gone a Start is failed and abandoned.
Enqueue ==
    /\ lane = "enqueue"
    /\ \/ /\ opc # "dropped"
          /\ ready' = Append(ready, task)
          /\ lane' = "poll"
          /\ UNCHANGED <<activities, cancelled, calls>>
       \/ /\ opc = "dropped"
          /\ task.kind = "Start"
          /\ Removed({task.token} \ Leased)
          /\ Send("lane", task.token)
          /\ lane' = "ended"
          /\ UNCHANGED ready
       \/ /\ opc = "dropped"
          /\ task.kind = "Cancel"
          /\ lane' = "ended"
          /\ UNCHANGED <<activities, cancelled, calls, ready>>
    /\ UNCHANGED <<coreVars, stopping, task, retired, lost, ownerVars>>

Lane ==
    \/ \E t \in Tokens : PollStart(t) \/ PollCancel(t) \/ PollDuplicate(t) \/ PollInvalid(t)
    \/ PollShutDown
    \/ PollError
    \/ InvalidReturns
    \/ Admit
    \/ Enqueue

-----------------------------------------------------------------------------
(* The owner: delivery and completion *)

\* Readiness::take removes the head of the queue.
Rest == Tail(ready)

\* Mutant: a cancellation needs no entry.
NeverStale(t) == FALSE

\* is_stale_activity_cancellation: the Start was completed in the meantime.
Stale(t) == activities[t] = "absent"

\* try_take_activity: LedgerAgrees shows that a Start is never refused.
TryTake ==
    /\ opc = "idle"
    /\ ready # <<>>
    /\ ready' = Rest
    /\ LET m == Head(ready) IN
       /\ activities' = IF m.kind = "Start" THEN [activities EXCEPT ![m.token] = "leased"]
                                            ELSE activities
       /\ notified' = IF m.kind = "Cancel" /\ ~Stale(m.token) THEN notified \cup {m.token}
                                                              ELSE notified
    /\ UNCHANGED <<coreVars, stopping, calls, lane, task, cancelled, retired, lost,
                   opc, cur, work, claimed, pass>>

\* complete_activity and reject_activity_delivery, up to the Core await.
Complete(t, op) ==
    /\ opc = "idle"
    /\ t \in Leased
    /\ Send("owner", t)
    /\ opc' = op
    /\ cur' = t
    /\ UNCHANGED <<coreVars, stopping, lane, task, ledgerVars, ready, work, claimed, pass, notified>>

\* Mutants: the lease survives its completion, or a rejected completion.
RetireNothing     == UNCHANGED <<activities, cancelled>>
\* The ledger's complete_activity, after Core's answer.
RetireLease      == Removed({cur})
KeepRejected     == UNCHANGED <<activities, cancelled>>

CompleteReturns ==
    /\ opc \in {"complete", "reject"}
    /\ \/ /\ ~Calling("owner")
          /\ RetireLease
          /\ UNCHANGED calls
       \/ \E c \in calls :
             /\ c.rejected
             /\ KeepRejected
             /\ calls' = calls \ {c}
    /\ opc' = "idle"
    /\ cur' = NoToken
    /\ UNCHANGED <<coreVars, stopping, lane, task, retired, lost, ready, work, claimed, pass, notified>>

InitiateShutdown ==
    /\ opc = "idle"
    /\ ~stopping
    /\ stopping' = TRUE
    /\ UNCHANGED <<coreVars, calls, lane, task, ledgerVars, ready, ownerVars>>

-----------------------------------------------------------------------------
(* The owner: shutdown_worker and drain_and_join *)

BeginShutdown ==
    /\ "shutdown" \in Ends
    /\ opc = "idle"
    /\ stopping' = TRUE
    /\ opc' = "retire"
    /\ UNCHANGED <<coreVars, calls, lane, task, ledgerVars, ready, cur, work, claimed, pass, notified>>

TakenForShutdown == Leased

RetireVisible ==
    /\ opc = "retire"
    /\ work' = TakenForShutdown
    /\ Removed(TakenForShutdown)
    /\ opc' = "retireWork"
    /\ UNCHANGED <<coreVars, stopping, calls, lane, task, retired, lost, ready, cur, claimed, pass, notified>>

WorkOff(next) ==
    /\ ~Calling("owner")
    /\ \/ \E t \in work :
             /\ work' = work \ {t}
             /\ Send("owner", t)
             /\ UNCHANGED opc
       \/ /\ work = {}
          /\ opc' = next
          /\ UNCHANGED <<work, calls>>

RetireWork ==
    /\ opc = "retireWork"
    /\ WorkOff("retireQueue")
    /\ UNCHANGED <<coreVars, stopping, lane, task, ledgerVars, ready, cur, claimed, pass, notified>>

\* Mutant: a queued cancellation is failed like a Start.
FailsEverything(m) == m # Error

\* Only a Start owes a completion; errors and cancellations are dropped.
OwesCompletion(m) == m.kind = "Start"

\* Mutant: the lane is joined before the queue is drained.
NextOnceJoined == ready # <<>> /\ lane = "ended"

\* The drain takes what is queued while the lane still runs.
NextQueued == ready # <<>>

\* retire_queued_activity.
RetireQueued ==
    /\ opc = "retireQueue"
    /\ ~Calling("owner")
    /\ NextQueued
    /\ ready' = Rest
    /\ LET m == Head(ready) IN
       IF OwesCompletion(m) THEN Removed({m.token}) /\ Send("owner", m.token)
                            ELSE UNCHANGED <<activities, cancelled, calls>>
    /\ UNCHANGED <<coreVars, stopping, lane, task, retired, lost, ownerVars>>

AfterDrain == IF pass = 0 THEN "finalize" ELSE "force"

JoinLane ==
    /\ opc = "retireQueue"
    /\ ~Calling("owner")
    /\ ready = <<>>
    /\ lane = "ended"
    /\ retired' = {}
    /\ opc' = AfterDrain
    /\ UNCHANGED <<coreVars, stopping, calls, lane, task, activities, cancelled, lost, ready,
                   cur, work, claimed, pass, notified>>

DrainTimeout ==
    /\ "timeout" \in Ends
    /\ opc \in {"retireWork", "retireQueue"}
    /\ lost' = TRUE
    /\ work' = {}
    /\ calls' = {[c EXCEPT !.by = IF c.by = "owner" THEN "nobody" ELSE c.by] : c \in calls}
    /\ opc' = IF pass = 0 THEN "refused" ELSE "force"
    /\ UNCHANGED <<coreVars, stopping, lane, task, activities, cancelled, retired, ready,
                   cur, claimed, pass, notified>>

-----------------------------------------------------------------------------
(* The owner: force_complete_outstanding_for_dispose and finalize *)

BeginDispose ==
    /\ "dispose" \in Ends
    /\ opc \in {"idle", "refused"}
    /\ stopping' = TRUE
    /\ opc' = "force"
    /\ UNCHANGED <<coreVars, calls, lane, task, ledgerVars, ready, cur, work, claimed, pass, notified>>

ForceSnapshot ==
    /\ opc = "force"
    /\ work' = Outstanding
    /\ claimed' = Outstanding
    /\ Removed(Outstanding)
    /\ retired' = retired \cup Outstanding
    /\ pass' = pass + 1
    /\ opc' = "forceWork"
    /\ UNCHANGED <<coreVars, stopping, calls, lane, task, lost, ready, cur, notified>>

ForceWork ==
    /\ opc = "forceWork"
    /\ WorkOff("queueWork")
    /\ UNCHANGED <<coreVars, stopping, lane, task, ledgerVars, ready, cur, claimed, pass, notified>>

\* The drain lies between the two passes.
AfterPass == IF pass = 1 THEN "retire" ELSE "finalize"

\* The queue is drained message by message: claim_dispose_activity_identity.
QueueWork ==
    /\ opc = "queueWork"
    /\ ~Calling("owner")
    /\ \/ /\ ready # <<>>
          /\ ready' = Rest
          /\ LET m == Head(ready) IN
             IF OwesCompletion(m) /\ m.token \notin claimed
             THEN /\ claimed' = claimed \cup {m.token}
                  /\ Removed({m.token})
                  /\ retired' = retired \cup {m.token}
                  /\ Send("owner", m.token)
             ELSE UNCHANGED <<activities, cancelled, retired, claimed, calls>>
          /\ UNCHANGED opc
       \/ /\ ready = <<>>
          /\ opc' = AfterPass
          /\ UNCHANGED <<ready, activities, cancelled, retired, claimed, calls>>
    /\ UNCHANGED <<coreVars, stopping, lane, task, lost, cur, work, pass, notified>>

can_finalize == Outstanding = {} /\ ~lost /\ lane = "ended"

Finalize ==
    /\ opc = "finalize"
    /\ opc' = CASE can_finalize -> "finalized"
                [] ~can_finalize /\ pass = 0 -> "refused"
                [] OTHER -> "dropped"
    /\ UNCHANGED <<coreVars, stopping, calls, lane, task, ledgerVars, ready, cur, work, claimed, pass, notified>>

Drain == RetireVisible \/ RetireWork \/ RetireQueued \/ JoinLane
Force == ForceSnapshot \/ ForceWork \/ QueueWork

Owner ==
    \/ TryTake
    \/ \E t \in Tokens, op \in {"complete", "reject"} : Complete(t, op)
    \/ CompleteReturns
    \/ InitiateShutdown
    \/ BeginShutdown
    \/ BeginDispose
    \/ Drain
    \/ DrainTimeout
    \/ Force
    \/ Finalize

Next == Lane \/ Owner \/ \E c \in calls : CoreProcesses(c) \/ CoreRejects(c)

Spec == Init /\ [][Next]_vars

Fairness ==
    /\ WF_vars(Lane)
    /\ WF_vars(\E c \in calls : CoreProcesses(c))
    /\ WF_vars(Drain)
    /\ WF_vars(Force)
    /\ WF_vars(Finalize)

FairSpec == Spec /\ Fairness

-----------------------------------------------------------------------------
(* Properties *)

\* Every variable keeps its type: a dispose makes two passes over the ledger,
\* and neither errors nor cancellations become work.
TypeOK ==
    /\ core \in [Tokens -> {"new", "owed", "done"}]
    /\ cancels \in 0..MaxCancels
    /\ faults \in 0..MaxFaults
    /\ broken \in BOOLEAN
    /\ stopping \in BOOLEAN
    /\ calls \subseteq Call
    /\ lane \in LanePcs
    /\ task \in Message \cup {Error}
    /\ activities \in [Tokens -> {"absent", "queued", "leased"}]
    /\ cancelled \subseteq Tokens
    /\ retired \subseteq Tokens
    /\ lost \in BOOLEAN
    /\ ready \in Seq(Message \cup {Error})
    /\ opc \in OwnerPcs
    /\ cur \in Tokens \cup {NoToken}
    /\ work \subseteq Tokens
    /\ claimed \subseteq Tokens
    /\ pass \in 0..2
    /\ notified \subseteq Tokens

\* For a worker that is not being disposed of and a Core that keeps its
\* contract, a completion on its way to Core pays a debt that Core still
\* counts, and no two pay the same one: a cancellation, a drain or a retry
\* never fabricates a second completion for a token.
OrderlyCompletions ==
    pass = 0 /\ ~broken =>
        \A c \in calls :
            /\ core[c.token] = "owed"
            /\ \A d \in calls : d.token = c.token => d = c

Tracked(t) ==
    \/ t \in Outstanding
    \/ lane = "admit" /\ task.token = t
    \/ t \in work
    \/ \E c \in calls : c.token = t

\* The ledger agrees with Core and with the queue.  An entry stands for a token
\* that Core counts as outstanding, except for the one whose completion Core
\* has just accepted; and nothing that Core counts is forgotten, unless the loss
\* is recorded.  While tasks are being delivered, every queued Start has an
\* unleased entry, so that its handoff to OCaml is never refused.  Core's
\* finalizer consumes the worker only when nothing is outstanding in Core, in
\* the queue or in a call.
LedgerAgrees ==
    /\ TypeOK
    /\ ~broken =>
        /\ \A t \in Outstanding : core[t] = "owed" \/ (cur = t /\ ~Calling("owner"))
        /\ opc \in {"idle", "complete", "reject"} =>
               \A i \in DOMAIN ready :
                   ready[i].kind = "Start" => activities[ready[i].token] = "queued"
    /\ lost \/ \A t \in Tokens : core[t] = "owed" => Tracked(t)
    /\ opc = "finalized" =>
           ready = <<>> /\ calls = {} /\ \A t \in Tokens : core[t] # "owed"

\* A cancellation is handed to OCaml only for a Start that OCaml holds, after
\* the handoff of the Start and before its completion, and at most once.
CancelFindsItsStart ==
    [][~broken =>
        /\ notified' \ notified \subseteq Leased
        /\ (TryTake /\ Head(ready).kind = "Cancel") => Head(ready).token \notin notified]_vars

\* A shutdown that is not cut short drains the lane and joins it, although Core
\* reports ShutDown only once every Start is completed; so does a dispose.
\* (Once the bridge has recorded a loss, Core may hold the drain up until its
\* time bound elapses.)
EndingCompletes ==
    /\ opc = "retire" /\ pass = 0 ~> opc \in {"finalized", "refused"} \/ lost
    /\ opc = "force" ~> opc \in {"finalized", "dropped"} \/ lost
====
