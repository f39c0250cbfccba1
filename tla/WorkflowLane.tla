---------------------------- MODULE WorkflowLane ----------------------------
(***************************************************************************)
(* The workflow half of rust/core-bridge/src/worker_bridge.rs: the poll    *)
(* lane (a Tokio task), the task ledger, the ready queue, and the thread   *)
(* that owns PollLanes: it delivers activations to OCaml, sends their      *)
(* completions, drains the worker at shutdown and forces it at dispose.    *)
(* A critical section of the ledger mutex is one step; a completion is a   *)
(* call that Core processes later, while the lane goes on polling.         *)
(*                                                                         *)
(* Core is external.  It keeps at most one activation outstanding per run, *)
(* schedules a cache eviction after a failed task and possibly after a     *)
(* successful one, takes only an empty completion for an eviction, and     *)
(* reports ShutDown once nothing is outstanding or due.                    *)
(***************************************************************************)
EXTENDS Naturals, Sequences, FiniteSets

CONSTANTS
    Runs,            \* workflow runs
    NoRun,           \* the run of an error message in the ready queue
    MaxActivations,  \* bound: ordinary activations that Core hands out
    MaxFaults,       \* bound: rejected completions, duplicates, poll errors
    Faults,          \* the faults of Core that may happen
    Ends             \* how the owner may end: "shutdown", "dispose", "timeout"

ASSUME NoRunAssumption == NoRun \notin Runs

VARIABLES
    core,       \* what Core is owed for a run: nothing, a task, an eviction
    due,        \* runs that Core wants to evict
    budget,     \* ordinary activations left
    faults,     \* faults left
    broken,     \* history: Core has broken its contract
    stopping,   \* shutdown_started: Core was told to shut down
    calls,      \* completions sent to Core and not processed yet
    lane,       \* position of the poll lane
    task,       \* the activation in the lane's hands
    workflows,  \* ledger: absent, queued (false) or leased (true)
    evict,      \* ledger: eviction_activations
    retired,    \* ledger: retired_workflows
    lost,       \* ledger: lost_poll_lease
    ready,      \* the ready queue
    opc,        \* position of the owner
    work,       \* activations the owner took out and has yet to complete
    claimed,    \* identities completed by the current disposal pass
    wasEv,      \* was_eviction of complete_workflow_with
    pass        \* force_complete_outstanding_for_dispose passes begun

coreVars   == <<core, due, budget, faults, broken>>
ledgerVars == <<workflows, evict, retired, lost>>
ownerVars  == <<opc, work, claimed, wasEv, pass>>
vars == <<coreVars, stopping, calls, lane, task, ledgerVars, ready, ownerVars>>

Activation == [run : Runs, ev : BOOLEAN]
Error      == [run |-> NoRun, ev |-> FALSE]
NoTask     == Error
Shapes     == {"success", "fail", "empty"}
Call       == [by : {"owner", "lane", "nobody"}, run : Runs, shape : Shapes, rejected : BOOLEAN]

LanePcs  == {"poll", "admit", "enqueue", "ended"}
OwnerPcs == {"idle", "complete", "reject", "retire", "retireWork", "retireQueue",
             "force", "forceWork", "queueWork", "finalize", "refused",
             "finalized", "dropped"}

Init ==
    /\ core = [r \in Runs |-> "none"]
    /\ due = {}
    /\ budget = MaxActivations
    /\ faults = MaxFaults
    /\ broken = FALSE
    /\ stopping = FALSE
    /\ calls = {}
    /\ lane = "poll"
    /\ task = NoTask
    /\ workflows = [r \in Runs |-> "absent"]
    /\ evict = {}
    /\ retired = {}
    /\ lost = FALSE
    /\ ready = <<>>
    /\ opc = "idle"
    /\ work = {}
    /\ claimed = {}
    /\ wasEv = FALSE
    /\ pass = 0

-----------------------------------------------------------------------------
(* Completions: what the bridge sends and what Core does with it *)

\* The completion that retires an activation nobody will run: an eviction is
\* acknowledged, everything else is failed.
Retirement(ev) == IF ev THEN "empty" ELSE "fail"

Calling(by) == \E c \in calls : c.by = by

Send(by, r, shape) ==
    calls' = calls \cup {[by |-> by, run |-> r, shape |-> shape, rejected |-> FALSE]}

\* Core processes a completion.  One for a run that owes nothing is ignored,
\* and an eviction stays outstanding until it is acknowledged as such.
CoreProcesses(c) ==
    /\ c \in calls
    /\ ~c.rejected
    /\ calls' = calls \ {c}
    /\ \/ /\ core[c.run] = "task"
          /\ core' = [core EXCEPT ![c.run] = "none"]
          /\ due' \in {due, due \cup {c.run}}
          /\ c.shape = "fail" => c.run \in due'
       \/ /\ core[c.run] = "eviction"
          /\ c.shape = "empty"
          /\ core' = [core EXCEPT ![c.run] = "none"]
          /\ due' = due \ {c.run}
       \/ /\ core[c.run] = "none" \/ (core[c.run] = "eviction" /\ c.shape # "empty")
          /\ UNCHANGED <<core, due>>
    /\ UNCHANGED <<budget, faults, broken, stopping, lane, task, ledgerVars, ready, ownerVars>>

\* Core refuses a completion that the language side built.
CoreRejects(c) ==
    /\ "reject" \in Faults
    /\ faults > 0
    /\ c \in calls
    /\ opc = "complete"
    /\ c.by = "owner"
    /\ ~c.rejected
    /\ faults' = faults - 1
    /\ calls' = (calls \ {c}) \cup {[c EXCEPT !.rejected = TRUE]}
    /\ UNCHANGED <<core, due, budget, broken, stopping, lane, task, ledgerVars, ready, ownerVars>>

-----------------------------------------------------------------------------
(* The ledger *)

Admitted(r, ev) ==
    /\ workflows' = [workflows EXCEPT ![r] = "queued"]
    /\ evict' = IF ev THEN evict \cup {r} ELSE evict \ {r}

\* Entries with their eviction bit.
Entries(rs) == {[run |-> r, ev |-> r \in evict] : r \in rs}

Removed(rs) ==
    /\ workflows' = [r \in Runs |-> IF r \in rs THEN "absent" ELSE workflows[r]]
    /\ evict' = evict \ rs

Leased      == {r \in Runs : workflows[r] = "leased"}
Outstanding == {r \in Runs : workflows[r] # "absent"}

-----------------------------------------------------------------------------
(* run_workflow_lane *)

\* The lane awaits the next poll, and no completion of its own.
Polling == lane = "poll" /\ ~Calling("lane")

Deliver(r, ev) ==
    /\ task' = [run |-> r, ev |-> ev]
    /\ lane' = "admit"

\* poll_workflow_activation returns an activation of a run that owes nothing.
PollActivation(r) ==
    /\ Polling
    /\ core[r] = "none"
    /\ \/ /\ r \in due
          /\ Deliver(r, TRUE)
          /\ core' = [core EXCEPT ![r] = "eviction"]
          /\ UNCHANGED <<budget, broken>>
       \/ /\ r \notin due
          /\ budget > 0
          /\ r \in retired => "late" \in Faults
          /\ Deliver(r, FALSE)
          /\ core' = [core EXCEPT ![r] = "task"]
          /\ budget' = budget - 1
          /\ broken' = (broken \/ r \in retired)
    /\ UNCHANGED <<due, faults, stopping, calls, ledgerVars, ready, ownerVars>>

\* Core breaks its contract: a second activation of a run that is outstanding.
PollDuplicate(r, ev) ==
    /\ "duplicate" \in Faults
    /\ faults > 0
    /\ Polling
    /\ core[r] # "none"
    /\ faults' = faults - 1
    /\ broken' = TRUE
    /\ Deliver(r, ev)
    /\ UNCHANGED <<core, due, budget, stopping, calls, ledgerVars, ready, ownerVars>>

PollShutDown ==
    /\ Polling
    /\ stopping
    /\ due = {}
    /\ \A r \in Runs : core[r] = "none"
    /\ lane' = "ended"
    /\ UNCHANGED <<coreVars, stopping, calls, task, ledgerVars, ready, ownerVars>>

\* Any other poll error is published and ends the lane.
PollError ==
    /\ "error" \in Faults
    /\ faults > 0
    /\ Polling
    /\ faults' = faults - 1
    /\ lane' = "ended"
    /\ ready' = IF opc = "dropped" THEN ready ELSE Append(ready, Error)
    /\ UNCHANGED <<core, due, budget, broken, stopping, calls, task, ledgerVars, ownerVars>>

\* enqueue of a diagnostic: it fails, and ends the lane, once the receiver is gone.
Publish(m) ==
    IF opc = "dropped" THEN lane' = "ended" /\ UNCHANGED ready
                       ELSE lane' = "poll" /\ ready' = Append(ready, m)

\* A delivery that no completion can safely name: dropped, remembered for good.
DropDelivery ==
    /\ lost' = TRUE
    /\ Publish(Error)
    /\ UNCHANGED calls

\* The eviction that answers a disposal completion is acknowledged at once.
AcknowledgeRetired ==
    /\ Send("lane", task.run, "empty")
    /\ lane' = "poll"
    /\ UNCHANGED <<lost, ready>>

\* admit_polled_workflow_activation and the match on its result.
Admit ==
    /\ lane = "admit"
    /\ \/ /\ task.run \in retired
          /\ task.ev
          /\ AcknowledgeRetired
          /\ UNCHANGED <<workflows, evict>>
       \/ /\ task.run \in retired
          /\ ~task.ev
          /\ DropDelivery
          /\ UNCHANGED <<workflows, evict>>
       \/ /\ task.run \notin retired
          /\ workflows[task.run] = "absent"
          /\ Admitted(task.run, task.ev)
          /\ lane' = "enqueue"
          /\ UNCHANGED <<lost, ready, calls>>
       \/ /\ task.run \notin retired
          /\ workflows[task.run] # "absent"
          /\ DropDelivery
          /\ UNCHANGED <<workflows, evict>>
    /\ UNCHANGED <<coreVars, stopping, task, retired, ownerVars>>

\* signal.enqueue of the admitted activation; once the receiver is gone the
\* admission is abandoned, the activation failed, and the lane ends.
Enqueue ==
    /\ lane = "enqueue"
    /\ \/ /\ opc # "dropped"
          /\ ready' = Append(ready, [run |-> task.run, ev |-> task.ev])
          /\ lane' = "poll"
          /\ UNCHANGED <<workflows, evict, calls>>
       \/ /\ opc = "dropped"
          /\ Removed({task.run} \ Leased)
          /\ Send("lane", task.run, "fail")
          /\ lane' = "ended"
          /\ UNCHANGED ready
    /\ UNCHANGED <<coreVars, stopping, task, retired, lost, ownerVars>>

Lane ==
    \/ \E r \in Runs : PollActivation(r) \/ \E ev \in BOOLEAN : PollDuplicate(r, ev)
    \/ PollShutDown
    \/ PollError
    \/ Admit
    \/ Enqueue

-----------------------------------------------------------------------------
(* The owner: delivery and completion *)

\* Readiness::take removes the head of the queue.
Rest == Tail(ready)

\* try_take_workflow: LedgerAgrees shows that the lease is never refused.
TryTake ==
    /\ opc = "idle"
    /\ ready # <<>>
    /\ ready' = Rest
    /\ LET m == Head(ready) IN
       IF m = Error THEN UNCHANGED <<workflows, evict>>
       ELSE /\ workflows' = [workflows EXCEPT ![m.run] = "leased"]
            /\ evict' = IF m.ev THEN evict \cup {m.run} ELSE evict \ {m.run}
    /\ UNCHANGED <<coreVars, stopping, calls, lane, task, retired, lost, ownerVars>>

\* Mutants: the lease is retired only once Core has answered; a rejected
\* completion is not restored.
RetireLater(r)    == UNCHANGED <<workflows, evict>>
RestoreNothing(r) == UNCHANGED <<workflows, evict>>

\* The ledger's complete_workflow.
RetireLease(r) == Removed({r})

\* complete_workflow_with, up to the Core await.  OCaml acknowledges an
\* eviction with an empty completion.
CompleteWorkflow(r) ==
    /\ opc = "idle"
    /\ r \in Leased
    /\ RetireLease(r)
    /\ wasEv' = (r \in evict)
    /\ \E shape \in {"success", "fail"} : Send("owner", r, IF r \in evict THEN "empty" ELSE shape)
    /\ opc' = "complete"
    /\ UNCHANGED <<coreVars, stopping, lane, task, retired, lost, ready, work, claimed, pass>>

\* restore_rejected_workflow_completion and restore_eviction_lease.
Restore(r) ==
    IF workflows[r] = "absent"
    THEN /\ workflows' = [workflows EXCEPT ![r] = "leased"]
         /\ evict' = IF wasEv THEN evict \cup {r} ELSE evict
    ELSE UNCHANGED <<workflows, evict>>

\* complete_workflow_with, once Core has accepted or rejected the completion.
CompleteReturns ==
    /\ opc = "complete"
    /\ \/ /\ ~Calling("owner")
          /\ UNCHANGED <<workflows, evict, calls>>
       \/ \E c \in calls :
             /\ c.rejected
             /\ Restore(c.run)
             /\ calls' = calls \ {c}
    /\ opc' = "idle"
    /\ UNCHANGED <<coreVars, stopping, lane, task, retired, lost, ready, work, claimed, wasEv, pass>>

\* reject_workflow_delivery_with: the activation cannot be represented to OCaml.
RejectDelivery(r) ==
    /\ opc = "idle"
    /\ r \in Leased
    /\ RetireLease(r)
    /\ Send("owner", r, Retirement(r \in evict))
    /\ opc' = "reject"
    /\ UNCHANGED <<coreVars, stopping, lane, task, retired, lost, ready, work, claimed, wasEv, pass>>

RejectReturns ==
    /\ opc = "reject"
    /\ ~Calling("owner")
    /\ opc' = "idle"
    /\ UNCHANGED <<coreVars, stopping, calls, lane, task, ledgerVars, ready, work, claimed, wasEv, pass>>

\* initiate_shutdown, sent when the run loop stops: delivery goes on.
InitiateShutdown ==
    /\ opc = "idle"
    /\ ~stopping
    /\ stopping' = TRUE
    /\ UNCHANGED <<coreVars, calls, lane, task, ledgerVars, ready, ownerVars>>

-----------------------------------------------------------------------------
(* The owner: shutdown_worker and drain_and_join *)

BeginShutdown ==
    /\ "shutdown" \in Ends
    /\ opc = "idle"
    /\ stopping' = TRUE
    /\ opc' = "retire"
    /\ UNCHANGED <<coreVars, calls, lane, task, ledgerVars, ready, work, claimed, wasEv, pass>>

\* Mutant: the drain also takes what is still queued.
TakesEverything == Outstanding

\* take_leased_for_shutdown leaves the entries that have a queue message.
TakenForShutdown == Leased

RetireVisible ==
    /\ opc = "retire"
    /\ work' = Entries(TakenForShutdown)
    /\ Removed(TakenForShutdown)
    /\ opc' = "retireWork"
    /\ UNCHANGED <<coreVars, stopping, calls, lane, task, retired, lost, ready, claimed, wasEv, pass>>

\* Completes one activation of work, then the next.
WorkOff(next) ==
    /\ ~Calling("owner")
    /\ \/ \E a \in work :
             /\ work' = work \ {a}
             /\ Send("owner", a.run, Retirement(a.ev))
             /\ UNCHANGED opc
       \/ /\ work = {}
          /\ opc' = next
          /\ UNCHANGED <<work, calls>>

RetireWork ==
    /\ opc = "retireWork"
    /\ WorkOff("retireQueue")
    /\ UNCHANGED <<coreVars, stopping, lane, task, ledgerVars, ready, claimed, wasEv, pass>>

\* Mutant: the lane is joined before the queue is drained.
NextOnceJoined == ready # <<>> /\ lane = "ended"

\* The drain takes what is queued while the lane still runs.
NextQueued == ready # <<>>

\* retire_queued_workflow: a message is removed from the ledger, then completed.
RetireQueued ==
    /\ opc = "retireQueue"
    /\ ~Calling("owner")
    /\ NextQueued
    /\ ready' = Rest
    /\ LET m == Head(ready) IN
       IF m = Error THEN UNCHANGED <<workflows, evict, calls>>
       ELSE Removed({m.run}) /\ Send("owner", m.run, Retirement(m.ev))
    /\ UNCHANGED <<coreVars, stopping, lane, task, retired, lost, ownerVars>>

AfterDrain == IF pass = 0 THEN "finalize" ELSE "force"

\* The lane has been joined and a last look found nothing visible.
JoinLane ==
    /\ opc = "retireQueue"
    /\ ~Calling("owner")
    /\ ready = <<>>
    /\ lane = "ended"
    /\ retired' = {}
    /\ opc' = AfterDrain
    /\ UNCHANGED <<coreVars, stopping, calls, lane, task, workflows, evict, lost, ready, work, claimed, wasEv, pass>>

\* The bound of drain_and_join_for_shutdown elapses: the drain is dropped at
\* its await, a completion it sent may still be processed.
DrainTimeout ==
    /\ "timeout" \in Ends
    /\ opc \in {"retireWork", "retireQueue"}
    /\ lost' = TRUE
    /\ work' = {}
    /\ calls' = {[c EXCEPT !.by = IF c.by = "owner" THEN "nobody" ELSE c.by] : c \in calls}
    /\ opc' = IF pass = 0 THEN "refused" ELSE "force"
    /\ UNCHANGED <<coreVars, stopping, lane, task, workflows, evict, retired, ready, claimed, wasEv, pass>>

-----------------------------------------------------------------------------
(* The owner: force_complete_outstanding_for_dispose and finalize *)

\* drop_runtime_graph, of a live worker or of one whose shutdown failed.
BeginDispose ==
    /\ "dispose" \in Ends
    /\ opc \in {"idle", "refused"}
    /\ stopping' = TRUE
    /\ opc' = "force"
    /\ UNCHANGED <<coreVars, calls, lane, task, ledgerVars, ready, work, claimed, wasEv, pass>>

\* take_all_outstanding.
ForceSnapshot ==
    /\ opc = "force"
    /\ work' = Entries(Outstanding)
    /\ claimed' = Outstanding
    /\ Removed(Outstanding)
    /\ retired' = retired \cup Outstanding
    /\ pass' = pass + 1
    /\ opc' = "forceWork"
    /\ UNCHANGED <<coreVars, stopping, calls, lane, task, lost, ready, wasEv>>

\* Once the snapshot is completed, the whole ready queue is taken.
ForceWork ==
    /\ opc = "forceWork"
    /\ \/ /\ work # {}
          /\ WorkOff("forceWork")
          /\ UNCHANGED ready
       \/ /\ work = {}
          /\ ~Calling("owner")
          /\ work' = {ready[i] : i \in DOMAIN ready} \ {Error}
          /\ ready' = <<>>
          /\ opc' = "queueWork"
          /\ UNCHANGED calls
    /\ UNCHANGED <<coreVars, stopping, lane, task, ledgerVars, claimed, wasEv, pass>>

\* The drain lies between the two passes.
AfterPass == IF pass = 1 THEN "retire" ELSE "finalize"

\* claim_dispose_workflow_identity, then the completion.
QueueWork ==
    /\ opc = "queueWork"
    /\ ~Calling("owner")
    /\ \/ \E a \in work :
             /\ work' = work \ {a}
             /\ IF a.run \in claimed
                THEN UNCHANGED <<workflows, evict, retired, claimed, calls>>
                ELSE /\ claimed' = claimed \cup {a.run}
                     /\ Removed({a.run})
                     /\ retired' = retired \cup {a.run}
                     /\ Send("owner", a.run, Retirement(a.ev))
             /\ UNCHANGED opc
       \/ /\ work = {}
          /\ opc' = AfterPass
          /\ UNCHANGED <<work, workflows, evict, retired, claimed, calls>>
    /\ UNCHANGED <<coreVars, stopping, lane, task, lost, ready, wasEv, pass>>

\* finalize consumes the worker only without debt, loss or another holder.
can_finalize == Outstanding = {} /\ ~lost /\ lane = "ended"

Finalize ==
    /\ opc = "finalize"
    /\ opc' = CASE can_finalize -> "finalized"
                [] ~can_finalize /\ pass = 0 -> "refused"
                [] OTHER -> "dropped"
    /\ UNCHANGED <<coreVars, stopping, calls, lane, task, ledgerVars, ready, work, claimed, wasEv, pass>>

Drain == RetireVisible \/ RetireWork \/ RetireQueued \/ JoinLane
Force == ForceSnapshot \/ ForceWork \/ QueueWork

Owner ==
    \/ TryTake
    \/ \E r \in Runs : CompleteWorkflow(r) \/ RejectDelivery(r)
    \/ CompleteReturns
    \/ RejectReturns
    \/ InitiateShutdown
    \/ BeginShutdown
    \/ BeginDispose
    \/ Drain
    \/ DrainTimeout
    \/ Force
    \/ Finalize

Next == Lane \/ Owner \/ \E c \in calls : CoreProcesses(c) \/ CoreRejects(c)

Spec == Init /\ [][Next]_vars

\* Core, the lane and an owner that is ending keep going.
Fairness ==
    /\ WF_vars(Lane)
    /\ WF_vars(\E c \in calls : CoreProcesses(c))
    /\ WF_vars(Drain)
    /\ WF_vars(Force)
    /\ WF_vars(Finalize)

FairSpec == Spec /\ Fairness

-----------------------------------------------------------------------------
(* Properties *)

\* Every variable keeps its type: a dispose makes two passes over the ledger,
\* and an error message of the queue never becomes work.
TypeOK ==
    /\ core \in [Runs -> {"none", "task", "eviction"}]
    /\ due \subseteq Runs
    /\ budget \in 0..MaxActivations
    /\ faults \in 0..MaxFaults
    /\ broken \in BOOLEAN
    /\ stopping \in BOOLEAN
    /\ calls \subseteq Call
    /\ lane \in LanePcs
    /\ task \in Activation \cup {NoTask}
    /\ workflows \in [Runs -> {"absent", "queued", "leased"}]
    /\ evict \subseteq Runs
    /\ retired \subseteq Runs
    /\ lost \in BOOLEAN
    /\ ready \in Seq(Activation \cup {Error})
    /\ opc \in OwnerPcs
    /\ work \subseteq Activation
    /\ claimed \subseteq Runs
    /\ wasEv \in BOOLEAN
    /\ pass \in 0..2

Owed(ev) == IF ev THEN "eviction" ELSE "task"

\* Every completion on its way to Core pays a debt that Core still counts,
\* in the shape that Core accepts for it, and no two pay the same debt:
\* owner, lane and drain never complete an activation twice.
CompletionsAreOwed ==
    \A c \in calls :
        /\ core[c.run] = Owed(c.shape = "empty")
        /\ \A d \in calls : d.run = c.run => d = c

\* The same for a worker that is not being disposed of and a Core that keeps
\* its contract: owner, lane and drain never complete an activation twice.
OrderlyCompletions == pass = 0 /\ ~broken => CompletionsAreOwed

\* The ledger agrees with Core and with the queue.  An entry stands for an
\* activation that Core counts as outstanding, and its eviction bit tells which
\* completion Core will accept.  A delivery that Core makes within its contract
\* is never taken for a duplicate: the lease of the run's previous activation
\* has been retired before Core could answer it with an eviction.  While
\* activations are being delivered, every queued one has an unleased entry of
\* its own, so that the handoff to OCaml is never refused.
LedgerAgrees ==
    ~broken =>
        /\ \A r \in Outstanding : core[r] = Owed(r \in evict)
        /\ lane = "admit" => workflows[task.run] = "absent"
        /\ opc \in {"idle", "complete", "reject"} =>
               \A i \in DOMAIN ready : ready[i] # Error =>
                   /\ workflows[ready[i].run] = "queued"
                   /\ \A j \in DOMAIN ready : ready[j].run = ready[i].run => j = i

Tracked(r) ==
    \/ r \in Outstanding
    \/ lane = "admit" /\ task.run = r
    \/ \E a \in work : a.run = r
    \/ \E c \in calls : c.run = r

\* Nothing that Core counts as outstanding is forgotten by the bridge, unless
\* it has recorded the loss: Core would never report ShutDown.  And Core's
\* finalizer consumes the worker only when nothing is outstanding anywhere: not
\* in Core, not in the queue, not in a call.
DebtTracked ==
    /\ lost \/ \A r \in Runs : core[r] # "none" => Tracked(r)
    /\ opc = "finalized" =>
        /\ \A r \in Runs : core[r] = "none"
        /\ ready = <<>>
        /\ calls = {}

\* A shutdown that is not cut short drains the worker and joins the lane,
\* although Core reports ShutDown only after the drain has completed every
\* task and acknowledged the evictions that this causes.  So does a dispose,
\* which ends with the worker finalized or dropped.  (Once the bridge has
\* recorded a loss, Core may hold the drain up until its time bound elapses.)
EndingCompletes ==
    /\ opc = "retire" /\ pass = 0 ~> opc \in {"finalized", "refused"} \/ lost
    /\ opc = "force" ~> opc \in {"finalized", "dropped"} \/ lost
====
