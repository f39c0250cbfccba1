------------------------------ MODULE Mailbox ------------------------------
(***************************************************************************)
(* The bounded mailbox processor of lib/mailbox_processor: producer        *)
(* threads (Clients) and one owner Domain that handles the queued jobs in  *)
(* order.  A critical section of the code's processor mutex, or of a       *)
(* reply's mutex, is one action.  A thread blocked in Condition.wait is in *)
(* a wait state that a signal or broadcast ends; the code re-reads its     *)
(* predicate after every wake-up, spurious ones included.                  *)
(***************************************************************************)
EXTENDS Naturals, Sequences

CONSTANTS
    Clients,       \* threads that call post, call, call_and_close, close, join
    Capacity,      \* capacity of the queue
    MaxOps,        \* bound: admission attempts per client
    AsyncPoints,   \* owner positions at which an asynchronous exception may hit
    None           \* a value that is no client and no job

ASSUME CapacityAssumption == Capacity \in Nat \ {0}
ASSUME MaxOpsAssumption   == MaxOps \in Nat

VARIABLES
    lifecycle,     \* Open, Closing, Failed or Stopped
    jobs,          \* the FIFO queue
    outcome,       \* the one-shot reply cell of every job that has one
    opc,           \* position of the owner Domain
    current,       \* the job that take returned
    inflight,      \* the ref of run_owner_guarded
    doomed,        \* jobs removed by fail_processor and not settled yet
    pc,            \* position of every client
    job,           \* the job of the client's current or last operation
    joinHolder,    \* client inside join, holding join_mutex
    joined,        \* cached terminal result
    admitted,      \* history: jobs in order of their admission
    handled        \* history: jobs in order of their handler invocation

vars == <<lifecycle, jobs, outcome, opc, current, inflight, doomed, pc, job,
          joinHolder, joined, admitted, handled>>

ownerVars  == <<opc, current, inflight, doomed, handled>>
joinVars   == <<joinHolder, joined>>

Kinds     == {"post", "call", "final"}
Job       == [client : Clients, n : 1..MaxOps, kind : Kinds]
Outcomes  == {"none", "ok", "raised"}
OwnerPcs  == {"take", "jobsWait", "taken", "handle", "settleOk", "settled",
              "settleErr", "escaped", "fail", "failJobs", "exited"}
ClientPcs == {"idle", "capWait", "woken", "await", "replyWait", "join"}

ASSUME NoneAssumption == None \notin Clients \cup Job

HasReply(j) == j.kind # "post"

NoJob(c) == [client |-> c, n |-> 0, kind |-> "post"]

Init ==
    /\ lifecycle = "Open"
    /\ jobs = <<>>
    /\ outcome = [j \in Job |-> "none"]
    /\ opc = "take"
    /\ current = None
    /\ inflight = None
    /\ doomed = <<>>
    /\ pc = [c \in Clients |-> "idle"]
    /\ job = [c \in Clients |-> NoJob(c)]
    /\ joinHolder = None
    /\ joined = "none"
    /\ admitted = <<>>
    /\ handled = <<>>

-----------------------------------------------------------------------------
(* Condition variables *)

\* Mutant: a missing broadcast.
NoCapacityBroadcast(p) == p

\* Condition.broadcast has_capacity, as a function of the clients' positions.
WakeCapacity(p) == [c \in Clients |-> IF p[c] = "capWait" THEN "woken" ELSE p[c]]

\* Condition.signal or broadcast has_jobs: the owner is its only waiter.
WakeOwner == opc' = IF opc = "jobsWait" THEN "take" ELSE opc

\* Condition.broadcast of job j's reply.ready.
WakeReply(p, j) ==
    [c \in Clients |-> IF p[c] = "replyWait" /\ job[c] = j THEN "await" ELSE p[c]]

-----------------------------------------------------------------------------
(* The protected queue and lifecycle *)

\* Mutants: a terminal request that does not close the admission, and a removal
\* that includes the active job.
CloseForgotten == lifecycle
RemovesActive  == <<current>> \o jobs

\* Queue.add, Queue.take and the removal loop of fail_processor.
Added(j) == Append(jobs, j)
Rest     == Tail(jobs)
Removed  == jobs

\* An open processor starts to drain.
Closed   == IF lifecycle = "Open" THEN "Closing" ELSE lifecycle

-----------------------------------------------------------------------------
(* Producers *)

\* Where a client continues once its job is in the queue.
AfterAdmission(j) == IF HasReply(j) THEN "await" ELSE "idle"

\* The body of enqueue, entered by a fresh operation or after a wake-up.
enqueue(c, j) ==
    /\ job' = [job EXCEPT ![c] = j]
    /\ \/ /\ lifecycle = "Open"
          /\ Len(jobs) >= Capacity
          /\ pc' = [pc EXCEPT ![c] = "capWait"]
          /\ UNCHANGED <<jobs, opc, admitted>>
       \/ /\ lifecycle = "Open"
          /\ Len(jobs) < Capacity
          /\ jobs' = Added(j)
          /\ admitted' = Append(admitted, j)
          /\ WakeOwner
          /\ pc' = [pc EXCEPT ![c] = AfterAdmission(j)]
       \/ /\ lifecycle # "Open"
          /\ pc' = [pc EXCEPT ![c] = "idle"]
          /\ UNCHANGED <<jobs, opc, admitted>>
    /\ UNCHANGED <<lifecycle, outcome, current, inflight, doomed, handled, joinVars>>

NewJob(c, kind) == [client |-> c, n |-> job[c].n + 1, kind |-> kind]

\* post and call: the first attempt to enqueue.
Submit(c, kind) ==
    /\ pc[c] = "idle"
    /\ job[c].n < MaxOps
    /\ enqueue(c, NewJob(c, kind))

\* A client that waited for capacity re-reads the predicate.
Retry(c) ==
    /\ pc[c] = "woken"
    /\ enqueue(c, job[c])

\* enqueue_and_close, called by submit_and_close and call_and_close.
SubmitAndClose(c) ==
    LET j == NewJob(c, "final") IN
    /\ pc[c] = "idle"
    /\ job[c].n < MaxOps
    /\ job' = [job EXCEPT ![c] = j]
    /\ \/ /\ lifecycle = "Open"
          /\ jobs' = Added(j)
          /\ admitted' = Append(admitted, j)
          /\ lifecycle' = Closed
          /\ WakeOwner
          /\ pc' = [WakeCapacity(pc) EXCEPT ![c] = "await"]
       \/ /\ lifecycle # "Open"
          /\ UNCHANGED <<jobs, admitted, lifecycle, opc, pc>>
    /\ UNCHANGED <<outcome, current, inflight, doomed, handled, joinVars>>

\* await_reply, one evaluation of its loop.
AwaitReply(c) ==
    /\ pc[c] = "await"
    /\ pc' = [pc EXCEPT ![c] = IF outcome[job[c]] = "none" THEN "replyWait" ELSE "idle"]
    /\ UNCHANGED <<lifecycle, jobs, outcome, job, admitted, ownerVars, joinVars>>

close(c) ==
    /\ pc[c] = "idle"
    /\ lifecycle' = Closed
    /\ WakeOwner
    /\ pc' = WakeCapacity(pc)
    /\ UNCHANGED <<jobs, outcome, current, inflight, doomed, handled, job,
                   admitted, joinVars>>

\* join takes join_mutex ...
JoinLock(c) ==
    /\ pc[c] = "idle"
    /\ joinHolder = None
    /\ joinHolder' = c
    /\ pc' = [pc EXCEPT ![c] = "join"]
    /\ UNCHANGED <<lifecycle, jobs, outcome, job, joined, admitted, ownerVars>>

\* Mutant: a join that waits for an orderly stop.
WaitsForStop == lifecycle = "Stopped"

OwnerEnded == opc = "exited"

terminal_result ==
    CASE lifecycle = "Failed"  -> "raised"
      [] lifecycle = "Stopped" -> "ok"
      [] OTHER                 -> "invalid_arg"

\* ... and holds it until the cached result or the end of the owner Domain.
\* (The exception of terminal_result is recorded here as a result of its own.)
JoinReturn(c) ==
    /\ pc[c] = "join"
    /\ joinHolder = c
    /\ \/ /\ joined # "none"
          /\ UNCHANGED joined
       \/ /\ joined = "none"
          /\ OwnerEnded
          /\ joined' = terminal_result
    /\ joinHolder' = None
    /\ pc' = [pc EXCEPT ![c] = "idle"]
    /\ UNCHANGED <<lifecycle, jobs, outcome, job, admitted, ownerVars>>

-----------------------------------------------------------------------------
(* The owner Domain *)

\* take, one evaluation of its loop and what follows it.
Take ==
    /\ opc = "take"
    /\ \/ /\ jobs # <<>>
          /\ current' = Head(jobs)
          /\ jobs' = Rest
          /\ pc' = WakeCapacity(pc)
          /\ opc' = "taken"
          /\ UNCHANGED <<lifecycle, inflight>>
       \/ /\ jobs = <<>>
          /\ lifecycle = "Open"
          /\ opc' = "jobsWait"
          /\ UNCHANGED <<lifecycle, jobs, current, inflight, pc>>
       \/ /\ jobs = <<>>
          /\ lifecycle # "Open"
          /\ lifecycle' = IF lifecycle = "Closing" THEN "Stopped" ELSE lifecycle
          /\ pc' = IF lifecycle = "Closing" THEN WakeCapacity(pc) ELSE pc
          /\ inflight' = None
          /\ opc' = "exited"
          /\ UNCHANGED <<jobs, current>>
    /\ UNCHANGED <<outcome, doomed, handled, job, admitted, joinVars>>

\* inflight := Some job, and the handler starts.
Track ==
    /\ opc = "taken"
    /\ inflight' = current
    /\ handled' = Append(handled, current)
    /\ opc' = "handle"
    /\ UNCHANGED <<lifecycle, jobs, outcome, current, doomed, pc, job,
                   admitted, joinVars>>

\* The user's handler returns a value or raises.
HandlerEnds ==
    /\ opc = "handle"
    /\ opc' \in {"settleOk", "settleErr"}
    /\ UNCHANGED <<lifecycle, jobs, outcome, current, inflight, doomed, handled,
                   pc, job, admitted, joinVars>>

\* settle: resolves the reply of j, or raises when it is resolved already.
settle(j, value, next) ==
    /\ IF HasReply(j) /\ outcome[j] = "none"
       THEN /\ outcome' = [outcome EXCEPT ![j] = value]
            /\ pc' = WakeReply(pc, j)
       ELSE UNCHANGED <<outcome, pc>>
    /\ opc' = IF HasReply(j) /\ outcome[j] # "none" THEN "escaped" ELSE next

\* handle_job settles the active call with the handler's result ...
SettleOk ==
    /\ opc = "settleOk"
    /\ settle(current, "ok", "settled")
    /\ UNCHANGED <<lifecycle, jobs, current, inflight, doomed, handled, job,
                   admitted, joinVars>>

\* ... or with its exception, before it fails the processor.
SettleErr ==
    /\ opc = "settleErr"
    /\ settle(current, "raised", "fail")
    /\ UNCHANGED <<lifecycle, jobs, current, inflight, doomed, handled, job,
                   admitted, joinVars>>

\* inflight := None, and the loop continues.
Untrack ==
    /\ opc = "settled"
    /\ inflight' = None
    /\ current' = None
    /\ opc' = "take"
    /\ UNCHANGED <<lifecycle, jobs, outcome, doomed, handled, pc, job,
                   admitted, joinVars>>

\* The critical section of fail_processor.
FailProcessor ==
    /\ opc = "fail"
    /\ IF lifecycle \in {"Open", "Closing"}
       THEN /\ lifecycle' = "Failed"
            /\ doomed' = Removed
            /\ jobs' = <<>>
            /\ pc' = WakeCapacity(pc)
       ELSE /\ doomed' = <<>>
            /\ UNCHANGED <<lifecycle, jobs, pc>>
    /\ opc' = "failJobs"
    /\ UNCHANGED <<outcome, current, inflight, handled, job, admitted, joinVars>>

\* fail_job on the next removed job, outside the processor mutex.
FailJob ==
    /\ opc = "failJobs"
    /\ doomed # <<>>
    /\ settle(Head(doomed), "raised", "failJobs")
    /\ doomed' = Tail(doomed)
    /\ UNCHANGED <<lifecycle, jobs, current, inflight, handled, job,
                   admitted, joinVars>>

\* The owner Domain ends after fail_processor.
OwnerExit ==
    /\ opc = "failJobs"
    /\ doomed = <<>>
    /\ inflight' = None
    /\ opc' = "exited"
    /\ UNCHANGED <<lifecycle, jobs, outcome, current, doomed, handled, pc, job,
                   admitted, joinVars>>

\* An asynchronous exception unwinds run_owner into run_owner_guarded.
AsyncException ==
    /\ opc \in AsyncPoints
    /\ opc \in {"taken", "settleOk", "settleErr", "settled"}
    /\ opc' = "escaped"
    /\ UNCHANGED <<lifecycle, jobs, outcome, current, inflight, doomed, handled,
                   pc, job, admitted, joinVars>>

\* Mutant: the guard forgets the dequeued call.
EscapedForgets ==
    /\ opc = "escaped"
    /\ inflight' = None
    /\ opc' = "fail"
    /\ UNCHANGED <<lifecycle, jobs, outcome, current, doomed, handled, pc, job,
                   admitted, joinVars>>

\* run_owner_guarded: settle_if_unresolved of the tracked job.
Escaped ==
    /\ opc = "escaped"
    /\ IF inflight # None /\ HasReply(inflight) /\ outcome[inflight] = "none"
       THEN /\ outcome' = [outcome EXCEPT ![inflight] = "raised"]
            /\ pc' = WakeReply(pc, inflight)
       ELSE UNCHANGED <<outcome, pc>>
    /\ inflight' = None
    /\ opc' = "fail"
    /\ UNCHANGED <<lifecycle, jobs, current, doomed, handled, job, admitted, joinVars>>

-----------------------------------------------------------------------------
(* Wake-ups without a signal *)

SpuriousClient(c) ==
    /\ pc[c] \in {"capWait", "replyWait"}
    /\ pc' = [pc EXCEPT ![c] = IF pc[c] = "capWait" THEN "woken" ELSE "await"]
    /\ UNCHANGED <<lifecycle, jobs, outcome, job, admitted, ownerVars, joinVars>>

SpuriousOwner ==
    /\ opc = "jobsWait"
    /\ opc' = "take"
    /\ UNCHANGED <<lifecycle, jobs, outcome, current, inflight, doomed, handled,
                   pc, job, admitted, joinVars>>

-----------------------------------------------------------------------------

OwnerNext ==
    \/ Take \/ Track \/ HandlerEnds \/ SettleOk \/ SettleErr \/ Untrack
    \/ FailProcessor \/ FailJob \/ OwnerExit \/ Escaped

ClientWaits(c) == Retry(c) \/ AwaitReply(c) \/ JoinReturn(c)

Next ==
    \/ OwnerNext
    \/ AsyncException
    \/ SpuriousOwner
    \/ \E c \in Clients :
         \/ Submit(c, "post") \/ Submit(c, "call") \/ SubmitAndClose(c)
         \/ close(c) \/ JoinLock(c) \/ ClientWaits(c) \/ SpuriousClient(c)

\* The threads are scheduled and handlers return; nobody is obliged to start an
\* operation, and neither exceptions nor spurious wake-ups are ever due.
Fairness ==
    /\ WF_vars(OwnerNext)
    /\ \A c \in Clients : WF_vars(ClientWaits(c))

Spec     == Init /\ [][Next]_vars
FairSpec == Spec /\ Fairness

-----------------------------------------------------------------------------
(* Properties *)

\* Every variable keeps its type, and join caches nothing but a terminal result.
TypeOK ==
    /\ lifecycle \in {"Open", "Closing", "Failed", "Stopped"}
    /\ jobs \in Seq(Job)
    /\ outcome \in [Job -> Outcomes]
    /\ opc \in OwnerPcs
    /\ current \in Job \cup {None}
    /\ inflight \in Job \cup {None}
    /\ doomed \in Seq(Job)
    /\ pc \in [Clients -> ClientPcs]
    /\ job \in [Clients -> [client : Clients, n : 0..MaxOps, kind : Kinds]]
    /\ joinHolder \in Clients \cup {None}
    /\ joined \in {"none", "ok", "raised"}

Terminal == {"Failed", "Stopped"}

\* The dequeued job whose handler has not been started.
Dequeued == IF opc = "taken" THEN <<current>> ELSE <<>>

\* Admission order is handling order ("the successful mutation is the
\* operation's linearization point"): until the processor fails, the handled
\* jobs, the job just dequeued and the queue are together the admitted jobs in
\* their admission order; a failed processor has handled a prefix of them.
\* Nothing is admitted behind the terminal request of enqueue_and_close, which
\* alone may use the queue position beyond the capacity.
FifoLinear ==
    /\ TypeOK
    /\ opc \in {"take", "jobsWait", "taken", "handle", "settleOk", "settled"} =>
           handled \o Dequeued \o jobs = admitted
    /\ handled = SubSeq(admitted, 1, Len(handled))
    /\ \A i \in 1..Len(admitted) : admitted[i].kind = "final" =>
           /\ i = Len(admitted)
           /\ lifecycle # "Open"
    /\ Len(jobs) > Capacity =>
           /\ Len(jobs) = Capacity + 1
           /\ jobs[Len(jobs)].kind = "final"

\* No wake-up is lost: a thread sleeps on a condition variable only while the
\* predicate it sleeps on still holds, so the critical section that falsifies
\* the predicate always signals.
NoLostWakeup ==
    /\ opc = "jobsWait" => lifecycle = "Open" /\ jobs = <<>>
    /\ \A c \in Clients :
         /\ pc[c] = "capWait" => lifecycle = "Open" /\ Len(jobs) >= Capacity
         /\ pc[c] = "replyWait" => outcome[job[c]] = "none"

\* Whatever ends the owner Domain, it leaves a terminal lifecycle, an empty
\* queue and no caller blocked on a reply that nobody will settle.
NoStrandedCaller ==
    opc = "exited" =>
        /\ lifecycle \in Terminal
        /\ jobs = <<>>
        /\ \A c \in Clients : pc[c] \in {"await", "replyWait"} =>
               outcome[job[c]] # "none"

\* The comment on run_owner: "Tracks the dequeued job so an async exception
\* between [take] and settlement cannot leave [await_reply] blocked forever".
TrackedUntilSettled ==
    opc = "exited" =>
        \A c \in Clients : pc[c] = "replyWait" => outcome[job[c]] # "none"

\* settle is one-shot: a reply that has an outcome keeps it, and the owner
\* never runs into the "mailbox reply settled twice" exception.
SettledForGood ==
    [][/\ \A j \in Job : outcome[j] # "none" => outcome'[j] = outcome[j]
       /\ opc # "escaped" /\ opc' = "escaped" => AsyncException]_vars

\* Every client that blocks returns: an admitted call, whether its handler
\* returns, raises, or never runs because an earlier job failed the processor;
\* a producer waiting for capacity, which re-reads its predicate once the owner
\* has taken a job; and a join of a processor that was closed or has failed.
CallersReturn ==
    \A c \in Clients :
        /\ pc[c] = "await" ~> pc[c] = "idle"
        /\ pc[c] = "capWait" ~> pc[c] # "capWait"
        /\ pc[c] = "join" /\ lifecycle # "Open" ~> pc[c] = "idle"

====
