--------------------------- MODULE MailboxProofs ---------------------------
(***************************************************************************)
(* Proofs about Mailbox for every set of clients, capacity and number of   *)
(* operations, provided that no asynchronous exception hits the owner      *)
(* between its dequeue and the assignment to inflight (the window of the   *)
(* run with AllPoints).                                                    *)
(***************************************************************************)
EXTENDS Mailbox, TLAPS

WindowClosed == "taken" \notin AsyncPoints

Unsettled == {"taken", "handle", "settleOk", "settleErr"}
Tracked   == {"handle", "settleOk", "settleErr", "settled"}
Ended     == {"failJobs", "exited"}
Waiting   == {"await", "replyWait"}

InQueue(j)  == \E i \in 1..Len(jobs) : jobs[i] = j
InDoomed(j) == \E i \in 1..Len(doomed) : doomed[i] = j
IsActive(j) == opc \in Unsettled /\ current = j

\* The jobs whose reply the owner still has to settle.
Live(j) == InQueue(j) \/ InDoomed(j) \/ IsActive(j)

\* The job that run_owner_guarded settles if that is still to be done.
Rescued(j) == opc = "escaped" /\ inflight = j

\* The job of inflight once it is not live any more.
Held(j) == opc \in {"escaped", "settled"} /\ inflight = j

OwnerInv ==
    /\ opc \in Unsettled \cup Tracked => current \in Job
    /\ opc \in Tracked => inflight = current
    /\ opc = "escaped" => inflight \in Job
    /\ opc \in Ended <=> lifecycle \in Terminal
    /\ opc \in Ended => jobs = <<>>
    /\ doomed # <<>> => opc = "failJobs"

\* A client waits only for a job that is settled or still to be settled.
ClientInv ==
    \A c \in Clients :
        /\ job[c].client = c
        /\ pc[c] \in {"capWait", "woken", "await", "replyWait"} => job[c] \in Job
        /\ pc[c] \in Waiting =>
             /\ HasReply(job[c])
             /\ outcome[job[c]] = "none" =>
                    Live(job[c]) \/ Rescued(job[c])

\* A job was used only if its client has reached its number; a client that still
\* tries to enqueue has not used its job yet.
FreshInv ==
    \A j \in Job : (Live(j) \/ Held(j) \/ outcome[j] # "none") =>
        /\ j.n <= job[j.client].n
        /\ pc[j.client] \in {"capWait", "woken"} => j.n < job[j.client].n

LiveInv == \A j \in Job : Live(j) => outcome[j] = "none"

DistinctInv ==
    /\ \A i, k \in 1..Len(jobs) : jobs[i] = jobs[k] => i = k
    /\ \A i, k \in 1..Len(doomed) : doomed[i] = doomed[k] => i = k
    /\ opc \in Unsettled \cup Tracked => ~ InQueue(current)
    /\ opc = "escaped" => ~ InQueue(inflight)

IInv ==
    /\ TypeOK
    /\ OwnerInv
    /\ NoLostWakeup
    /\ ClientInv
    /\ FreshInv
    /\ LiveInv
    /\ DistinctInv

-----------------------------------------------------------------------------

\* What Queue.take does to the positions of a queue.
LEMMA TailFacts ==
  ASSUME NEW S, NEW s \in Seq(S), s # <<>>
  PROVE  /\ Len(s) \in Nat \ {0}
         /\ Head(s) = s[1] /\ Head(s) \in S
         /\ Tail(s) \in Seq(S)
         /\ Len(Tail(s)) = Len(s) - 1
         /\ \A i \in 1..(Len(s) - 1) : Tail(s)[i] = s[i+1]
PROOF
  <1>1. Len(s) \in Nat \ {0} /\ Head(s) = s[1] /\ Head(s) \in S
    OBVIOUS
  <1>2. Tail(s) \in Seq(S) /\ Len(Tail(s)) = Len(s) - 1
    OBVIOUS
  <1>3. \A i \in 1..(Len(s) - 1) : Tail(s)[i] = s[i+1]
    OBVIOUS
  <1> QED BY <1>1, <1>2, <1>3

\* What Queue.add does to the positions of a queue.
LEMMA AppendFacts ==
  ASSUME NEW S, NEW s \in Seq(S), NEW e \in S
  PROVE  /\ Append(s, e) \in Seq(S)
         /\ Len(s) \in Nat
         /\ Len(Append(s, e)) = Len(s) + 1
         /\ \A i \in 1..Len(s) : Append(s, e)[i] = s[i]
         /\ Append(s, e)[Len(s) + 1] = e
  OBVIOUS

\* A submitted job is a value of the variable job.
LEMMA JobIsRecord ==
  ASSUME NEW j \in Job
  PROVE  j \in [client : Clients, n : 0..MaxOps, kind : Kinds]
  BY MaxOpsAssumption DEF Job

\* The queue after a job was added at its end.
LEMMA AppendJob ==
  ASSUME NEW s \in Seq(Job), NEW j \in Job, NEW t, t = Append(s, j)
  PROVE  /\ s \in Seq(Job) /\ t \in Seq(Job) /\ Len(s) \in Nat
         /\ Len(t) = Len(s) + 1
         /\ \A i \in 1..Len(s) : t[i] = s[i]
         /\ t[Len(s) + 1] = j
  BY AppendFacts

\* The fields of a submitted job.
LEMMA JobFields ==
  ASSUME NEW j \in Job
  PROVE  j.client \in Clients /\ j.n \in Nat
  BY MaxOpsAssumption DEF Job

LEMMA InitInv == Init => IInv
PROOF
  <1> SUFFICES ASSUME Init PROVE IInv
    OBVIOUS
  <1>1. /\ opc = "take" /\ lifecycle = "Open" /\ doomed = <<>> /\ jobs = <<>> /\ current = None
        /\ \A c \in Clients : pc[c] = "idle" /\ job[c] = NoJob(c)
        /\ \A j \in Job : outcome[j] = "none"
    BY DEF Init
  <1>2. \A j : ~ Live(j) /\ ~ Held(j) /\ ~ Rescued(j)
    BY <1>1 DEF Live, Held, Rescued, InQueue, InDoomed, IsActive, Unsettled
  <1>3. TypeOK
    <2>1. job \in [Clients -> [client : Clients, n : 0..MaxOps, kind : Kinds]]
      BY MaxOpsAssumption DEF Init, NoJob, Kinds
    <2> QED BY <2>1 DEF Init, TypeOK, Outcomes, OwnerPcs, ClientPcs
  <1>4. OwnerInv
    BY <1>1 DEF OwnerInv, Unsettled, Tracked, Ended, Terminal
  <1>5. LiveInv /\ FreshInv
    BY <1>1, <1>2 DEF LiveInv, FreshInv
  <1>6. NoLostWakeup /\ ClientInv
    <2>1. \A c \in Clients : job[c].client = c
      BY DEF Init, NoJob
    <2>2. NoLostWakeup
      BY <1>1 DEF NoLostWakeup
    <2>3. ClientInv
      BY <1>1, <2>1 DEF ClientInv, Waiting
    <2> QED BY <2>2, <2>3
  <1>7. DistinctInv
    BY <1>1 DEF DistinctInv, InQueue, Unsettled, Tracked
  <1> QED BY <1>3, <1>4, <1>5, <1>6, <1>7 DEF IInv

LEMMA TakeInv ==
  ASSUME IInv, Take
  PROVE  IInv'
PROOF
  <1> USE DEF Take, IInv
  <1>1. CASE jobs # <<>>
    <2> USE <1>1
    <2>1. /\ current' = jobs[1] /\ current' \in Job
          /\ jobs' \in Seq(Job)
          /\ Len(jobs') = Len(jobs) - 1
          /\ \A i \in 1..Len(jobs') : jobs'[i] = jobs[i+1] /\ i+1 \in 1..Len(jobs)
          /\ 1 \in 1..Len(jobs)
          /\ opc' = "taken" /\ opc = "take" /\ lifecycle' = lifecycle
          /\ pc' = WakeCapacity(pc)
          /\ UNCHANGED <<inflight, outcome, doomed, handled, job, admitted, joinVars>>
      <3>1. jobs \in Seq(Job) /\ current' = Head(jobs) /\ jobs' = Tail(jobs)
        BY DEF TypeOK, Rest
      <3> QED BY <3>1, TailFacts
    <2>2. TypeOK'
      BY <2>1 DEF TypeOK, WakeCapacity, joinVars, OwnerPcs, ClientPcs
    <2>3. \A j \in Job : Live(j)' <=> Live(j)
      <3> TAKE j \in Job
      <3>1. InQueue(j)' \/ current' = j <=> InQueue(j)
        <4>1. InQueue(j)' \/ current' = j => InQueue(j)
          BY <2>1 DEF InQueue, TypeOK
        <4>2. ASSUME NEW i \in 1..Len(jobs), jobs[i] = j
              PROVE  InQueue(j)' \/ current' = j
          <5>1. CASE i = 1 BY <5>1, <4>2, <2>1
          <5>2. CASE i # 1
            <6>1. i - 1 \in 1..Len(jobs') /\ jobs'[i-1] = j
              BY <5>2, <4>2, <2>1 DEF TypeOK
            <6> QED BY <6>1 DEF InQueue
          <5> QED BY <5>1, <5>2
        <4> QED BY <4>1, <4>2 DEF InQueue
      <3> QED BY <3>1, <2>1 DEF Live, InDoomed, IsActive, Unsettled
    <2>4. OwnerInv'
      BY <2>1 DEF OwnerInv, Unsettled, Tracked, Ended
    <2>5. NoLostWakeup'
      BY <2>1 DEF NoLostWakeup, WakeCapacity, TypeOK
    <2>6. ClientInv'
      BY <2>1, <2>3 DEF ClientInv, Rescued, WakeCapacity, Waiting, TypeOK
    <2>7. FreshInv'
      BY <2>1, <2>3 DEF FreshInv, Held, WakeCapacity, TypeOK, Job
    <2>8. LiveInv'
      BY <2>1, <2>3 DEF LiveInv
    <2>9. DistinctInv'
      <3>1. \A i, k \in 1..Len(jobs') : jobs'[i] = jobs'[k] => i = k
        BY <2>1 DEF DistinctInv, TypeOK
      <3>2. ~ InQueue(current)'
        BY <2>1 DEF DistinctInv, InQueue, TypeOK
      <3> QED BY <2>1, <3>1, <3>2 DEF DistinctInv
    <2> QED BY <2>2, <2>4, <2>5, <2>6, <2>7, <2>8, <2>9
  <1>2. CASE jobs = <<>>
    BY <1>2
    DEF TypeOK, OwnerInv, NoLostWakeup, ClientInv, FreshInv, LiveInv,
      DistinctInv, Live, Rescued, Held, InQueue, InDoomed, IsActive, Unsettled, Tracked, Ended, Waiting,
      Terminal, WakeCapacity, joinVars, OwnerPcs, ClientPcs
  <1> QED BY <1>1, <1>2

LEMMA TrackInv ==
  ASSUME IInv, Track
  PROVE  IInv'
  BY NoneAssumption DEF Track, IInv, TypeOK, OwnerInv, NoLostWakeup, ClientInv, FreshInv, LiveInv,
      DistinctInv, Live, Rescued, Held, InQueue, InDoomed, IsActive, Unsettled, Tracked, Ended, Waiting,
      Terminal, OwnerPcs, ClientPcs, ownerVars, joinVars

LEMMA HandlerEndsInv ==
  ASSUME IInv, HandlerEnds
  PROVE  IInv'
  BY NoneAssumption DEF HandlerEnds, IInv, TypeOK, OwnerInv, NoLostWakeup, ClientInv, FreshInv, LiveInv,
      DistinctInv, Live, Rescued, Held, InQueue, InDoomed, IsActive, Unsettled, Tracked, Ended, Waiting,
      Terminal, OwnerPcs, ClientPcs, ownerVars, joinVars

LEMMA UntrackInv ==
  ASSUME IInv, Untrack
  PROVE  IInv'
  BY NoneAssumption DEF Untrack, IInv, TypeOK, OwnerInv, NoLostWakeup, ClientInv, FreshInv, LiveInv,
      DistinctInv, Live, Rescued, Held, InQueue, InDoomed, IsActive, Unsettled, Tracked, Ended, Waiting,
      Terminal, OwnerPcs, ClientPcs, ownerVars, joinVars

LEMMA OwnerExitInv ==
  ASSUME IInv, OwnerExit
  PROVE  IInv'
  BY NoneAssumption DEF OwnerExit, IInv, TypeOK, OwnerInv, NoLostWakeup, ClientInv, FreshInv, LiveInv,
      DistinctInv, Live, Rescued, Held, InQueue, InDoomed, IsActive, Unsettled, Tracked, Ended, Waiting,
      Terminal, OwnerPcs, ClientPcs, ownerVars, joinVars

LEMMA SpuriousOwnerInv ==
  ASSUME IInv, SpuriousOwner
  PROVE  IInv'
  BY NoneAssumption DEF SpuriousOwner, IInv, TypeOK, OwnerInv, NoLostWakeup, ClientInv, FreshInv, LiveInv,
      DistinctInv, Live, Rescued, Held, InQueue, InDoomed, IsActive, Unsettled, Tracked, Ended, Waiting,
      Terminal, OwnerPcs, ClientPcs, ownerVars, joinVars

LEMMA FailProcessorInv ==
  ASSUME IInv, FailProcessor
  PROVE  IInv'
PROOF
  <1> USE DEF IInv
  <1>0. /\ opc = "fail" /\ opc' = "failJobs"
        /\ lifecycle' = "Failed" /\ doomed' = jobs /\ jobs' = <<>> /\ doomed = <<>>
        /\ pc' = WakeCapacity(pc)
        /\ UNCHANGED <<outcome, current, inflight, handled, job, admitted, joinVars>>
    BY DEF FailProcessor, Removed, OwnerInv, Ended, Terminal, TypeOK
  <1>1. TypeOK'
    BY <1>0 DEF TypeOK, OwnerPcs, ClientPcs, WakeCapacity, joinVars
  <1>2. \A j \in Job : Live(j)' <=> Live(j)
    BY <1>0 DEF Live, Rescued, Held, InQueue, InDoomed, IsActive, Unsettled
  <1>3. OwnerInv'
    BY <1>0 DEF OwnerInv, Unsettled, Tracked, Ended, Terminal
  <1>4. NoLostWakeup'
    BY <1>0 DEF NoLostWakeup, TypeOK, WakeCapacity
  <1>5. ClientInv'
    BY <1>0, <1>2 DEF ClientInv, Rescued, Waiting, TypeOK, WakeCapacity
  <1>6. FreshInv'
    BY <1>0, <1>2 DEF FreshInv, Held, Job, TypeOK, WakeCapacity
  <1>7. LiveInv' /\ DistinctInv'
    BY <1>0, <1>2 DEF LiveInv, DistinctInv, InQueue, Unsettled, Tracked
  <1> QED BY <1>1, <1>3, <1>4, <1>5, <1>6, <1>7

\* The window between take and the assignment to inflight is the one place
\* where an exception would lose the active job.
LEMMA AsyncInv ==
  ASSUME IInv, WindowClosed, AsyncException
  PROVE  IInv'
PROOF
  <1> USE DEF IInv, WindowClosed, AsyncException, joinVars
  <1>1. TypeOK'
    BY DEF TypeOK, OwnerPcs, ClientPcs
  <1>2. \A j \in Job : /\ Live(j)' => Live(j)
                       /\ Live(j) => Live(j)' \/ inflight = j
    BY DEF Live, Rescued, Held, InQueue, InDoomed, IsActive, Unsettled, OwnerInv, Tracked
  <1>3. OwnerInv'
    BY DEF OwnerInv, Unsettled, Tracked, Ended, Terminal
  <1>4. NoLostWakeup'
    BY DEF NoLostWakeup, TypeOK
  <1>5. ClientInv'
    BY <1>2 DEF ClientInv, Rescued, Waiting, TypeOK
  <1>6. FreshInv'
    <2>1. \A j \in Job : Held(j)' => Held(j) \/ Live(j)
      BY DEF Held, Live, IsActive, OwnerInv, Tracked, Unsettled
    <2> QED BY <1>2, <2>1 DEF FreshInv, TypeOK
  <1>7. LiveInv' /\ DistinctInv'
    BY <1>2 DEF LiveInv, DistinctInv, OwnerInv, InQueue, Unsettled, Tracked
  <1> QED BY <1>1, <1>3, <1>4, <1>5, <1>6, <1>7

LEMMA SpuriousClientInv ==
  ASSUME IInv, NEW c \in Clients, SpuriousClient(c)
  PROVE  IInv'
PROOF
  <1> USE DEF IInv, SpuriousClient, ownerVars, joinVars
  <1>1. TypeOK'
    BY DEF TypeOK, OwnerPcs, ClientPcs
  <1>2. \A j \in Job : Live(j)' <=> Live(j)
    BY DEF Live, Rescued, Held, InQueue, InDoomed, IsActive, Unsettled
  <1>3. OwnerInv'
    BY DEF OwnerInv, Unsettled, Tracked, Ended, Terminal
  <1>4. NoLostWakeup'
    BY DEF NoLostWakeup, TypeOK
  <1>5. ClientInv'
    BY <1>2 DEF ClientInv, Rescued, Waiting, TypeOK
  <1>6. FreshInv'
    BY <1>2 DEF FreshInv, Held, Job, TypeOK
  <1>7. LiveInv' /\ DistinctInv'
    BY <1>2 DEF LiveInv, DistinctInv, InQueue, Unsettled, Tracked
  <1> QED BY <1>1, <1>3, <1>4, <1>5, <1>6, <1>7

LEMMA AwaitReplyInv ==
  ASSUME IInv, NEW c \in Clients, AwaitReply(c)
  PROVE  IInv'
PROOF
  <1> USE DEF IInv, AwaitReply, ownerVars, joinVars
  <1>1. TypeOK'
    BY DEF TypeOK, OwnerPcs, ClientPcs
  <1>2. \A j \in Job : Live(j)' <=> Live(j)
    BY DEF Live, Rescued, Held, InQueue, InDoomed, IsActive, Unsettled
  <1>3. OwnerInv'
    BY DEF OwnerInv, Unsettled, Tracked, Ended, Terminal
  <1>4. NoLostWakeup'
    BY DEF NoLostWakeup, TypeOK
  <1>5. ClientInv'
    BY <1>2 DEF ClientInv, Rescued, Waiting, TypeOK
  <1>6. FreshInv'
    BY <1>2 DEF FreshInv, Held, Job, TypeOK
  <1>7. LiveInv' /\ DistinctInv'
    BY <1>2 DEF LiveInv, DistinctInv, InQueue, Unsettled, Tracked
  <1> QED BY <1>1, <1>3, <1>4, <1>5, <1>6, <1>7

LEMMA CloseInv ==
  ASSUME IInv, NEW c \in Clients, close(c)
  PROVE  IInv'
PROOF
  <1> USE DEF IInv, close, Closed, WakeOwner, WakeCapacity, joinVars
  <1>1. TypeOK'
    BY DEF TypeOK, OwnerPcs, ClientPcs
  <1>2. \A j \in Job : Live(j)' <=> Live(j)
    BY DEF Live, Rescued, Held, InQueue, InDoomed, IsActive, Unsettled
  <1>3. OwnerInv'
    BY DEF OwnerInv, Unsettled, Tracked, Ended, Terminal
  <1>4. NoLostWakeup'
    BY DEF NoLostWakeup, TypeOK
  <1>5. ClientInv'
    BY <1>2 DEF ClientInv, Rescued, Waiting, TypeOK
  <1>6. FreshInv'
    BY <1>2 DEF FreshInv, Held, Job, TypeOK
  <1>7. LiveInv' /\ DistinctInv'
    BY <1>2 DEF LiveInv, DistinctInv, InQueue, Unsettled, Tracked
  <1> QED BY <1>1, <1>3, <1>4, <1>5, <1>6, <1>7

LEMMA JoinLockInv ==
  ASSUME IInv, NEW c \in Clients, JoinLock(c)
  PROVE  IInv'
PROOF
  <1> USE DEF IInv, JoinLock, ownerVars
  <1>1. TypeOK'
    BY DEF TypeOK, OwnerPcs, ClientPcs
  <1>2. \A j \in Job : Live(j)' <=> Live(j)
    BY DEF Live, Rescued, Held, InQueue, InDoomed, IsActive, Unsettled
  <1>3. OwnerInv'
    BY DEF OwnerInv, Unsettled, Tracked, Ended, Terminal
  <1>4. NoLostWakeup'
    BY DEF NoLostWakeup, TypeOK
  <1>5. ClientInv'
    BY <1>2 DEF ClientInv, Rescued, Waiting, TypeOK
  <1>6. FreshInv'
    BY <1>2 DEF FreshInv, Held, Job, TypeOK
  <1>7. LiveInv' /\ DistinctInv'
    BY <1>2 DEF LiveInv, DistinctInv, InQueue, Unsettled, Tracked
  <1> QED BY <1>1, <1>3, <1>4, <1>5, <1>6, <1>7

LEMMA JoinReturnInv ==
  ASSUME IInv, NEW c \in Clients, JoinReturn(c)
  PROVE  IInv'
PROOF
  <1> USE DEF IInv, JoinReturn, ownerVars
  <1>0. OwnerEnded => terminal_result \in {"ok", "raised"}
    BY DEF OwnerEnded, OwnerInv, Ended, Terminal, terminal_result
  <1>1. TypeOK'
    BY <1>0 DEF TypeOK, OwnerPcs, ClientPcs
  <1>2. \A j \in Job : Live(j)' <=> Live(j)
    BY DEF Live, InQueue, InDoomed, IsActive, Unsettled
  <1>3. OwnerInv' /\ LiveInv' /\ DistinctInv'
    BY <1>2 DEF OwnerInv, LiveInv, DistinctInv, InQueue, Unsettled, Tracked
  <1>4. NoLostWakeup'
    BY DEF NoLostWakeup, TypeOK
  <1>5. ClientInv'
    BY <1>2 DEF ClientInv, Rescued, Waiting, TypeOK
  <1>6. FreshInv'
    BY <1>2 DEF FreshInv, Held, Job, TypeOK
  <1> QED BY <1>1, <1>3, <1>4, <1>5, <1>6

-----------------------------------------------------------------------------
(* Settling a reply *)

\* The step of the owner that settles the reply of j, a job that is live no more
\* afterwards, as the three places that settle have it in common.
Settles(j) ==
    /\ j \in Job
    /\ \/ /\ HasReply(j)
          /\ \E v \in {"ok", "raised"} : outcome' = [outcome EXCEPT ![j] = v]
          /\ pc' = WakeReply(pc, j)
       \/ /\ ~ HasReply(j) \/ outcome[j] # "none"
          /\ UNCHANGED <<outcome, pc>>
    /\ UNCHANGED <<lifecycle, jobs, job, admitted, joinVars>>
    /\ \A k \in Job : Live(k)' <=> Live(k) /\ k # j
    /\ \A k \in Job : Rescued(k) => k = j
    /\ \A k \in Job : Held(k)' => k = j
    /\ Live(j) \/ Rescued(j)
    /\ opc' \notin {"jobsWait", "escaped"}

LEMMA SettlesInv ==
  ASSUME IInv, NEW j \in Job, Settles(j)
  PROVE  NoLostWakeup' /\ ClientInv' /\ FreshInv' /\ LiveInv'
PROOF
  <1> USE DEF IInv
  <1>1. /\ \A k \in Job : outcome'[k] # outcome[k] => k = j /\ HasReply(j) /\ outcome'[j] # "none"
        /\ outcome[j] = "none" /\ HasReply(j) => outcome'[j] # "none"
        /\ \A k \in Job : outcome[k] # "none" => outcome'[k] # "none"
        /\ \A c \in Clients : /\ pc[c] \notin Waiting => pc'[c] = pc[c]
                              /\ pc[c] \in Waiting <=> pc'[c] \in Waiting
                              /\ pc'[c] = "replyWait" => pc[c] = "replyWait" /\ outcome'[job[c]] = outcome[job[c]]
        /\ job' = job /\ lifecycle' = lifecycle /\ jobs' = jobs
    BY DEF Settles, WakeReply, Waiting, TypeOK, NoLostWakeup, ClientInv
  <1>2. NoLostWakeup'
    <2>1. opc' # "jobsWait"
      BY DEF Settles
    <2>2. ASSUME NEW c \in Clients, pc'[c] = "capWait"
          PROVE  lifecycle' = "Open" /\ Len(jobs') >= Capacity
      <3>1. pc[c] = "capWait"
        BY <1>1, <2>2 DEF Waiting
      <3> QED BY <1>1, <3>1 DEF NoLostWakeup
    <2>3. ASSUME NEW c \in Clients, pc'[c] = "replyWait"
          PROVE  outcome'[job'[c]] = "none"
      BY <1>1, <2>3 DEF NoLostWakeup
    <2> QED BY <2>1, <2>2, <2>3 DEF NoLostWakeup
  <1>3. ClientInv'
    BY <1>1 DEF ClientInv, Rescued, Settles, Waiting
  <1>4. FreshInv'
    <2> SUFFICES ASSUME NEW k \in Job, Live(k)' \/ Held(k)' \/ outcome'[k] # "none"
                 PROVE  /\ k.n <= job[k.client].n
                        /\ pc'[k.client] \in {"capWait", "woken"} => k.n < job[k.client].n
      BY <1>1 DEF FreshInv
    <2>1. Live(k) \/ Held(k) \/ outcome[k] # "none"
      BY <1>1 DEF Settles, Held, Rescued
    <2>2. k.client \in Clients
      BY DEF Job
    <2> QED BY <1>1, <2>1, <2>2 DEF FreshInv, Waiting
  <1>5. LiveInv'
    BY <1>1 DEF LiveInv, Settles
  <1> QED BY <1>2, <1>3, <1>4, <1>5

LEMMA SettleCurrentInv ==
  ASSUME IInv, SettleOk \/ SettleErr
  PROVE  IInv' /\ opc' # "escaped"
PROOF
  <1> USE DEF IInv
  <1>1. /\ current \in Job /\ inflight = current /\ outcome[current] = "none"
        /\ opc \in {"settleOk", "settleErr"} /\ doomed = <<>> /\ lifecycle \notin Terminal
    BY DEF SettleOk, SettleErr, OwnerInv, LiveInv, Live, IsActive, Unsettled, Tracked, Ended
  <1>2. /\ opc' \in {"settled", "fail"}
        /\ UNCHANGED <<lifecycle, jobs, current, inflight, doomed, handled, job,
                       admitted, joinVars>>
        /\ \/ /\ HasReply(current)
              /\ \E v \in {"ok", "raised"} : outcome' = [outcome EXCEPT ![current] = v]
              /\ pc' = WakeReply(pc, current)
           \/ ~ HasReply(current) /\ UNCHANGED <<outcome, pc>>
    BY <1>1 DEF SettleOk, SettleErr, settle
  <1>3. TypeOK'
    BY <1>1, <1>2 DEF TypeOK, WakeReply, joinVars, Outcomes, OwnerPcs, ClientPcs
  <1>4. Settles(current)
    <2>1. \A k \in Job : Live(k)' <=> Live(k) /\ k # current
      BY <1>1, <1>2 DEF Live, InQueue, InDoomed, IsActive, Unsettled, DistinctInv
    <2>2. \A k \in Job : (Held(k)' => k = current) /\ (Rescued(k) => k = current)
      BY <1>1, <1>2 DEF Held, Rescued
    <2>3. Live(current)
      BY <1>1 DEF Live, IsActive, Unsettled
    <2> QED BY <1>1, <1>2, <2>1, <2>2, <2>3 DEF Settles
  <1>5. NoLostWakeup' /\ ClientInv' /\ FreshInv' /\ LiveInv'
    BY <1>1, <1>4, SettlesInv
  <1>6. OwnerInv' /\ DistinctInv'
    BY <1>1, <1>2 DEF OwnerInv, DistinctInv, InQueue, Unsettled, Tracked, Ended
  <1> QED BY <1>2, <1>3, <1>5, <1>6

LEMMA FailJobInv ==
  ASSUME IInv, FailJob
  PROVE  IInv' /\ opc' # "escaped"
PROOF
  <1> USE DEF IInv
  <1> DEFINE j == Head(doomed)
  <1>1. /\ j \in Job /\ j = doomed[1] /\ doomed' = Tail(doomed) /\ doomed' \in Seq(Job)
        /\ Len(doomed) \in Nat \ {0} /\ Len(doomed') = Len(doomed) - 1
        /\ \A i \in 1..Len(doomed') : doomed'[i] = doomed[i+1]
        /\ opc = "failJobs" /\ doomed # <<>>
    <2>1. doomed \in Seq(Job) /\ doomed # <<>> /\ doomed' = Tail(doomed) /\ opc = "failJobs"
      BY DEF FailJob, TypeOK
    <2> QED BY <2>1, TailFacts
  <1>2. Live(j) /\ outcome[j] = "none"
    BY <1>1 DEF Live, InDoomed, LiveInv
  <1> HIDE DEF j
  <1>3. /\ opc' = "failJobs"
        /\ UNCHANGED <<lifecycle, jobs, current, inflight, handled, job, admitted, joinVars>>
        /\ \/ /\ HasReply(j)
              /\ \E v \in {"ok", "raised"} : outcome' = [outcome EXCEPT ![j] = v]
              /\ pc' = WakeReply(pc, j)
           \/ ~ HasReply(j) /\ UNCHANGED <<outcome, pc>>
    BY <1>2 DEF FailJob, settle, j
  <1>4. TypeOK'
    <2>1. outcome' \in [Job -> Outcomes]
      BY <1>1, <1>3 DEF TypeOK, Outcomes
    <2>2. pc' \in [Clients -> ClientPcs]
      BY <1>3 DEF TypeOK, WakeReply, ClientPcs
    <2> QED BY <1>1, <1>3, <2>1, <2>2 DEF TypeOK, joinVars, OwnerPcs
  <1>5. Settles(j)
    <2>1. \A k \in Job : InDoomed(k)' <=> InDoomed(k) /\ k # j
      <3> TAKE k \in Job
      <3>1. InDoomed(k)' => InDoomed(k) /\ k # j
        BY <1>1 DEF InDoomed, DistinctInv
      <3>2. ASSUME NEW i \in 1..Len(doomed), doomed[i] = k, k # j
            PROVE  InDoomed(k)'
        <4>1. i - 1 \in 1..Len(doomed') /\ doomed'[i-1] = k
          BY <1>1, <3>2
        <4> QED BY <4>1 DEF InDoomed
      <3> QED BY <3>1, <3>2 DEF InDoomed
    <2>2. \A k \in Job : Live(k)' <=> Live(k) /\ k # j
      BY <1>1, <1>3, <2>1 DEF Live, InQueue, IsActive, Unsettled, OwnerInv, Ended
    <2>3. \A k \in Job : (Held(k)' => k = j) /\ (Rescued(k) => k = j)
      BY <1>1, <1>3 DEF Held, Rescued
    <2> QED BY <1>1, <1>2, <1>3, <2>2, <2>3 DEF Settles
  <1>6. NoLostWakeup' /\ ClientInv' /\ FreshInv' /\ LiveInv'
    BY <1>1, <1>5, SettlesInv
  <1>7. OwnerInv'
    BY <1>1, <1>3 DEF OwnerInv, Unsettled, Tracked, Ended
  <1>8. DistinctInv'
    BY <1>1, <1>3 DEF DistinctInv, InQueue, Unsettled, Tracked
  <1> QED BY <1>3, <1>4, <1>6, <1>7, <1>8

LEMMA EscapedInv ==
  ASSUME IInv, Escaped
  PROVE  IInv' /\ opc' # "escaped"
PROOF
  <1> USE DEF IInv
  <1>1. inflight \in Job /\ inflight # None /\ opc = "escaped" /\ doomed = <<>>
        /\ lifecycle \notin Terminal
    BY NoneAssumption DEF Escaped, OwnerInv, Ended
  <1>2. /\ opc' = "fail" /\ inflight' = None
        /\ UNCHANGED <<lifecycle, jobs, current, doomed, handled, job, admitted, joinVars>>
        /\ \/ /\ HasReply(inflight)
              /\ \E v \in {"ok", "raised"} : outcome' = [outcome EXCEPT ![inflight] = v]
              /\ pc' = WakeReply(pc, inflight)
           \/ /\ ~ HasReply(inflight) \/ outcome[inflight] # "none"
              /\ UNCHANGED <<outcome, pc>>
    BY <1>1 DEF Escaped
  <1>3. TypeOK'
    BY <1>1, <1>2 DEF TypeOK, WakeReply, joinVars, Outcomes, OwnerPcs, ClientPcs
  <1>4. Settles(inflight)
    <2>1. \A k \in Job : Live(k)' <=> Live(k) /\ k # inflight
      BY <1>1, <1>2 DEF Live, InQueue, InDoomed, IsActive, Unsettled, DistinctInv
    <2>2. \A k \in Job : (Held(k)' => k = inflight) /\ (Rescued(k) => k = inflight)
      BY <1>1, <1>2 DEF Held, Rescued
    <2> QED BY <1>1, <1>2, <2>1, <2>2 DEF Settles, Rescued
  <1>5. NoLostWakeup' /\ ClientInv' /\ FreshInv' /\ LiveInv'
    BY <1>1, <1>4, SettlesInv
  <1>6. OwnerInv' /\ DistinctInv'
    BY <1>1, <1>2 DEF OwnerInv, DistinctInv, InQueue, Unsettled, Tracked, Ended
  <1> QED BY <1>2, <1>3, <1>5, <1>6

-----------------------------------------------------------------------------
(* Admitting a job *)

\* Client c puts the unused job j at the end of the queue and waits for it if it
\* has a reply, as enqueue and enqueue_and_close have it in common.
Admits(c, j) ==
    /\ j \in Job /\ j.client = c
    /\ jobs' = Append(jobs, j)
    /\ lifecycle = "Open" /\ lifecycle' \in {"Open", "Closing"}
    /\ WakeOwner
    /\ job' = [job EXCEPT ![c] = j]
    /\ \E p \in [Clients -> ClientPcs] :
         /\ pc' = [p EXCEPT ![c] = AfterAdmission(j)]
         /\ \A d \in Clients : p[d] = pc[d] \/ (pc[d] = "capWait" /\ p[d] = "woken")
         /\ lifecycle' = "Open" \/ \A d \in Clients : p[d] # "capWait"
    /\ UNCHANGED <<outcome, current, inflight, doomed, handled, joinVars>>

LEMMA AdmitsInv ==
  ASSUME IInv, NEW c \in Clients, NEW j \in Job, Admits(c, j),
         \A k \in Job : k.client = c /\ (Live(k) \/ Held(k) \/ outcome[k] # "none") => k.n < j.n
  PROVE  IInv'
PROOF
  <1> USE DEF IInv
  <1>1. /\ jobs \in Seq(Job) /\ jobs' \in Seq(Job) /\ Len(jobs) \in Nat
        /\ Len(jobs') = Len(jobs) + 1
        /\ \A i \in 1..Len(jobs) : jobs'[i] = jobs[i]
        /\ jobs'[Len(jobs) + 1] = j
    <2>1. jobs \in Seq(Job) /\ jobs' = Append(jobs, j)
      BY DEF TypeOK, Admits
    <2> HIDE DEF IInv
    <2> QED BY <2>1, AppendJob, SMTT(60)
  <1>2. /\ outcome[j] = "none" /\ ~ Live(j) /\ ~ Held(j)
        /\ j.client = c /\ j.n \in 1..MaxOps
    <2>1. j.client = c /\ j.n \in 1..MaxOps
      BY DEF Admits, Job
    <2>2. ~ (j.n < j.n)
      BY <2>1, MaxOpsAssumption
    <2> QED BY <2>1, <2>2
  <1>3. \A k \in Job : InQueue(k)' <=> InQueue(k) \/ k = j
    <2> TAKE k \in Job
    <2>1. InQueue(k)' => InQueue(k) \/ k = j
      BY <1>1 DEF InQueue
    <2>2. InQueue(k) => InQueue(k)'
      BY <1>1 DEF InQueue
    <2>3. k = j => InQueue(k)'
      <3>1. Len(jobs) + 1 \in 1..Len(jobs')
        BY <1>1
      <3> QED BY <1>1, <3>1 DEF InQueue
    <2> QED BY <2>1, <2>2, <2>3
  <1>4. /\ opc' = opc \/ (opc = "jobsWait" /\ opc' = "take")
        /\ opc' # "jobsWait"
        /\ opc \notin Ended /\ opc' \in OwnerPcs
        /\ UNCHANGED <<outcome, current, inflight, doomed, joinVars>>
        /\ lifecycle' \in {"Open", "Closing"}
    BY DEF Admits, WakeOwner, OwnerInv, Terminal, TypeOK, OwnerPcs
  <1>5. /\ job' = [job EXCEPT ![c] = j]
        /\ \A d \in Clients \ {c} : pc'[d] = pc[d] \/ (pc[d] = "capWait" /\ pc'[d] = "woken")
        /\ pc'[c] = AfterAdmission(j)
        /\ lifecycle' = "Open" \/ \A d \in Clients : pc'[d] # "capWait"
        /\ pc' \in [Clients -> ClientPcs]
    BY DEF Admits, AfterAdmission, ClientPcs
  <1>6. \A k \in Job : Live(k)' <=> Live(k) \/ k = j
    BY <1>3, <1>4 DEF Live, InDoomed, IsActive, Unsettled
  <1>7. \A k \in Job : (Held(k)' <=> Held(k)) /\ (Rescued(k)' <=> Rescued(k))
    BY <1>4 DEF Held, Rescued
  <1>8. TypeOK'
    <2>1. job' \in [Clients -> [client : Clients, n : 0..MaxOps, kind : Kinds]]
      BY <1>5, JobIsRecord DEF TypeOK
    <2> QED BY <1>1, <1>4, <1>5, <2>1 DEF TypeOK, joinVars
  <1>9. OwnerInv'
    BY <1>4 DEF OwnerInv, Unsettled, Tracked, Ended, Terminal
  <1>10. NoLostWakeup'
    BY <1>1, <1>4, <1>5, CapacityAssumption DEF NoLostWakeup, AfterAdmission, TypeOK, Admits
  <1>11. ClientInv'
    BY <1>2, <1>4, <1>5, <1>6, <1>7
    DEF ClientInv, AfterAdmission, Waiting, TypeOK
  <1>12. FreshInv'
    <2> SUFFICES ASSUME NEW k \in Job, Live(k)' \/ Held(k)' \/ outcome'[k] # "none"
                 PROVE  /\ k.n <= job'[k.client].n
                        /\ pc'[k.client] \in {"capWait", "woken"} => k.n < job'[k.client].n
      BY DEF FreshInv
    <2>1. k.client \in Clients /\ k.n \in Nat /\ j.n \in Nat
      BY JobFields
    <2>2. CASE k = j
      BY <2>1, <2>2, <1>2, <1>5 DEF AfterAdmission, TypeOK
    <2>3. CASE k # j
      <3>1. Live(k) \/ Held(k) \/ outcome[k] # "none"
        BY <2>3, <1>4, <1>6, <1>7
      <3>2. CASE k.client = c
        BY <3>1, <3>2, <2>1, <1>5 DEF AfterAdmission, TypeOK
      <3>3. CASE k.client # c
        BY <3>1, <3>3, <2>1, <1>5 DEF FreshInv, TypeOK
      <3> QED BY <3>2, <3>3
    <2> QED BY <2>2, <2>3
  <1>13. LiveInv'
    BY <1>2, <1>4, <1>6 DEF LiveInv
  <1>14. DistinctInv'
    <2>1. ~ InQueue(j)
      BY <1>2 DEF Live
    <2>2. \A i, k \in 1..Len(jobs') : jobs'[i] = jobs'[k] => i = k
      <3> SUFFICES ASSUME NEW i \in 1..Len(jobs'), NEW k \in 1..Len(jobs'), jobs'[i] = jobs'[k]
                   PROVE  i = k
        OBVIOUS
      <3>1. CASE i \in 1..Len(jobs) /\ k \in 1..Len(jobs)
        BY <3>1, <1>1 DEF DistinctInv
      <3>2. CASE i = Len(jobs) + 1 \/ k = Len(jobs) + 1
        BY <3>2, <1>1, <2>1 DEF InQueue
      <3> QED BY <3>1, <3>2, <1>1
    <2>3. opc' \in Unsettled \cup Tracked => ~ InQueue(current)'
      <3>1. opc' \in Unsettled \cup Tracked => opc = opc' /\ current \in Job /\ current # j
        BY <1>2, <1>4 DEF Live, IsActive, Held, OwnerInv, Unsettled, Tracked
      <3> QED BY <3>1, <1>3, <1>4 DEF DistinctInv, InQueue
    <2>4. opc' = "escaped" => ~ InQueue(inflight)'
      BY <1>2, <1>3, <1>4 DEF Held, OwnerInv, DistinctInv, InQueue
    <2> QED BY <2>2, <2>3, <2>4, <1>4 DEF DistinctInv
  <1> QED BY <1>8, <1>9, <1>10, <1>11, <1>12, <1>13, <1>14

\* A refused or waiting attempt with an unused job changes the client alone.
LEMMA RefusedInv ==
  ASSUME IInv, NEW c \in Clients, NEW j \in Job, j.client = c,
         job' = [job EXCEPT ![c] = j],
         \/ pc' = [pc EXCEPT ![c] = "idle"]
         \/ /\ pc' = [pc EXCEPT ![c] = "capWait"]
            /\ lifecycle = "Open" /\ Len(jobs) >= Capacity,
         \A k \in Job : k.client = c /\ (Live(k) \/ Held(k) \/ outcome[k] # "none") => k.n < j.n,
         UNCHANGED <<lifecycle, jobs, opc, admitted, outcome, current, inflight, doomed,
                     handled, joinVars>>
  PROVE  IInv'
PROOF
  <1> USE DEF IInv
  <1>1. \A k \in Job : /\ Live(k)' <=> Live(k)
                       /\ Held(k)' <=> Held(k)
                       /\ Rescued(k)' <=> Rescued(k)
    BY DEF Live, Held, Rescued, InQueue, InDoomed, IsActive
  <1>2. TypeOK'
    <2>1. job' \in [Clients -> [client : Clients, n : 0..MaxOps, kind : Kinds]]
      BY JobIsRecord DEF TypeOK
    <2>2. pc' \in [Clients -> ClientPcs]
      BY DEF TypeOK, ClientPcs
    <2> QED BY <2>1, <2>2 DEF TypeOK, joinVars
  <1>3. OwnerInv' /\ LiveInv' /\ DistinctInv'
    <2>1. OwnerInv' /\ LiveInv'
      BY <1>1 DEF OwnerInv, LiveInv
    <2>2. DistinctInv'
      BY DEF DistinctInv, InQueue
    <2> QED BY <2>1, <2>2
  <1>4. NoLostWakeup'
    BY DEF NoLostWakeup, TypeOK
  <1>5. ClientInv'
    BY <1>1 DEF ClientInv, Waiting, TypeOK
  <1>6. FreshInv'
    <2> SUFFICES ASSUME NEW k \in Job, Live(k) \/ Held(k) \/ outcome[k] # "none"
                 PROVE  /\ k.n <= job'[k.client].n
                        /\ pc'[k.client] \in {"capWait", "woken"} => k.n < job'[k.client].n
      BY <1>1 DEF FreshInv
    <2>1. k.client \in Clients /\ k.n \in Nat /\ j.n \in Nat
      BY JobFields
    <2>2. CASE k.client = c
      BY <2>1, <2>2 DEF TypeOK
    <2>3. CASE k.client # c
      BY <2>1, <2>3 DEF TypeOK, FreshInv
    <2> QED BY <2>2, <2>3
  <1> QED BY <1>2, <1>3, <1>4, <1>5, <1>6

LEMMA EnqueueInv ==
  ASSUME IInv, NEW c \in Clients, NEW j \in Job, j.client = c, enqueue(c, j),
         \A k \in Job : k.client = c /\ (Live(k) \/ Held(k) \/ outcome[k] # "none") => k.n < j.n
  PROVE  IInv'
PROOF
  <1>1. CASE lifecycle = "Open" /\ Len(jobs) < Capacity
    <2>1. pc \in [Clients -> ClientPcs] /\ Len(jobs) \in Nat
      BY DEF IInv, TypeOK
    <2>2. /\ jobs' = Append(jobs, j) /\ WakeOwner
          /\ pc' = [pc EXCEPT ![c] = AfterAdmission(j)]
          /\ job' = [job EXCEPT ![c] = j]
          /\ UNCHANGED <<lifecycle, outcome, current, inflight, doomed, handled, joinVars>>
      BY <1>1, <2>1, CapacityAssumption DEF enqueue, Added
    <2>3. Admits(c, j)
      BY <1>1, <2>1, <2>2 DEF Admits
    <2> QED BY <2>3, AdmitsInv
  <1>2. CASE ~ (lifecycle = "Open" /\ Len(jobs) < Capacity)
    <2>1. /\ job' = [job EXCEPT ![c] = j]
          /\ \/ pc' = [pc EXCEPT ![c] = "idle"]
             \/ /\ pc' = [pc EXCEPT ![c] = "capWait"]
                /\ lifecycle = "Open" /\ Len(jobs) >= Capacity
          /\ UNCHANGED <<lifecycle, jobs, opc, admitted, outcome, current, inflight, doomed,
                          handled, joinVars>>
      BY <1>2 DEF enqueue
    <2> QED BY <2>1, RefusedInv
  <1> QED BY <1>1, <1>2

\* A job with the next number is unused.
LEMMA NewJobFacts ==
  ASSUME IInv, NEW c \in Clients, job[c].n < MaxOps, NEW kind \in Kinds
  PROVE  /\ NewJob(c, kind) \in Job
         /\ NewJob(c, kind).client = c
         /\ \A k \in Job : k.client = c /\ (Live(k) \/ Held(k) \/ outcome[k] # "none")
                => k.n < NewJob(c, kind).n
PROOF
  <1>1. job[c].n \in Nat /\ job[c].n + 1 \in 1..MaxOps
    BY MaxOpsAssumption DEF IInv, TypeOK
  <1>2. \A k \in Job : k.n \in Nat
    BY MaxOpsAssumption DEF Job
  <1> QED BY <1>1, <1>2 DEF NewJob, Job, IInv, FreshInv

LEMMA SubmitInv ==
  ASSUME IInv, NEW c \in Clients, NEW kind \in Kinds, Submit(c, kind)
  PROVE  IInv'
  BY NewJobFacts, EnqueueInv DEF Submit

LEMMA RetryInv ==
  ASSUME IInv, NEW c \in Clients, Retry(c)
  PROVE  IInv'
PROOF
  <1>1. /\ job[c] \in Job /\ job[c].client = c
        /\ \A k \in Job : k.client = c /\ (Live(k) \/ Held(k) \/ outcome[k] # "none")
               => k.n < job[c].n
    BY DEF Retry, IInv, ClientInv, FreshInv
  <1> QED BY <1>1, EnqueueInv DEF Retry

LEMMA SubmitAndCloseInv ==
  ASSUME IInv, NEW c \in Clients, SubmitAndClose(c)
  PROVE  IInv'
PROOF
  <1> DEFINE j == NewJob(c, "final")
  <1>1. /\ j \in Job /\ j.client = c
        /\ \A k \in Job : k.client = c /\ (Live(k) \/ Held(k) \/ outcome[k] # "none") => k.n < j.n
    <2>1. job[c].n < MaxOps /\ "final" \in Kinds
      BY DEF SubmitAndClose, Kinds
    <2> QED BY <2>1, NewJobFacts
  <1>2. HasReply(j)
    BY DEF HasReply, NewJob
  <1>3. CASE lifecycle = "Open"
    <2>1. /\ jobs' = Append(jobs, j) /\ WakeOwner /\ lifecycle' = "Closing"
          /\ pc' = [WakeCapacity(pc) EXCEPT ![c] = AfterAdmission(j)]
          /\ job' = [job EXCEPT ![c] = j]
          /\ UNCHANGED <<outcome, current, inflight, doomed, handled, joinVars>>
      BY <1>2, <1>3 DEF SubmitAndClose, Added, Closed, AfterAdmission
    <2>2. /\ WakeCapacity(pc) \in [Clients -> ClientPcs]
          /\ \A d \in Clients : /\ WakeCapacity(pc)[d] = pc[d]
                                  \/ (pc[d] = "capWait" /\ WakeCapacity(pc)[d] = "woken")
                               /\ WakeCapacity(pc)[d] # "capWait"
      BY DEF WakeCapacity, IInv, TypeOK, ClientPcs
    <2>3. Admits(c, j)
      BY <1>1, <1>3, <2>1, <2>2 DEF Admits
    <2> HIDE DEF j
    <2> QED BY <1>1, <2>3, AdmitsInv
  <1>4. CASE lifecycle # "Open"
    <2>1. /\ job' = [job EXCEPT ![c] = j]
          /\ pc' = [pc EXCEPT ![c] = "idle"]
          /\ UNCHANGED <<lifecycle, jobs, opc, admitted, outcome, current, inflight, doomed,
                          handled, joinVars>>
      BY <1>4 DEF SubmitAndClose, IInv, TypeOK
    <2> HIDE DEF j
    <2> QED BY <1>1, <2>1, RefusedInv
  <1> QED BY <1>3, <1>4

-----------------------------------------------------------------------------
(* The theorems *)

LEMMA NextInv ==
  ASSUME WindowClosed, IInv, [Next]_vars
  PROVE  IInv'
PROOF
  <1>1. CASE OwnerNext
    BY <1>1, TakeInv, TrackInv, HandlerEndsInv, SettleCurrentInv, UntrackInv,
       FailProcessorInv, FailJobInv, OwnerExitInv, EscapedInv DEF OwnerNext
  <1>2. CASE AsyncException BY <1>2, AsyncInv
  <1>3. CASE SpuriousOwner BY <1>3, SpuriousOwnerInv
  <1>4. ASSUME NEW c \in Clients,
               \/ Submit(c, "post") \/ Submit(c, "call") \/ SubmitAndClose(c)
               \/ close(c) \/ JoinLock(c) \/ ClientWaits(c) \/ SpuriousClient(c)
        PROVE  IInv'
    <2>1. "post" \in Kinds /\ "call" \in Kinds BY DEF Kinds
    <2> QED BY <1>4, <2>1, SubmitInv, SubmitAndCloseInv, CloseInv, JoinLockInv, RetryInv,
          AwaitReplyInv, JoinReturnInv, SpuriousClientInv DEF ClientWaits
  <1>5. CASE UNCHANGED vars
    <2>1. UNCHANGED <<lifecycle, jobs, outcome, opc, current, inflight, doomed, pc, job,
                      joinHolder, joined>>
      BY <1>5 DEF vars
    <2>2. \A j \in Job : (Live(j)' <=> Live(j)) /\ (Held(j)' <=> Held(j))
                        /\ (Rescued(j)' <=> Rescued(j))
      BY <2>1 DEF Live, Held, Rescued, InQueue, InDoomed, IsActive
    <2>3. TypeOK' /\ OwnerInv' /\ NoLostWakeup'
      BY <2>1 DEF IInv, TypeOK, OwnerInv, NoLostWakeup
    <2>4. ClientInv'
      BY <2>1, <2>2 DEF IInv, ClientInv, Waiting
    <2>5. FreshInv' /\ LiveInv'
      BY <2>1, <2>2 DEF IInv, FreshInv, LiveInv
    <2>6. DistinctInv'
      BY <2>1 DEF IInv, DistinctInv, InQueue
    <2> QED BY <2>3, <2>4, <2>5, <2>6 DEF IInv
  <1> QED BY <1>1, <1>2, <1>3, <1>4, <1>5 DEF Next

\* The inductive invariant holds in every reachable state.
THEOREM Invariance ==
  ASSUME WindowClosed
  PROVE  Spec => []IInv
  BY WindowClosed, InitInv, NextInv, PTL DEF Spec

\* The variables of the processor keep their types.
THEOREM TypeCorrect ==
  ASSUME WindowClosed
  PROVE  Spec => []TypeOK
PROOF
  <1>1. IInv => TypeOK BY DEF IInv
  <1> QED BY <1>1, Invariance, PTL

\* No thread of the processor sleeps on a predicate that has become false: every
\* critical section that falsifies one signals its condition variable.
THEOREM WakeupsNotLost ==
  ASSUME WindowClosed
  PROVE  Spec => []NoLostWakeup
PROOF
  <1>1. IInv => NoLostWakeup BY DEF IInv
  <1> QED BY <1>1, Invariance, PTL

\* When the owner Domain has ended, for whatever reason, the lifecycle is terminal,
\* the queue is empty and every caller that still waits has its outcome.
THEOREM CallersNotStranded ==
  ASSUME WindowClosed
  PROVE  Spec => []NoStrandedCaller
PROOF
  <1>1. IInv => NoStrandedCaller
    <2> SUFFICES ASSUME IInv, opc = "exited"
                 PROVE  /\ lifecycle \in Terminal /\ jobs = <<>>
                        /\ \A c \in Clients : pc[c] \in Waiting => outcome[job[c]] # "none"
      BY DEF NoStrandedCaller, Waiting
    <2>1. lifecycle \in Terminal /\ jobs = <<>> /\ doomed = <<>>
      BY DEF IInv, OwnerInv, Ended
    <2>2. \A j : ~ Live(j) /\ ~ Rescued(j)
      BY <2>1 DEF Live, Rescued, InQueue, InDoomed, IsActive, Unsettled
    <2> QED BY <2>1, <2>2 DEF IInv, ClientInv
  <1> QED BY <1>1, Invariance, PTL

\* A reply is settled once: an outcome never changes, and settle never raises
\* "mailbox reply settled twice".
THEOREM RepliesAreOneShot ==
  ASSUME WindowClosed
  PROVE  Spec => SettledForGood
PROOF
  <1>1. ASSUME IInv, [Next]_vars
        PROVE  [/\ \A j \in Job : outcome[j] # "none" => outcome'[j] = outcome[j]
                /\ opc # "escaped" /\ opc' = "escaped" => AsyncException]_vars
    <2> DEFINE Keeps == \A j \in Job : outcome[j] # "none" => outcome'[j] = outcome[j]
    <2>1. CASE SettleOk \/ SettleErr
      <3>1. current \in Job /\ outcome[current] = "none"
        BY <1>1, <2>1 DEF SettleOk, SettleErr, IInv, OwnerInv, LiveInv, Live, IsActive,
                          Unsettled, Tracked
      <3>2. Keeps
        BY <3>1, <2>1, <1>1 DEF SettleOk, SettleErr, settle, IInv, TypeOK
      <3> QED BY <3>2, <1>1, <2>1, SettleCurrentInv
    <2>2. CASE FailJob
      <3>1. Keeps
        BY <2>2, <1>1 DEF FailJob, settle, IInv, TypeOK
      <3> QED BY <3>1, <1>1, <2>2, FailJobInv
    <2>3. CASE Escaped
      <3>1. Keeps
        BY <2>3, <1>1 DEF Escaped, IInv, TypeOK
      <3> QED BY <3>1, <1>1, <2>3, EscapedInv
    <2>4. CASE Take \/ Track \/ HandlerEnds \/ Untrack \/ FailProcessor \/ OwnerExit
      BY <2>4 DEF Take, Track, HandlerEnds, Untrack, FailProcessor, OwnerExit
    <2>5. CASE AsyncException \/ SpuriousOwner \/ UNCHANGED vars
      BY <2>5 DEF AsyncException, SpuriousOwner, vars
    <2>6. ASSUME NEW c \in Clients,
                 \/ Submit(c, "post") \/ Submit(c, "call") \/ SubmitAndClose(c)
                 \/ close(c) \/ JoinLock(c) \/ ClientWaits(c) \/ SpuriousClient(c)
          PROVE  outcome' = outcome /\ (opc' = "escaped" => opc = "escaped")
      BY <2>6 DEF Submit, enqueue, SubmitAndClose, close, JoinLock, ClientWaits, Retry,
                  AwaitReply, JoinReturn, SpuriousClient, WakeOwner, ownerVars
    <2> QED BY <1>1, <2>1, <2>2, <2>3, <2>4, <2>5, <2>6 DEF Next, OwnerNext
  <1> QED BY <1>1, Invariance, PTL DEF Spec, SettledForGood

====
