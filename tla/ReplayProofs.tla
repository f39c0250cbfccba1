---------------------------- MODULE ReplayProofs ----------------------------
(***************************************************************************)
(* A finalized replay is evidence of a replay, for every set of histories, *)
(* graphs and start requests.                                              *)
(*                                                                         *)
(* While the worker runs, every accepted history that is not answered is   *)
(* in the feeder or is the one that Core works on; so the stream ends only *)
(* when all are answered, and the owner sees the end only after that.      *)
(***************************************************************************)
EXTENDS NativeGraph, TLAPS

Stages  == {"idle", "taken", "working", "evicting", "evicted"}
Streams == [run : Histories \cup {NoHistory}, stage : Stages, cancelled : BOOLEAN, ended : BOOLEAN]

TypedReplay == stream \in Streams /\ queue \in Seq(Histories) /\ accepted \subseteq Histories

OnItsWay(h) == \/ \E i \in DOMAIN queue : queue[i] = h
               \/ stream.run = h /\ stream.stage \in {"taken", "working"}

RunningInv ==
    /\ ~stream.cancelled
    /\ closed => stream.ended
    /\ observed => stream.ended
    /\ call # "none" => stream.ended
    /\ stream.ended => ~input /\ accepted \subseteq answered
    /\ \A h \in accepted \ answered : OnItsWay(h)

UnbornInv == slot = "none" /\ call = "none" /\ closed = FALSE /\ observed = FALSE /\ accepted = {} /\ queue = <<>>

ReplayInv ==
    /\ TypedReplay
    /\ slot = "owned" => fate \in {"running", "disposed"}
    /\ call # "none" => fate \in {"running", "disposed"}
    /\ call = "dispose" => fate = "disposed"
    /\ fate = "unborn" => UnbornInv
    /\ fate = "running" => RunningInv
    /\ FinalizedIsReplayed

\* The inductive invariant holds before the replay worker is started.
LEMMA InitReplayInv == Init => ReplayInv
<1> SUFFICES ASSUME Init PROVE ReplayInv
  OBVIOUS
<1>1. NoStream \in Streams
  BY DEF NoStream, Streams, Stages
<1>2. TypedReplay
  BY <1>1 DEF Init, ReplayInit, TypedReplay
<1> QED BY <1>2 DEF Init, ReplayInit, ReplayInv, UnbornInv, FinalizedIsReplayed

\* A history on its way stays so unless it is the one that is completed.
LEMMA AdvancedStream ==
    ASSUME stream \in Streams, NEW h
    PROVE  /\ Advanced(h) \in Streams
           /\ Advanced(h).cancelled = stream.cancelled /\ Advanced(h).ended = stream.ended
           /\ \A k \in Histories : /\ stream.run = k /\ stream.stage \in {"taken", "working"}
                                   /\ ~(h = k /\ stream.stage = "working")
                                   => Advanced(h).run = k /\ Advanced(h).stage \in {"taken", "working"}
<1>1. CASE stream.run # h
  BY <1>1 DEF Advanced
<1>2. CASE stream.run = h /\ stream.stage = "working"
  <2>1. Advanced(h) = [stream EXCEPT !.stage = "evicting"]
    BY <1>2 DEF Advanced
  <2>2. Advanced(h) \in Streams
    BY <2>1 DEF Streams, Stages
  <2>3. /\ Advanced(h).cancelled = stream.cancelled /\ Advanced(h).ended = stream.ended
    BY <2>1 DEF Streams, Stages
  <2> QED BY <1>2, <2>2, <2>3
<1>3. CASE stream.run = h /\ stream.stage = "evicted"
  <2>1. Advanced(h) = [stream EXCEPT !.run = NoHistory, !.stage = "idle"]
    BY <1>3 DEF Advanced, Idle
  <2>2. Advanced(h) \in Streams
    BY <2>1 DEF Streams, Stages
  <2>3. /\ Advanced(h).cancelled = stream.cancelled /\ Advanced(h).ended = stream.ended
    BY <2>1 DEF Streams, Stages
  <2> QED BY <1>3, <2>2, <2>3
<1>4. CASE stream.run = h /\ stream.stage \notin {"working", "evicted"}
  <2>1. Advanced(h) = stream
    BY <1>4 DEF Advanced
  <2> QED BY <2>1
<1> QED BY <1>1, <1>2, <1>3, <1>4

\* Whatever Core makes of a completion of the owner's.
LEMMA ReachesKeeps ==
    ASSUME stream \in Streams, NEW h, NEW outcome, Reaches(h, outcome)
    PROVE  /\ stream' \in Streams
           /\ stream'.cancelled = stream.cancelled /\ stream'.ended = stream.ended
           /\ answered \subseteq answered'
           /\ \A k \in Histories \ answered' :
                stream.run = k /\ stream.stage \in {"taken", "working"}
                  => stream'.run = k /\ stream'.stage \in {"taken", "working"}
<1>1. CASE outcome = "lost"
  BY <1>1 DEF Reaches
<1>2. CASE outcome # "lost"
  <2>1. /\ stream' = Advanced(h)
        /\ answered' = IF stream.run = h /\ stream.stage = "working"
                       THEN answered \cup {h} ELSE answered
    BY <1>2 DEF Reaches
  <2> QED BY <2>1, AdvancedStream
<1> QED BY <1>1, <1>2

\* A new replay worker.
LEMMA StartKeeps == ASSUME ReplayInv, start_replay_worker PROVE ReplayInv'
<1>1. /\ fate = "unborn" /\ fate' = "running" /\ call = "none" /\ stream' = NoStream
      /\ UNCHANGED <<queue, closed, observed, call, accepted, answered>>
  BY DEF start_replay_worker, start_bridge
<1>2. UnbornInv
  BY <1>1 DEF ReplayInv
<1>3. NoStream \in Streams /\ NoStream.cancelled = FALSE /\ NoStream.ended = FALSE
  BY DEF NoStream, Streams, Stages
<1>4. TypedReplay'
  BY <1>1, <1>3 DEF ReplayInv, TypedReplay
<1>5. RunningInv'
  BY <1>1, <1>2, <1>3 DEF RunningInv, UnbornInv
<1> QED BY <1>1, <1>4, <1>5 DEF ReplayInv, FinalizedIsReplayed

\* The calls that change neither the stream nor what was answered.
LEMMA InputKeeps ==
    ASSUME ReplayInv, finish_replay_input \/ wait_replay_workflow \/ finalize_replay
    PROVE  ReplayInv'
<1>1. /\ fate' = fate /\ fate \in {"running", "disposed"} /\ slot' = slot /\ (input' => input)
      /\ UNCHANGED <<stream, queue, closed, accepted, answered>>
  BY DEF finish_replay_input, wait_replay_workflow, finalize_replay, Callable, ReplayInv
<1>2. /\ observed' => observed \/ closed
      /\ (call' = call /\ call = "none") \/ (call' = "finalize" /\ observed)
  BY DEF finish_replay_input, wait_replay_workflow, finalize_replay, Callable, wait_workflow,
         ReportsShutdown, Drained
<1>3. TypedReplay'
  BY <1>1 DEF ReplayInv, TypedReplay
<1>4. fate = "running" => RunningInv'
  BY <1>1, <1>2 DEF ReplayInv, RunningInv, OnItsWay
<1> QED BY <1>1, <1>2, <1>3, <1>4 DEF ReplayInv, FinalizedIsReplayed

\* A history that is accepted enters the feeder.
LEMMA FeedKeeps ==
    ASSUME ReplayInv, NEW h \in Histories, feed_replay_history_json(h) PROVE ReplayInv'
<1>1. /\ fate' = fate /\ fate \in {"running", "disposed"} /\ UNCHANGED <<slot, call>> /\ call = "none" /\ input
      /\ UNCHANGED <<stream, closed, observed, input, answered>>
      /\ queue' = Append(queue, h) /\ accepted' = accepted \cup {h}
  BY DEF feed_replay_history_json, feed_json, Callable, ReplayInv
<1>2. queue \in Seq(Histories)
  BY DEF ReplayInv, TypedReplay
<1>3. TypedReplay'
  BY <1>1, <1>2 DEF ReplayInv, TypedReplay
<1>4. DOMAIN queue' = 1..(Len(queue) + 1) /\ queue'[Len(queue) + 1] = h
      /\ \A i \in DOMAIN queue : i \in DOMAIN queue' /\ queue'[i] = queue[i]
  BY <1>1, <1>2
<1>5. Len(queue) + 1 \in DOMAIN queue'
  BY <1>2, <1>4
<1>6. ASSUME fate = "running" PROVE RunningInv'
  <2>1. RunningInv
    BY <1>6 DEF ReplayInv
  <2>2. ~stream.ended
    BY <1>1, <2>1 DEF RunningInv
  <2>3. ASSUME NEW k \in accepted' \ answered' PROVE OnItsWay(k)'
    <3>1. CASE k = h
      BY <1>4, <1>5, <3>1 DEF OnItsWay
    <3>2. CASE k \in accepted
      <4>1. OnItsWay(k)
        BY <1>1, <2>1, <2>3, <3>2 DEF RunningInv
      <4> QED BY <1>1, <1>4, <4>1 DEF OnItsWay
    <3> QED BY <1>1, <2>3, <3>1, <3>2
  <2> QED BY <1>1, <2>1, <2>2, <2>3 DEF RunningInv
<1> QED BY <1>1, <1>3, <1>6 DEF ReplayInv, FinalizedIsReplayed

\* The owner takes, completes or rejects an activation.
LEMMA AnswerKeeps ==
    ASSUME ReplayInv, NEW outcome, NEW h,
           \/ try_poll_replay_workflow(outcome)
           \/ complete_replay_workflow(h, outcome)
           \/ reject_replay_workflow(h, outcome)
    PROVE  ReplayInv'
<1>1. /\ fate' = fate /\ fate \in {"running", "disposed"} /\ call = "none"
      /\ UNCHANGED <<slot, call, queue, closed, observed, input, accepted>>
  BY DEF try_poll_replay_workflow, complete_replay_workflow, reject_replay_workflow, Callable, ReplayInv
<1>2. UNCHANGED <<stream, answered>> \/ \E k : Reaches(k, outcome)
  BY DEF try_poll_replay_workflow, complete_replay_workflow, reject_replay_workflow, Retires
<1>3. stream \in Streams
  BY DEF ReplayInv, TypedReplay
<1>4. /\ stream' \in Streams
      /\ stream'.cancelled = stream.cancelled /\ stream'.ended = stream.ended
      /\ answered \subseteq answered'
      /\ \A k \in Histories \ answered' :
           stream.run = k /\ stream.stage \in {"taken", "working"}
             => stream'.run = k /\ stream'.stage \in {"taken", "working"}
  <2>1. CASE UNCHANGED <<stream, answered>>
    BY <1>3, <2>1
  <2>2. ASSUME NEW k, Reaches(k, outcome) PROVE <1>4!:
    BY <1>3, <2>2, ReachesKeeps
  <2> QED BY <1>2, <2>1, <2>2
<1>5. TypedReplay'
  BY <1>1, <1>4 DEF ReplayInv, TypedReplay
<1>6. ASSUME fate = "running" PROVE RunningInv'
  <2>1. RunningInv
    BY <1>6 DEF ReplayInv
  <2>2. ASSUME NEW k \in accepted' \ answered' PROVE OnItsWay(k)'
    <3>1. OnItsWay(k)
      BY <1>1, <1>4, <2>1, <2>2 DEF RunningInv
    <3>2. k \in Histories
      BY <1>1, <2>2 DEF ReplayInv, TypedReplay
    <3> QED BY <1>1, <1>4, <2>2, <3>1, <3>2 DEF OnItsWay
  <2> QED BY <1>1, <1>4, <2>1, <2>2 DEF RunningInv
<1> QED BY <1>1, <1>5, <1>6 DEF ReplayInv, FinalizedIsReplayed

\* The steps of Core and of the poll lane.
LEMMA BackgroundKeeps == ASSUME ReplayInv, ReplayBackground PROVE ReplayInv'
<1>1. /\ fate' = fate /\ fate \in {"running", "disposed"}
      /\ UNCHANGED <<slot, call, observed, input, accepted, answered>>
  BY DEF ReplayBackground, CoreTakes, CoreEnds, LanePublishes, LaneStops, ReplayInv
<1>2. /\ stream \in Streams /\ queue \in Seq(Histories) /\ accepted \subseteq Histories
      /\ DOMAIN stream = {"run", "stage", "cancelled", "ended"}
  BY DEF ReplayInv, TypedReplay, Streams
<1>3. CASE CoreTakes
  <2>1. /\ queue # <<>> /\ queue' = Tail(queue) /\ closed' = closed /\ stream.stage = "idle"
        /\ stream' = [stream EXCEPT !.run = Head(queue), !.stage = "taken"]
    BY <1>3 DEF CoreTakes
  <2>2. /\ Head(queue) \in Histories /\ Head(queue) = queue[1] /\ queue' \in Seq(Histories)
        /\ \A i \in DOMAIN queue : i = 1 \/ (i - 1 \in DOMAIN queue' /\ queue'[i - 1] = queue[i])
    BY <1>2, <2>1
  <2>3. /\ stream' \in Streams /\ stream'.run = Head(queue) /\ stream'.stage = "taken"
        /\ stream'.cancelled = stream.cancelled /\ stream'.ended = stream.ended
    BY <1>2, <2>1, <2>2 DEF Streams, Stages
  <2>4. ASSUME fate = "running" PROVE RunningInv'
    <3>1. RunningInv
      BY <2>4 DEF ReplayInv
    <3>2. ASSUME NEW k \in accepted' \ answered' PROVE OnItsWay(k)'
      <4>1. OnItsWay(k)
        BY <1>1, <3>1, <3>2 DEF RunningInv
      <4>2. PICK i \in DOMAIN queue : queue[i] = k
        BY <2>1, <4>1 DEF OnItsWay
      <4>3. CASE i = 1
        BY <2>2, <2>3, <4>2, <4>3 DEF OnItsWay
      <4>4. CASE i - 1 \in DOMAIN queue' /\ queue'[i - 1] = queue[i]
        BY <4>2, <4>4 DEF OnItsWay
      <4> QED BY <2>2, <4>3, <4>4
    <3> QED BY <1>1, <2>1, <2>3, <3>1, <3>2 DEF RunningInv
  <2>5. TypedReplay'
    BY <1>1, <1>2, <2>2, <2>3 DEF TypedReplay
  <2> QED BY <1>1, <2>4, <2>5 DEF ReplayInv, FinalizedIsReplayed
<1>4. CASE CoreEnds
  <2>1. /\ queue' = <<>> /\ closed' = closed
        /\ \/ stream.cancelled
           \/ ~input /\ queue = <<>> /\ stream.stage \in {"idle", "evicted"}
        /\ stream' = [[stream EXCEPT !.run = NoHistory, !.stage = "idle"] EXCEPT !.ended = TRUE]
    BY <1>4 DEF CoreEnds, Idle
  <2>2. stream' \in Streams /\ stream'.cancelled = stream.cancelled /\ stream'.ended = TRUE
    BY <1>2, <2>1 DEF Streams, Stages
  <2>3. ASSUME fate = "running" PROVE RunningInv'
    <3>1. RunningInv
      BY <2>3 DEF ReplayInv
    <3>2. ~input /\ queue = <<>> /\ stream.stage \notin {"taken", "working"}
      BY <2>1, <3>1 DEF RunningInv
    <3>3. accepted \subseteq answered
      BY <3>1, <3>2 DEF RunningInv, OnItsWay
    <3> QED BY <1>1, <2>1, <2>2, <3>1, <3>2, <3>3 DEF RunningInv
  <2>4. TypedReplay'
    BY <1>1, <1>2, <2>1, <2>2 DEF TypedReplay
  <2> QED BY <1>1, <2>3, <2>4 DEF ReplayInv, FinalizedIsReplayed
<1>5. CASE LanePublishes
  <2>1. /\ UNCHANGED <<queue, closed>>
        /\ stream' = [stream EXCEPT !.stage = IF @ = "taken" THEN "working" ELSE "evicted"]
        /\ stream.stage \in {"taken", "evicting"}
    BY <1>5 DEF LanePublishes
  <2>2. /\ stream' \in Streams /\ stream'.cancelled = stream.cancelled
        /\ stream'.ended = stream.ended /\ stream'.run = stream.run
        /\ stream.stage = "taken" => stream'.stage = "working"
    BY <1>2, <2>1 DEF Streams, Stages
  <2>3. ASSUME fate = "running" PROVE RunningInv'
    <3>1. RunningInv
      BY <2>3 DEF ReplayInv
    <3>2. ASSUME NEW k \in accepted' \ answered' PROVE OnItsWay(k)'
      <4>1. OnItsWay(k)
        BY <1>1, <3>1, <3>2 DEF RunningInv
      <4> QED BY <2>1, <2>2, <4>1 DEF OnItsWay
    <3> QED BY <1>1, <2>1, <2>2, <3>1, <3>2 DEF RunningInv
  <2>4. TypedReplay'
    BY <1>1, <1>2, <2>1, <2>2 DEF TypedReplay
  <2> QED BY <1>1, <2>3, <2>4 DEF ReplayInv, FinalizedIsReplayed
<1>6. CASE LaneStops
  <2>1. UNCHANGED <<queue, stream>> /\ (closed' = closed \/ stream.ended)
    BY <1>6 DEF LaneStops
  <2>2. TypedReplay'
    BY <1>1, <1>2, <2>1 DEF TypedReplay
  <2>3. fate = "running" => RunningInv'
    BY <1>1, <2>1 DEF ReplayInv, RunningInv, OnItsWay
  <2> QED BY <1>1, <2>2, <2>3 DEF ReplayInv, FinalizedIsReplayed
<1> QED BY <1>3, <1>4, <1>5, <1>6 DEF ReplayBackground

\* What the bridge acknowledges in the place of the owner.
LEMMA AbandonsKeeps ==
    ASSUME stream \in Streams, NEW cancel \in BOOLEAN, Abandons(cancel) PROVE stream' \in Streams
<1>1. PICK s \in Streams : stream' = [s EXCEPT !.cancelled = @ \/ cancel]
  BY AdvancedStream DEF Abandons
<1> QED BY <1>1 DEF Streams

\* A disposal.
LEMMA DisposeKeeps == ASSUME ReplayInv, dispose PROVE ReplayInv'
<1>1. stream \in Streams /\ queue \in Seq(Histories) /\ accepted \subseteq Histories
  BY DEF ReplayInv, TypedReplay
<1>2. CASE Gone("leaked")
  <2>1. /\ slot' = "none" /\ call' = "none" /\ fate' = "leaked"
        /\ queue' = <<>> /\ stream' = NoStream /\ accepted' = accepted
    BY <1>2 DEF Gone
  <2>2. TypedReplay'
    BY <1>1, <2>1 DEF TypedReplay, NoStream, Streams, Stages
  <2> QED BY <2>1, <2>2 DEF ReplayInv, FinalizedIsReplayed
<1>3. CASE ~leaks
  <2>1. /\ fate' = "disposed" /\ call' = "dispose" /\ Abandons(TRUE)
        /\ UNCHANGED <<queue, accepted>>
    BY <1>3 DEF dispose
  <2>2. TypedReplay'
    BY <1>1, <2>1, AbandonsKeeps DEF TypedReplay
  <2> QED BY <2>1, <2>2 DEF ReplayInv, FinalizedIsReplayed
<1> QED BY <1>2, <1>3 DEF dispose

\* The steps of a finalize or dispose in progress.
LEMMA CallsKeep == ASSUME ReplayInv, CallSteps PROVE ReplayInv'
<1>1. stream \in Streams /\ queue \in Seq(Histories) /\ accepted \subseteq Histories
  BY DEF ReplayInv, TypedReplay
<1>2. /\ fate \in {"running", "disposed"} /\ call # "none"
      /\ fate = "running" => RunningInv /\ call # "dispose" /\ stream.ended
  BY DEF CallSteps, JoinDrains, JoinsNothing, CoreFinalizes, Join, Joining, ReplayInv, RunningInv
<1>3. CASE JoinDrains
  <2>1. /\ stream' = Advanced(Head(ready))
        /\ UNCHANGED <<slot, queue, fate, call, closed, observed, input, accepted, answered>>
    BY <1>3 DEF JoinDrains
  <2>2. stream' \in Streams /\ stream'.cancelled = stream.cancelled /\ stream'.ended = stream.ended
    BY <1>1, <2>1, AdvancedStream
  <2>3. TypedReplay'
    BY <1>1, <2>1, <2>2 DEF TypedReplay
  <2>4. fate = "running" => RunningInv'
    BY <1>2, <2>1, <2>2 DEF RunningInv
  <2> QED BY <1>2, <2>1, <2>3, <2>4 DEF ReplayInv, FinalizedIsReplayed
<1>4. CASE JoinsNothing
  <2>1. /\ call' = "core"
        /\ UNCHANGED <<slot, queue, fate, closed, observed, input, accepted, answered>>
        /\ (call = "dispose" /\ Abandons(FALSE)) \/ (call # "dispose" /\ UNCHANGED stream)
    BY <1>4 DEF JoinsNothing
  <2>2. stream' \in Streams
    BY <1>1, <2>1, AbandonsKeeps
  <2>3. TypedReplay'
    BY <1>1, <2>1, <2>2 DEF TypedReplay
  <2>4. fate = "running" => RunningInv'
    BY <1>2, <2>1, <2>2 DEF RunningInv
  <2> QED BY <1>2, <2>1, <2>3, <2>4 DEF ReplayInv, FinalizedIsReplayed
<1>5. ASSUME NEW how, Join(how) PROVE ReplayInv'
  <2>1. UNCHANGED <<slot, queue, observed, input, accepted, answered>>
    BY <1>5 DEF Join
  <2>2. \/ /\ call' = "core" /\ UNCHANGED <<fate, closed>>
           /\ (call = "dispose" /\ Abandons(FALSE)) \/ (call # "dispose" /\ UNCHANGED stream)
        \/ /\ call' = "none"
           /\ \/ call = "finalize" /\ Abandons(TRUE) /\ fate' = "disposed"
              \/ call # "finalize" /\ UNCHANGED <<stream, closed, fate>>
    BY <1>5 DEF Join
  <2>3. stream' \in Streams
    BY <1>1, <2>2, AbandonsKeeps
  <2>4. TypedReplay'
    BY <1>1, <2>1, <2>3 DEF TypedReplay
  <2>5. fate' \in {"running", "disposed"} /\ (fate' = "running" => fate = "running")
    BY <1>2, <2>2
  <2>6. ASSUME fate' = "running" PROVE RunningInv'
    <3>1. RunningInv /\ stream.ended /\ UNCHANGED <<stream, closed>>
      BY <1>2, <2>2, <2>5, <2>6
    <3> QED BY <2>1, <3>1 DEF RunningInv
  <2> QED BY <2>1, <2>2, <2>4, <2>5, <2>6 DEF ReplayInv, FinalizedIsReplayed
<1>6. CASE CoreFinalizes
  <2>1. /\ fate' = IF fate = "disposed" THEN "abandoned" ELSE "finalized"
        /\ slot' = "none" /\ call' = "none" /\ queue' = <<>> /\ stream' = NoStream
        /\ UNCHANGED <<accepted, answered>>
    BY <1>6 DEF CoreFinalizes, Gone
  <2>2. TypedReplay'
    BY <1>1, <2>1 DEF TypedReplay, NoStream, Streams, Stages
  <2>3. fate = "running" => accepted \subseteq answered
    BY <1>2 DEF RunningInv
  <2> QED BY <1>2, <2>1, <2>2, <2>3 DEF ReplayInv, FinalizedIsReplayed
<1> QED BY <1>3, <1>4, <1>5, <1>6 DEF CallSteps

\* The inductive invariant is preserved by every step.
LEMMA NextKeepsReplayInv == ReplayInv /\ [Next]_vars => ReplayInv'
<1> SUFFICES ASSUME ReplayInv, [Next]_vars PROVE ReplayInv'
  OBVIOUS
<1>1. CASE UNCHANGED replayVars
  <2>1. UNCHANGED <<slot, input, queue, stream, closed, observed, call, accepted, answered, fate>>
    BY <1>1 DEF replayVars
  <2> QED BY <2>1 DEF ReplayInv, TypedReplay, UnbornInv, RunningInv, OnItsWay, FinalizedIsReplayed
<1>2. CASE OwnerReplays
  <2> QED BY <1>2, StartKeeps, InputKeeps, FeedKeeps, AnswerKeeps, DisposeKeeps
          DEF OwnerReplays, dispose_replay
<1>3. CASE CleanupDisposes
  BY <1>3, DisposeKeeps DEF CleanupDisposes
<1>4. CASE CallSteps
  BY <1>4, CallsKeep
<1>5. CASE ReplayBackground
  BY <1>5, BackgroundKeeps
<1> QED BY <1>1, <1>2, <1>3, <1>4, <1>5
        DEF Next, GraphStep, OwnerStep, CallStep, BackgroundStep, vars

\* finalize_replay of abi.rs and finalize of replay_bridge.rs succeed, for a
\* worker that was not disposed, only when the owner has answered the work of
\* every history that feed_json accepted, however feeding, polling, the lane,
\* lost completions and the closing of the graph interleave.
THEOREM ReplayIsEvidence == Spec => []FinalizedIsReplayed
<1>1. Init => ReplayInv
  BY InitReplayInv
<1>2. ReplayInv /\ [Next]_vars => ReplayInv'
  BY NextKeepsReplayInv
<1>3. ReplayInv => FinalizedIsReplayed
  BY DEF ReplayInv
<1> QED BY <1>1, <1>2, <1>3, PTL DEF Spec
=============================================================================
