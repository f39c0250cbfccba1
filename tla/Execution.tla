------------------------------ MODULE Execution ------------------------------
(***************************************************************************)
(* One workflow execution on its owner Domain: the FIFO fiber scheduler    *)
(* (lib/runtime/scheduler.ml), its one-shot futures (future_store.ml), the *)
(* condition waiters (condition_store.ml), the command buffer and seal of  *)
(* workflow_context_store.ml, and the activation loop that drives them     *)
(* (execution.ml).                                                         *)
(*                                                                         *)
(* Everything here runs on one thread, so the hazard is re-entrancy, not   *)
(* parallelism: a fiber ends the run while the scheduler is draining, the  *)
(* shutdown discontinues parked fibers from inside that fiber, and their   *)
(* cleanup code calls back into the scheduler.  `at' is the control stack: *)
(* which loop is executing, and to which one it returns.                   *)
(*                                                                         *)
(* User code is the nondeterministic choice of what the running fiber does *)
(* next.  A fiber that is being discontinued is a running fiber too: its   *)
(* cleanup handlers may call the same operations, and what stops them is   *)
(* the liveness checks of the operations.                                  *)
(***************************************************************************)
EXTENDS Naturals, Sequences, FiniteSets

CONSTANTS
  Root,            \* the fiber of the workflow implementation
  Handlers,        \* the fibers of signal handlers, one per delivered signal
  MaxFutures,      \* bound on the futures one execution creates
  MaxActivations,  \* bound on the activations Core delivers
  MaxWrites,       \* bound on the changes of the state conditions read
  LateTerminate,   \* whether cleanup code calls continue_as_new after the end
  None             \* no fiber is executing

ASSUME ExecutionAssumption ==
  /\ Root \notin Handlers /\ None \notin Handlers \cup {Root}
  /\ MaxFutures \in Nat /\ MaxActivations \in Nat /\ MaxWrites \in Nat
  /\ LateTerminate \in BOOLEAN

Fibers == {Root} \cup Handlers

\* Futures are numbered in creation order, the order of the teardown ledger.
Futures == 1..MaxFutures

\* "timer" stands for every durable operation Core resolves by its sequence;
\* "scope" is a cancellation signal; "cond" belongs to one condition waiter.
Kinds == {"timer", "scope", "cond"}

\* Buffered commands. "bad" is the Fail_workflow that carries a task failure.
Terminals == {"end", "bad"}
Commands == Terminals \cup {"op", "query"}

Phases == {"idle", "jobs", "drain", "notify", "ran", "final", "fiber",
           "closing", "sweep"}

VARIABLES
  fiber,   \* fiber |-> new, queued, running, suspended, done
  fut,     \* future |-> [st, kind, waiters]
  sch,     \* Scheduler.t: queue, running, active, abort, failed, pending
  ctx,     \* Workflow_context_store.t: timers, conds, sealed, commands
  ex,      \* Execution.t: started, terminal, evicted, poisoned
  at,      \* control: phase, cur, caller, ret, victims, snap
  flag,    \* the workflow state that condition predicates read
  env,     \* the kind of jobs of this activation; the bounds used so far
  ended    \* terminal commands returned to Core so far

vars == <<fiber, fut, sch, ctx, ex, at, flag, env, ended>>

Thunk(t, g) == [t |-> t, g |-> g]

Init ==
  /\ fiber = [g \in Fibers |-> "new"]
  /\ fut = [f \in Futures |-> [st |-> "free", kind |-> "timer", waiters |-> <<>>]]
  /\ sch = [queue |-> <<>>, running |-> FALSE, active |-> TRUE,
            abort |-> FALSE, failed |-> FALSE, pending |-> 0]
  /\ ctx = [timers |-> {}, conds |-> <<>>, sealed |-> FALSE, commands |-> <<>>]
  /\ ex = [started |-> FALSE, terminal |-> FALSE, evicted |-> FALSE,
           poisoned |-> FALSE]
  /\ at = [phase |-> "idle", cur |-> None, caller |-> "drain", ret |-> "idle",
           victims |-> <<>>, snap |-> <<>>]
  /\ flag = FALSE
  /\ env = [activations |-> 0, writes |-> 0, jobs |-> "none"]
  /\ ended = 0

-----------------------------------------------------------------------------
(* Futures and the queue.                                                  *)

FutureIn(st) == {f \in Futures : fut[f].st = st}
Least(S) == CHOOSE f \in S : \A h \in S : f <= h

\* Work submitted after shutdown is discarded.
Enqueue(s, thunks) ==
  IF s.active THEN [s EXCEPT !.queue = @ \o thunks] ELSE s

\* The waiters of a settled future, in the order in which they suspended.
Resumptions(f) ==
  [i \in 1..Len(fut[f].waiters) |-> Thunk("resume", fut[f].waiters[i])]

\* The resolver's effect on the scheduler: one future fewer is pending and its
\* waiters are queued.
Settled(s, f) == Enqueue([s EXCEPT !.pending = @ - 1], Resumptions(f))

\* Mutant: the waiters are queued but not cleared.
WaitersKept(f) == [fut EXCEPT ![f].st = "ready"]

Ready(f) == [fut EXCEPT ![f].st = "ready", ![f].waiters = <<>>]

\* callbacks_live and is_running of the owner: the drain is executing and the
\* scheduler has not been shut down.
Live == sch.running /\ sch.active

Without(s, x) == SelectSeq(s, LAMBDA y : y # x)

-----------------------------------------------------------------------------
(* Shutdown, and the ways of ending a run.                                 *)

HasBufferedTerminal ==
  \E i \in 1..Len(ctx.commands) : ctx.commands[i] \in Terminals

\* Only a query response may be added to a sealed context.
Emit(c) ==
  IF ctx.sealed /\ c # "query" THEN ctx.commands ELSE Append(ctx.commands, c)

\* Control returns to phase r.
Back(r) == at' = [at EXCEPT !.phase = r, !.cur = None]

\* Workflow_context_store.shutdown: seal, drop the condition waiters, and start
\* the teardown loop, which returns to r.  A second shutdown returns at once.
Shutdown(r, commands) ==
  /\ ctx' = [ctx EXCEPT !.sealed = TRUE, !.conds = <<>>, !.commands = commands]
  /\ sch' = [sch EXCEPT !.active = FALSE]
  /\ IF sch.active
     THEN at' = [at EXCEPT !.phase = "closing", !.cur = None, !.ret = r]
     ELSE Back(r)

\* Mutant: a result returned after the abort was caught ends the run again.
EndsTwice == ex.terminal

EndIgnored == ex.terminal \/ HasBufferedTerminal

EmitTerminal(r) ==
  IF EndIgnored
  THEN Back(r) /\ UNCHANGED <<sch, ctx, ex>>
  ELSE /\ ex' = [ex EXCEPT !.terminal = TRUE]
       /\ Shutdown(r, Emit("end"))

PoisonTask(r) ==
  IF ex.poisoned
  THEN Back(r) /\ UNCHANGED <<sch, ctx, ex>>
  ELSE /\ ex' = [ex EXCEPT !.poisoned = TRUE, !.terminal = TRUE]
       /\ Shutdown(r, <<>>)

\* Mutant: only an eviction protects the outcome from cleanup errors.
OnlyEvicted == ~ex.poisoned /\ ex.evicted

\* An error that arrives once the run has ended is logged and dropped.
FailureIgnored ==
  ~ex.poisoned /\ (ex.terminal \/ ex.evicted \/ HasBufferedTerminal)

FailTask(r) ==
  IF FailureIgnored
  THEN Back(r) /\ UNCHANGED <<sch, ctx, ex>>
  ELSE PoisonTask(r)

\* A deliberate failure closes the run; after eviction it is dropped.
Fail(r) == IF ex.evicted THEN FailTask(r) ELSE EmitTerminal(r)

-----------------------------------------------------------------------------
(* The activation: its jobs in order, then the drain, then the commands.   *)

Activate ==
  /\ at.phase = "idle" /\ ~ex.evicted
  /\ env.activations < MaxActivations
  /\ env' = [env EXCEPT !.activations = @ + 1, !.jobs = "none"]
  /\ Back("jobs")
  /\ UNCHANGED <<fiber, fut, sch, ctx, ex, flag, ended>>

\* Jobs other than queries and the eviction are skipped once the run ended.
Job == at.phase = "jobs" /\ ~ex.evicted /\ ~ex.terminal
Worked == env' = [env EXCEPT !.jobs = "work"]

JobStart ==
  /\ Job /\ ~ex.started
  /\ ex' = [ex EXCEPT !.started = TRUE]
  /\ Worked
  /\ UNCHANGED <<fiber, fut, sch, ctx, at, flag, ended>>

\* A handler's root thunk is queued behind the resumptions of earlier jobs.
JobSignal(h) ==
  /\ Job /\ ex.started /\ fiber[h] = "new"
  /\ fiber' = [fiber EXCEPT ![h] = "queued"]
  /\ sch' = Enqueue(sch, <<Thunk("root", h)>>)
  /\ Worked
  /\ UNCHANGED <<fut, ctx, ex, at, flag, ended>>

JobFire(f) ==
  /\ Job /\ f \in ctx.timers
  /\ ctx' = [ctx EXCEPT !.timers = @ \ {f}]
  /\ fut' = Ready(f)
  /\ sch' = Settled(sch, f)
  /\ Worked
  /\ UNCHANGED <<fiber, ex, at, flag, ended>>

\* A duplicate start, an unknown sequence or a signal without a handler.
JobFails ==
  /\ Job /\ ex.started
  /\ FailTask("jobs") /\ Worked
  /\ UNCHANGED <<fiber, fut, flag, ended>>

JobCancel ==
  /\ Job /\ ex.started
  /\ EmitTerminal("jobs") /\ Worked
  /\ UNCHANGED <<fiber, fut, flag, ended>>

\* Queries are answered inline, on a closed execution as well.
JobQuery ==
  /\ at.phase = "jobs" /\ ~ex.evicted /\ ex.started
  /\ \A i \in 1..Len(ctx.commands) : ctx.commands[i] # "query"
  /\ ctx' = [ctx EXCEPT !.commands = Emit("query")]
  /\ env' = [env EXCEPT !.jobs = IF @ = "none" THEN "query" ELSE @]
  /\ UNCHANGED <<fiber, fut, sch, ex, at, flag, ended>>

\* Core sends Remove_from_cache as the only job of its activation.
JobEvict ==
  /\ at.phase = "jobs" /\ ~ex.evicted /\ ex.started /\ env.jobs = "none"
  /\ ex' = [ex EXCEPT !.evicted = TRUE]
  /\ Shutdown("jobs", ctx.commands)
  /\ UNCHANGED <<fiber, fut, flag, env, ended>>

\* The root is queued after the handlers of the activation that starts it.
StartRun ==
  LET new == ex.started /\ fiber[Root] = "new"
      s == IF new THEN Enqueue(sch, <<Thunk("root", Root)>>) ELSE sch
  IN /\ at.phase = "jobs" /\ env.jobs = "work" /\ ~ex.evicted /\ ~ex.terminal
     /\ fiber' = IF new THEN [fiber EXCEPT ![Root] = "queued"] ELSE fiber
     /\ sch' = [s EXCEPT !.running = TRUE, !.abort = FALSE]
     /\ Back("drain")
     /\ UNCHANGED <<fut, ctx, ex, flag, env, ended>>

\* A query-only activation and an ended run do not enter the scheduler.
SkipRun ==
  /\ at.phase = "jobs"
  /\ ex.evicted \/ ex.terminal \/ env.jobs = "query"
  /\ Back(IF ex.evicted THEN "idle" ELSE "final")
  /\ UNCHANGED <<fiber, fut, sch, ctx, ex, flag, env, ended>>

\* Takes the batch; a terminal command in it seals the run.
Finalize ==
  LET has(T) == \E i \in 1..Len(ctx.commands) : ctx.commands[i] \in T
  IN /\ at.phase = "final"
     /\ IF has({"bad"})
        THEN PoisonTask("idle") /\ UNCHANGED ended
        ELSE IF has({"end"})
        THEN /\ ex' = [ex EXCEPT !.terminal = TRUE]
             /\ Shutdown("idle", <<>>)
             /\ ended' = ended + 1
        ELSE /\ ctx' = [ctx EXCEPT !.commands = <<>>]
             /\ Back("idle")
             /\ UNCHANGED <<sch, ex, ended>>
     /\ UNCHANGED <<fiber, fut, flag, env>>

-----------------------------------------------------------------------------
(* The drain, its idle checks, and the teardown loop.                      *)

\* A thunk is invoked: a fiber starts, resumes, or is discontinued.  A root
\* thunk is inert after shutdown.
Invoke(thunk, loop) ==
  LET g == thunk.g
      inert == thunk.t = "root" /\ ~sch.active
  IN /\ fiber' = [fiber EXCEPT ![g] = IF inert THEN "done" ELSE "running"]
     /\ at' = IF inert THEN at
              ELSE [at EXCEPT !.phase = "fiber", !.cur = g, !.caller = loop]

Drain ==
  /\ at.phase = "drain" /\ sch.queue # <<>> /\ ~sch.abort
  /\ sch' = [sch EXCEPT !.queue = Tail(@)]
  /\ Invoke(Head(sch.queue), "drain")
  /\ UNCHANGED <<fut, ctx, ex, flag, env, ended>>

\* Mutant: conditions are rechecked only when nothing else is pending.
OnlyConditions ==
  /\ sch.active /\ ~sch.abort /\ ~sch.failed
  /\ ~(ex.terminal \/ ex.evicted \/ HasBufferedTerminal)
  /\ sch.pending = Len(ctx.conds)

\* The idle callback runs while the drain is still live.
MayNotify ==
  /\ sch.active /\ ~sch.abort /\ ~sch.failed
  /\ ~(ex.terminal \/ ex.evicted \/ HasBufferedTerminal)

Stopped == [sch EXCEPT !.running = FALSE]

DrainIdle ==
  /\ at.phase = "drain" /\ (sch.queue = <<>> \/ sch.abort)
  /\ IF MayNotify
     THEN at' = [at EXCEPT !.phase = "notify", !.snap = ctx.conds] /\ UNCHANGED sch
     ELSE Back("ran") /\ sch' = Stopped
  /\ UNCHANGED <<fiber, fut, ctx, ex, flag, env, ended>>

\* One waiter of the snapshot: removed before its future is resolved.
Notify ==
  /\ at.phase = "notify" /\ at.snap # <<>>
  /\ at' = [at EXCEPT !.snap = Tail(@)]
  /\ LET f == Head(at.snap)
     IN IF flag
        THEN /\ ctx' = [ctx EXCEPT !.conds = Without(@, f)]
             /\ fut' = Ready(f)
             /\ sch' = Settled(sch, f)
        ELSE UNCHANGED <<ctx, fut, sch>>
  /\ UNCHANGED <<fiber, ex, flag, env, ended>>

\* Work queued by the idle callback is drained before the run returns.
AfterNotify == IF sch.queue # <<>> THEN "drain" ELSE "ran"

NotifyDone ==
  /\ at.phase = "notify" /\ at.snap = <<>>
  /\ Back(AfterNotify)
  /\ sch' = IF AfterNotify = "ran" THEN Stopped ELSE sch
  /\ UNCHANGED <<fiber, fut, ctx, ex, flag, env, ended>>

\* Scheduler.run returns; a failure recorded while active rejects the batch.
RunReturns ==
  /\ at.phase = "ran"
  /\ IF sch.failed
     THEN PoisonTask("final")
     ELSE Back("final") /\ UNCHANGED <<sch, ctx, ex>>
  /\ UNCHANGED <<fiber, fut, flag, env, ended>>

\* Teardown tokens run in creation order; a settled future has none.
CloseFuture ==
  /\ at.phase = "closing" /\ at.victims = <<>> /\ FutureIn("pending") # {}
  /\ LET f == Least(FutureIn("pending"))
     IN /\ fut' = [fut EXCEPT ![f].st = "closed", ![f].waiters = <<>>]
        /\ at' = [at EXCEPT !.victims = fut[f].waiters]
  /\ sch' = [sch EXCEPT !.pending = @ - 1]
  /\ UNCHANGED <<fiber, ctx, ex, flag, env, ended>>

\* Discontinue one parked fiber; its cleanup runs before the next one.
Discontinue ==
  /\ at.phase = "closing" /\ at.victims # <<>>
  /\ LET g == Head(at.victims)
     IN /\ fiber' = [fiber EXCEPT ![g] = "running"]
        /\ at' = [at EXCEPT !.victims = Tail(@), !.phase = "fiber",
                            !.cur = g, !.caller = "closing"]
  /\ UNCHANGED <<fut, sch, ctx, ex, flag, env, ended>>

\* A shutdown from inside a drain leaves the queue to that drain.
AfterClosing == IF sch.running THEN at.ret ELSE "sweep"

CloseDone ==
  /\ at.phase = "closing" /\ at.victims = <<>> /\ FutureIn("pending") = {}
  /\ ctx' = [ctx EXCEPT !.timers = {}]
  /\ Back(AfterClosing)
  /\ UNCHANGED <<fiber, fut, sch, ex, flag, env, ended>>

Sweep ==
  /\ at.phase = "sweep" /\ sch.queue # <<>>
  /\ sch' = [sch EXCEPT !.queue = Tail(@)]
  /\ Invoke(Head(sch.queue), "sweep")
  /\ UNCHANGED <<fut, ctx, ex, flag, env, ended>>

SweepDone ==
  /\ at.phase = "sweep" /\ sch.queue = <<>>
  /\ Back(at.ret)
  /\ UNCHANGED <<fiber, fut, sch, ctx, ex, flag, env, ended>>

-----------------------------------------------------------------------------
(* What the running fiber does: workflow code, a handler, or cleanup code. *)

Runs(g) == at.phase = "fiber" /\ at.cur = g

Created(f, k, ws) ==
  fut' = [fut EXCEPT ![f] = [st |-> "pending", kind |-> k, waiters |-> ws]]

\* A new future is refused after shutdown, when nothing could resume it.
MayCreate == sch.active /\ FutureIn("free") # {}

\* start_timer (k = "timer") buffers a command; a scope's signal does not.
Create(g, k) ==
  LET f == Least(FutureIn("free"))
  IN /\ Runs(g) /\ MayCreate
     /\ Created(f, k, <<>>)
     /\ sch' = [sch EXCEPT !.pending = @ + 1]
     /\ ctx' = IF k = "timer"
               THEN [ctx EXCEPT !.timers = @ \cup {f}, !.commands = Emit("op")]
               ELSE ctx
     /\ UNCHANGED <<fiber, ex, at, flag, env, ended>>

\* The fiber's continuation is captured and control returns to its caller.
Suspended(g) ==
  /\ fiber' = [fiber EXCEPT ![g] = "suspended"]
  /\ Back(at.caller)

Await(g, f) ==
  /\ Runs(g) /\ Live
  /\ fut[f].st = "pending" /\ fut[f].kind # "cond"
  /\ fut' = [fut EXCEPT ![f].waiters = Append(@, g)]
  /\ Suspended(g)
  /\ UNCHANGED <<sch, ctx, ex, flag, env, ended>>

\* A false predicate registers a waiter and parks on its private future.
WaitUntil(g) ==
  LET f == Least(FutureIn("free"))
  IN /\ Runs(g) /\ Live /\ MayCreate /\ ~flag
     /\ Created(f, "cond", <<g>>)
     /\ sch' = [sch EXCEPT !.pending = @ + 1]
     /\ ctx' = [ctx EXCEPT !.conds = Append(@, f)]
     /\ Suspended(g)
     /\ UNCHANGED <<ex, flag, env, ended>>

Write(g) ==
  /\ Runs(g) /\ env.writes < MaxWrites
  /\ env' = [env EXCEPT !.writes = @ + 1]
  /\ flag' = ~flag
  /\ UNCHANGED <<fiber, fut, sch, ctx, ex, at, ended>>

\* A sealed context leaves the timer alone: its cancellation would be dropped.
MayCancelTimer(f) == ~ctx.sealed /\ f \in ctx.timers

CancelTimer(g, f) ==
  /\ Runs(g) /\ MayCancelTimer(f)
  /\ ctx' = [ctx EXCEPT !.timers = @ \ {f}, !.commands = Emit("op")]
  /\ fut' = Ready(f)
  /\ sch' = Settled(sch, f)
  /\ UNCHANGED <<fiber, ex, at, flag, env, ended>>

\* Scope.cancel: refused unless the owning drain is live.
MayCancelScope(f) == Live /\ fut[f].st = "pending" /\ fut[f].kind = "scope"

CancelScope(g, f) ==
  /\ Runs(g) /\ MayCancelScope(f)
  /\ fut' = Ready(f)
  /\ sch' = Settled(sch, f)
  /\ UNCHANGED <<fiber, ctx, ex, at, flag, env, ended>>

\* Continue-as-new: buffer, seal, abort.  The fiber is discontinued with
\* Workflow_aborted; what its handlers do next are further steps of it.
MayTerminate == sch.active \/ (LateTerminate /\ sch.running)

Terminate(g, c) ==
  /\ Runs(g) /\ ~sch.abort /\ MayTerminate
  /\ ctx' = [ctx EXCEPT !.commands = Emit(c), !.sealed = TRUE]
  /\ sch' = [sch EXCEPT !.abort = TRUE]
  /\ UNCHANGED <<fiber, fut, ex, at, flag, env, ended>>

Done(g) == fiber' = [fiber EXCEPT ![g] = "done"]

\* A handler returns, or a control exception leaves an unwound fiber.
Returns(g) ==
  /\ Runs(g) /\ (g # Root \/ sch.abort \/ ~sch.active)
  /\ Done(g) /\ Back(at.caller)
  /\ UNCHANGED <<fut, sch, ctx, ex, flag, env, ended>>

RootReturns(g) ==
  /\ Runs(g) /\ g = Root
  /\ Done(g) /\ EmitTerminal(at.caller)
  /\ UNCHANGED <<fut, flag, env, ended>>

ReturnsError(g) ==
  /\ Runs(g)
  /\ Done(g) /\ Fail(at.caller)
  /\ UNCHANGED <<fut, flag, env, ended>>

ReturnsDefect(g) ==
  /\ Runs(g)
  /\ Done(g) /\ FailTask(at.caller)
  /\ UNCHANGED <<fut, flag, env, ended>>

\* Mutant: an exception of an aborted fiber's cleanup invalidates the batch.
AbortedToo == sch.active

\* Only a failure of a live activation is one; cleanup failures are diagnostics.
IsFailure == sch.active /\ ~sch.abort

Raises(g) ==
  /\ Runs(g) /\ g # Root
  /\ Done(g) /\ Back(at.caller)
  /\ sch' = [sch EXCEPT !.failed = @ \/ IsFailure]
  /\ UNCHANGED <<fut, ctx, ex, flag, env, ended>>

-----------------------------------------------------------------------------
Jobs ==
  \/ JobStart \/ JobFails \/ JobCancel \/ JobQuery \/ JobEvict
  \/ \E h \in Handlers : JobSignal(h)
  \/ \E f \in Futures : JobFire(f)

Loops ==
  \/ StartRun \/ SkipRun \/ Finalize \/ Drain \/ DrainIdle \/ Notify
  \/ NotifyDone \/ RunReturns \/ CloseFuture \/ Discontinue \/ CloseDone
  \/ Sweep \/ SweepDone

FiberStep(g) ==
  \/ \E k \in {"timer", "scope"} : Create(g, k)
  \/ \E f \in Futures : Await(g, f) \/ CancelTimer(g, f) \/ CancelScope(g, f)
  \/ WaitUntil(g) \/ Write(g)
  \/ \E c \in Terminals : Terminate(g, c)
  \/ Returns(g) \/ RootReturns(g) \/ ReturnsError(g) \/ ReturnsDefect(g)
  \/ Raises(g)

Next == Activate \/ Jobs \/ Loops \/ \E g \in Fibers : FiberStep(g)

Spec == Init /\ [][Next]_vars

\* The owner thread keeps running an activation that it has begun, and workflow
\* code returns or suspends after finitely many operations.
FairSpec == Spec /\ WF_vars(Jobs \/ Loops \/ \E g \in Fibers : FiberStep(g))

-----------------------------------------------------------------------------
(* Properties.                                                             *)

\* Every variable keeps its type; the lists hold fibers and futures, and the
\* pending count and the terminal count are natural numbers.
TypeOK ==
  /\ fiber \in [Fibers -> {"new", "queued", "running", "suspended", "done"}]
  /\ fut \in [Futures -> [st : {"free", "pending", "ready", "closed"},
                          kind : Kinds, waiters : Seq(Fibers)]]
  /\ sch \in [queue : Seq([t : {"root", "resume"}, g : Fibers]),
              running : BOOLEAN, active : BOOLEAN, abort : BOOLEAN,
              failed : BOOLEAN, pending : Nat]
  /\ ctx \in [timers : SUBSET Futures, conds : Seq(Futures),
              sealed : BOOLEAN, commands : Seq(Commands)]
  /\ ex \in [started : BOOLEAN, terminal : BOOLEAN, evicted : BOOLEAN,
             poisoned : BOOLEAN]
  /\ at \in [phase : Phases, cur : Fibers \cup {None},
             caller : {"drain", "closing", "sweep"}, ret : Phases,
             victims : Seq(Fibers), snap : Seq(Futures)]
  /\ flag \in BOOLEAN
  /\ env \in [activations : Nat, writes : Nat, jobs : {"none", "query", "work"}]
  /\ ended \in Nat

\* Where the continuation of g is held: at a position in the waiters of a
\* future, among the resumptions in the queue, or in the teardown loop.
At(s, x) == {i \in 1..Len(s) : s[i] = x}
Waiting(g) == UNION {{f} \X At(fut[f].waiters, g) : f \in Futures}
Holders(g) ==
  Cardinality(Waiting(g)) + Cardinality(At(sch.queue, Thunk("resume", g)))
    + Cardinality(At(at.victims, g))

\* "A captured one-shot continuation is continued or discontinued exactly
\* once": while a fiber is suspended exactly one place holds its continuation,
\* and a fiber that was resumed, unwound or never suspended is held nowhere.
\* Settling, teardown, notification and abort each move it, none drops it.  Nor
\* is a future resolved twice: the timer table and the condition store only hold
\* futures that are pending, and the scheduler's counter is the number of
\* pending futures, which decides Blocked against Complete.
OneShot ==
  /\ TypeOK
  /\ \A g \in Fibers : Holders(g) = IF fiber[g] = "suspended" THEN 1 ELSE 0
  /\ sch.pending = Cardinality(FutureIn("pending"))
  /\ sch.active => /\ \A f \in ctx.timers : fut[f].st = "pending"
                   /\ \A i \in 1..Len(ctx.conds) : fut[ctx.conds[i]].st = "pending"

\* Between activations of a live run nothing is left to run, and after the run
\* has ended no fiber is still suspended, so that every cleanup handler has
\* run, wherever the shutdown was called from.
NoneStranded ==
  at.phase = "idle" =>
    IF sch.active THEN sch.queue = <<>>
    ELSE \A g \in Fibers : fiber[g] # "suspended"

\* An activation does not return while a registered condition holds, although
\* the state it reads is written by fibers that the notification resumes.
NoMissedCondition ==
  (at.phase = "idle" /\ sch.active /\ flag) => ctx.conds = <<>>

\* A run has one outcome.  Nothing but a query response follows a terminal
\* command in a batch, whatever cleanup code emits afterwards; Core gets at most
\* one terminal command for a run; and a run whose terminal command was returned
\* is not reported as a failed task as well: cleanup code that raises or returns
\* a defect does not change the outcome.
OneOutcome ==
  /\ \A i, j \in 1..Len(ctx.commands) :
       i < j /\ ctx.commands[i] \in Terminals => ctx.commands[j] = "query"
  /\ ended <= 1
  /\ ended = 1 => ~ex.poisoned

EndBuffered == \E i \in 1..Len(ctx.commands) : ctx.commands[i] = "end"

\* An activation that was begun returns to Core, also when the run ends in the
\* middle of its drain; and a terminal command that was buffered before any
\* fiber failed reaches Core.
ActivationReturns ==
  /\ at.phase # "idle" ~> at.phase = "idle"
  /\ (EndBuffered /\ ~sch.failed /\ ~ex.poisoned) ~> ended = 1
=============================================================================
