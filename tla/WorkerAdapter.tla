--------------------------- MODULE WorkerAdapter ---------------------------
(* The workflow adapter of a worker (lib/runtime/native_worker_execution.ml) *)
(* and its watchdog (lib/runtime/native_worker_watchdog.ml).  The lane polls *)
(* an activation, runs workflow code and submits one completion; a           *)
(* completion that was not acknowledged is retained and blocks further       *)
(* polls.  The watchdog, on another thread, takes over the lease of an       *)
(* activation that does not yield and fails its task.  A shutdown thread     *)
(* (native_worker_shutdown.ml) drains what is retained and releases the      *)
(* native graph; the discard of the adapter's own state is left to the lane  *)
(* when the lane holds the adapter.  Core, behind the supervisor, is the     *)
(* environment: `cache`, `lease` and `answers` are its state.                *)
EXTENDS Naturals, FiniteSets

CONSTANTS
  Runs,       \* run ids
  MaxEpochs,  \* bound: activations delivered in one behaviour
  Deadline    \* the activation deadline, in watchdog ticks

ASSUME BoundsAssumption == MaxEpochs \in Nat \ {0} /\ Deadline \in Nat \ {0}

VARIABLES
  runs,     \* adapter.runs: the run ids with a registered execution
  pending,  \* adapter.pending: the retained completions
  lane,     \* the lane: its program counter, the completion it is about to
            \*   submit, and what the poll is about to return
  flights,  \* per epoch, the in_flight record published for it
  inFlight, \* adapter.in_flight: an epoch, or 0
  next,     \* adapter.next_epoch
  wd,       \* the watchdog: its program counter and its sampling state
  stuck,    \* adapter.stuck: the sticky report, or "none"
  shut,     \* the shutdown thread
  discard,  \* worker.discard_pending
  cache,    \* Core: is the run cached, or about to be evicted
  lease,    \* Core: the epoch of the run's outstanding activation, or 0
  answers,  \* Core: per epoch, the completion it consumed, or "none"
  hist      \* history: `stray`, a completion was submitted for a lease that is
            \*   not open; `broken`, Core delivered an activation that does not
            \*   fit its own cache; `age`, the ticks since the activation in
            \*   flight was published

adapterVars == <<runs, pending, lane, flights, inFlight, next>>
coreVars == <<cache, lease, answers>>
vars == <<runs, pending, lane, flights, inFlight, next, wd, stuck, shut, discard,
          cache, lease, answers, hist>>

Epochs == 1 .. MaxEpochs
Jobs == {"init", "other", "query", "evict"}
Kinds == {"commands", "failure", "queries", "ack"}
Outcomes == {"accepted", "retryable", "refused", "uncertain"}
Idle == [run |-> "none", epoch |-> 0, kind |-> "none", drop |-> FALSE,
         encoded |-> TRUE, refusal |-> FALSE]
Completions ==
  [run : Runs, epoch : Epochs, kind : Kinds, drop : BOOLEAN,
   encoded : BOOLEAN, refusal : BOOLEAN]
NoFlight == [run |-> "none", job |-> "none", claim |-> "none", outcome |-> "none"]
Asleep == [pc |-> "sleep", observed |-> 0, elapsed |-> 0, fired |-> 0]

Init ==
  /\ runs = {} /\ pending = {} /\ inFlight = 0 /\ next = 1
  /\ lane = [pc |-> "idle", todo |-> Idle, says |-> "none"]
  /\ flights = [e \in Epochs |-> NoFlight]
  /\ wd = Asleep /\ stuck = "none" /\ shut = "open" /\ discard = FALSE
  /\ cache = [r \in Runs |-> "none"]
  /\ lease = [r \in Runs |-> 0]
  /\ answers = [e \in Epochs |-> "none"]
  /\ hist = [stray |-> FALSE, broken |-> FALSE, age |-> 0]

-----------------------------------------------------------------------------
(* The supervisor and Core, as the adapter sees them.                        *)

Released == shut \in {"released", "attempt", "done"}

\* What Core may deliver for run r, given its own cache.
Fits(r, job) ==
  CASE job = "init" -> cache[r] = "none"
    [] job = "evict" -> cache[r] # "none"
    [] OTHER -> cache[r] = "cached"

\* Core's cache once it consumed a completion of this kind.
Cached(r, job, kind) ==
  CASE job = "evict" -> "none"
    [] kind = "failure" -> "evicting"
    [] OTHER -> cache[r]

\* Core consumes a completion for whatever activation of the run is open.
Consume(r, kind) ==
  LET e == lease[r] IN
  /\ answers' = [answers EXCEPT ![e] = kind]
  /\ cache' = [cache EXCEPT ![r] = Cached(r, flights[e].job, kind)]
  /\ lease' = [lease EXCEPT ![r] = 0]

\* One Supervisor.complete_workflow call: `retryable` leaves the lease as it
\* is; an uncertain failure may have consumed it; after the native release,
\* and for a lease that is not open, the call is refused.
Complete(c, o) ==
  /\ hist' = [hist EXCEPT !.stray = @ \/ (~Released /\ lease[c.run] # c.epoch)]
  /\ IF Released \/ lease[c.run] = 0
     THEN o = "refused" /\ UNCHANGED coreVars
     ELSE IF o \in {"accepted", "uncertain"}
          THEN Consume(c.run, c.kind)
          ELSE UNCHANGED coreVars

-----------------------------------------------------------------------------
(* Retained completions.                                                     *)

\* refuse_unless: only an explicit classification authorizes a retry.
Refuses(o) == o \in {"refused", "uncertain"}

\* The retained entry is updated in place.
Retained(p, q) == (pending \ {p}) \cup {q}

\* finish_pending.  The caller continues with `says`: "retired" when the
\* completion was acknowledged, "error" otherwise.
FinishPending(p, says) ==
  IF p.refusal \/ ~p.encoded
  THEN /\ says = "error"
       /\ pending' = Retained(p, [p EXCEPT !.refusal = TRUE])
       /\ UNCHANGED <<runs, coreVars, hist>>
  ELSE \E o \in Outcomes :
         /\ Complete(p, o)
         /\ IF o = "accepted"
            THEN /\ says = "retired"
                 /\ pending' = pending \ {p}
                 /\ runs' = IF p.drop THEN runs \ {p.run} ELSE runs
            ELSE /\ says = "error"
                 /\ pending' = Retained(p, [p EXCEPT !.refusal = Refuses(o)])
                 /\ UNCHANGED runs

-----------------------------------------------------------------------------
(* The workflow lane.  It holds the adapter mutex from poll to Return.       *)

LaneHoldsMutex == lane.pc \in {"run", "user", "claim", "submit", "await", "return"}
MutexFree == ~LaneHoldsMutex /\ shut # "drain"

\* poll, with a retained completion: it is finished before anything is polled.
PollPending ==
  /\ lane.pc = "idle" /\ MutexFree
  /\ \E p \in pending : lane' = [lane EXCEPT !.pc = "submit", !.todo = p]
  /\ UNCHANGED <<runs, pending, flights, inFlight, next, wd, stuck, shut, discard,
                 coreVars, hist>>

\* A new activation is polled only when nothing is retained.
NothingRetained == pending = {}

\* poll and process_tracked: an activation is delivered and published before
\* any user code sees it.
PollWork(r, job) ==
  /\ lane.pc = "idle" /\ MutexFree /\ ~Released /\ NothingRetained
  /\ next <= MaxEpochs /\ lease[r] = 0
  /\ lease' = [lease EXCEPT ![r] = next]
  /\ cache' = IF job = "init" THEN [cache EXCEPT ![r] = "cached"] ELSE cache
  /\ hist' = [hist EXCEPT !.broken = @ \/ ~Fits(r, job), !.age = 0]
  /\ flights' = [flights EXCEPT ![next] =
       [run |-> r, job |-> job, claim |-> "unclaimed", outcome |-> "none"]]
  /\ inFlight' = next /\ next' = next + 1
  /\ lane' = [lane EXCEPT !.pc = "run"]
  /\ UNCHANGED <<runs, pending, wd, stuck, shut, discard, answers>>

\* The source poll fails: run returns the error once its watchdog has exited.
PollError ==
  /\ lane.pc = "idle" /\ MutexFree /\ pending = {}
  /\ lane' = [lane EXCEPT !.pc = "stopping"]
  /\ UNCHANGED <<runs, pending, flights, inFlight, next, wd, stuck, shut, discard,
                 coreVars, hist>>

Run == flights[inFlight].run
Job == flights[inFlight].job

\* failure_completion: failed queries, an empty eviction acknowledgement, or a
\* failed workflow task.
FailureKind(job) ==
  CASE job = "query" -> "queries" [] job = "evict" -> "ack" [] OTHER -> "failure"

\* The completion the lane is about to submit.
Propose(kind, drop, encoded) ==
  lane' = [lane EXCEPT !.pc = "claim", !.todo =
    [run |-> Run, epoch |-> inFlight, kind |-> kind, drop |-> drop,
     encoded |-> encoded, refusal |-> FALSE]]

\* retire_with_failure; only a query leaves the run registered.
RetireWithFailure(remove) ==
  \E encoded \in BOOLEAN :
    Propose(FailureKind(Job), remove \/ Job # "query", encoded)

\* The activation cannot be translated, its observer raises, it initializes a
\* registered run, it cannot be started, or its run is unknown.
Reject ==
  /\ lane.pc = "run"
  /\ RetireWithFailure(FALSE)
  /\ UNCHANGED <<runs, pending, flights, inFlight, next, wd, stuck, shut, discard,
                 coreVars, hist>>

\* submit_eviction_acknowledgement: the registry had already dropped the run.
AcknowledgeEviction ==
  /\ lane.pc = "run" /\ Job = "evict" /\ Run \notin runs
  /\ \E encoded \in BOOLEAN : Propose("ack", TRUE, encoded)
  /\ UNCHANGED <<runs, pending, flights, inFlight, next, wd, stuck, shut, discard,
                 coreVars, hist>>

\* Execution.start registers a new run; any other activation finds its own.
EnterWorkflow ==
  /\ lane.pc = "run"
  /\ (Job = "init") = (Run \notin runs)
  /\ runs' = runs \cup {Run}
  /\ lane' = [lane EXCEPT !.pc = "user"]
  /\ UNCHANGED <<pending, flights, inFlight, next, wd, stuck, shut, discard, coreVars,
                 hist>>

\* Workflow code yields and its completion is encoded (submit_completion), or
\* the task fails, or the activation is rejected, or something raises.
Yield ==
  /\ lane.pc = "user"
  /\ \/ Propose(CASE Job = "query" -> "queries" [] Job = "evict" -> "ack"
                  [] OTHER -> "commands", Job = "evict", TRUE)
     \/ Job \in {"init", "other"} /\ Propose("failure", TRUE, TRUE)
     \/ RetireWithFailure(FALSE)
     \/ RetireWithFailure(Run \in runs)
  /\ UNCHANGED <<runs, pending, flights, inFlight, next, wd, stuck, shut, discard,
                 coreVars, hist>>

\* lane_lost_claim: compare_and_set claim Unclaimed Lane_claimed.
LaneWinsClaim == flights[inFlight].claim = "unclaimed"

\* enqueue_pending: the completion is retained before its first attempt, unless
\* the watchdog already answered for the lease.
Claim ==
  /\ lane.pc = "claim"
  /\ LaneWinsClaim
  /\ flights' = [flights EXCEPT ![inFlight].claim = "lane"]
  /\ IF \E p \in pending : p.run = Run
     THEN /\ lane' = [lane EXCEPT !.pc = "return", !.says = "error"]
          /\ UNCHANGED pending
     ELSE /\ lane' = [lane EXCEPT !.pc = "submit"]
          /\ pending' = pending \cup {lane.todo}
  /\ UNCHANGED <<runs, inFlight, next, wd, stuck, shut, discard, coreVars, hist>>

\* Mutant: the run of an activation the watchdog failed stays registered.
KeepsRun == TRUE

\* A query is read-only: it leaves the run registered.
QueryOnly == Job = "query"

\* abandoned_by_watchdog: the lane's completion is dropped without a call.
LoseClaim ==
  /\ lane.pc = "claim"
  /\ ~LaneWinsClaim
  /\ runs' = IF QueryOnly THEN runs ELSE runs \ {Run}
  /\ lane' = [lane EXCEPT !.pc = "await"]
  /\ UNCHANGED <<pending, flights, inFlight, next, wd, stuck, shut, discard, coreVars,
                 hist>>

\* await_watchdog_outcome.
AwaitWatchdog ==
  /\ lane.pc = "await" /\ flights[inFlight].outcome # "none"
  /\ lane' = [lane EXCEPT !.pc = "return", !.says =
       IF flights[inFlight].outcome = "ok" THEN "retired" ELSE "error"]
  /\ UNCHANGED <<runs, pending, flights, inFlight, next, wd, stuck, shut, discard,
                 coreVars, hist>>

Submit ==
  /\ lane.pc = "submit"
  /\ \E says \in {"retired", "error"} :
       /\ FinishPending(lane.todo, says)
       /\ lane' = [lane EXCEPT !.pc = "return", !.says = says]
  /\ UNCHANGED <<flights, inFlight, next, wd, stuck, shut, discard>>

\* The watchdog still refers to a flight it read from the slot.
Held(e) == wd.pc \in {"swap", "fail", "report"} /\ wd.fired = e

\* A flight nobody refers to any more is garbage, and so is Core's record of it.
Collect(e) ==
  /\ flights' = [flights EXCEPT ![e] = NoFlight]
  /\ answers' = [answers EXCEPT ![e] = "none"]

\* The flight is withdrawn, the mutex released and the outcome returned; an
\* error ends the run loop, which first stops its watchdog.
Return ==
  /\ lane.pc = "return"
  /\ inFlight' = 0
  /\ lane' = [pc |-> IF lane.says = "error" THEN "stopping" ELSE "idle",
              todo |-> Idle, says |-> "none"]
  /\ IF Held(lane.todo.epoch) \/ lease[lane.todo.run] = lane.todo.epoch
     THEN UNCHANGED <<flights, answers>>
     ELSE Collect(lane.todo.epoch)
  /\ hist' = [hist EXCEPT !.age = 0]
  /\ UNCHANGED <<runs, pending, next, wd, stuck, shut, discard, cache, lease>>

\* A requested stop ends the loop at its next turn.
Stop ==
  /\ lane.pc = "idle" /\ shut # "open"
  /\ lane' = [lane EXCEPT !.pc = "stopping"]
  /\ UNCHANGED <<runs, pending, flights, inFlight, next, wd, stuck, shut, discard,
                 coreVars, hist>>

\* discard_locked: no call is made, the bridge has retired the leases.
DiscardLocked == runs' = {} /\ pending' = {} /\ discard' = FALSE

\* Deferred_discard.attempt with try_discard: never waits for the adapter.
AttemptDiscard ==
  IF MutexFree THEN DiscardLocked ELSE UNCHANGED <<runs, pending, discard>>

\* Watchdog.stop returned and run ends: it retries a discard that is pending.
LeaveRun ==
  /\ lane.pc = "stopping" /\ wd.pc = "exited"
  /\ lane' = [lane EXCEPT !.pc = "left"]
  /\ IF discard THEN AttemptDiscard ELSE UNCHANGED <<runs, pending, discard>>
  /\ UNCHANGED <<flights, inFlight, next, wd, stuck, shut, coreVars, hist>>

\* A worker that is not shut down may be run again.
RunAgain ==
  /\ lane.pc = "left" /\ shut = "open"
  /\ lane' = [lane EXCEPT !.pc = "idle"]
  /\ wd' = Asleep
  /\ UNCHANGED <<runs, pending, flights, inFlight, next, stuck, shut, discard, coreVars,
                 hist>>

-----------------------------------------------------------------------------
(* The watchdog thread.                                                      *)

Capped(n) == IF n > Deadline + 1 THEN Deadline + 1 ELSE n

\* running_epoch: the published activation, while nobody has claimed it.
RunningEpoch ==
  IF inFlight # 0 /\ flights[inFlight].claim = "unclaimed" THEN inFlight ELSE 0

\* Mutant: the count survives a change of activation.
CountsOn == Capped(wd.elapsed + 1)

\* A different epoch, or none, restarts the count.
Elapsed ==
  IF RunningEpoch # 0 /\ wd.observed = RunningEpoch THEN Capped(wd.elapsed + 1) ELSE 0

\* A stuck activation is reported once.
AlreadyFired == wd.fired = RunningEpoch

StopRequested == lane.pc = "stopping" \/ Released

\* One turn of run: sleep for a tick, sample and step.
Tick ==
  /\ wd.pc = "sleep" /\ ~StopRequested
  /\ hist' = IF inFlight = 0 THEN hist
             ELSE [hist EXCEPT !.age = Capped(@ + 1)]
  /\ LET fire == RunningEpoch # 0 /\ Elapsed >= Deadline /\ ~AlreadyFired IN
     wd' = [pc |-> IF fire THEN "abandon" ELSE "sleep",
            observed |-> RunningEpoch,
            elapsed |-> Elapsed,
            fired |-> IF fire THEN RunningEpoch ELSE wd.fired]
  /\ UNCHANGED <<adapterVars, stuck, shut, discard, coreVars>>

WatchdogExits ==
  /\ wd.pc = "sleep" /\ StopRequested
  /\ wd' = [Asleep EXCEPT !.pc = "exited"]
  /\ UNCHANGED <<adapterVars, stuck, shut, discard, coreVars, hist>>

\* Mutant: the claim is taken without looking at who holds it.
TakesAnyway == TRUE

\* compare_and_set flight.claim Unclaimed Watchdog_claimed.
WatchdogWinsClaim == flights[wd.fired].claim = "unclaimed"

\* abandon_activation reads the slot: it still holds the epoch that fired.
FindFlight ==
  /\ wd.pc = "abandon"
  /\ wd' = [wd EXCEPT !.pc = IF inFlight = wd.fired THEN "swap" ELSE "sleep"]
  /\ UNCHANGED <<adapterVars, stuck, shut, discard, coreVars, hist>>

\* ... and then tries to take the lease of the flight it read.
SwapClaim ==
  /\ wd.pc = "swap"
  /\ IF WatchdogWinsClaim
     THEN /\ flights' = [flights EXCEPT ![wd.fired].claim = "watchdog"]
          /\ wd' = [wd EXCEPT !.pc = "fail"]
     ELSE wd' = [wd EXCEPT !.pc = "sleep"] /\ UNCHANGED flights
  /\ UNCHANGED <<runs, pending, lane, inFlight, next, stuck, shut, discard, coreVars, hist>>

\* Mutant: only an acknowledged submission is published.
PublishesOk(ok) == IF ok THEN "ok" ELSE "none"

\* The outcome is published whether or not the call was acknowledged.
Published(ok) == IF ok THEN "ok" ELSE "error"

\* The failure completion is submitted without the adapter mutex.
FailTask ==
  /\ wd.pc = "fail"
  /\ LET f == flights[wd.fired]
         c == [run |-> f.run, epoch |-> wd.fired, kind |-> FailureKind(f.job)] IN
     \/ /\ flights' = [flights EXCEPT ![wd.fired].outcome = Published(FALSE)]
        /\ UNCHANGED <<coreVars, hist>>
     \/ \E o \in Outcomes :
          /\ Complete(c, o)
          /\ flights' = [flights EXCEPT ![wd.fired].outcome = Published(o = "accepted")]
  /\ wd' = [wd EXCEPT !.pc = "report"]
  /\ UNCHANGED <<runs, pending, lane, inFlight, next, stuck, shut, discard>>

\* Mutant: the abandonment is classified without looking at the outcome.
AbandonedAs(f) == FailureKind(f.job)

\* abandonment_of: only an acknowledged completion is reported as an answer.
AbandonmentOf(f) == IF f.outcome = "ok" THEN FailureKind(f.job) ELSE "unacknowledged"

\* The first report is kept for good.
ReportStuck ==
  /\ wd.pc = "report"
  /\ stuck' = IF stuck = "none" THEN AbandonmentOf(flights[wd.fired]) ELSE stuck
  /\ wd' = [wd EXCEPT !.pc = "sleep"]
  /\ IF inFlight = wd.fired \/ lease[flights[wd.fired].run] = wd.fired
     THEN UNCHANGED <<flights, answers>>
     ELSE Collect(wd.fired)
  /\ UNCHANGED <<runs, pending, lane, inFlight, next, shut, discard, cache, lease, hist>>

-----------------------------------------------------------------------------
(* Shutdown.                                                                 *)

\* The worker is closed and Core told to stop polling.
BeginShutdown ==
  /\ shut = "open" /\ shut' = "closing"
  /\ UNCHANGED <<adapterVars, wd, stuck, discard, coreVars, hist>>

\* The run has ended or the grace period is over.  try_drain takes the adapter
\* mutex if it is free right now, and is skipped if not.
BeginDrain ==
  /\ shut = "closing"
  /\ shut' = IF MutexFree THEN "drain" ELSE "drained"
  /\ UNCHANGED <<adapterVars, wd, stuck, discard, coreVars, hist>>

\* drain_locked: retained completions are finished until one fails.
Drain ==
  /\ shut = "drain"
  /\ \/ pending = {} /\ shut' = "drained" /\ UNCHANGED <<runs, pending, coreVars, hist>>
     \/ \E p \in pending, says \in {"retired", "error"} :
          /\ FinishPending(p, says)
          /\ shut' = IF says = "error" THEN "drained" ELSE "drain"
  /\ UNCHANGED <<lane, flights, inFlight, next, wd, stuck, discard>>

\* The native graph is released, whatever the lane is doing.
Release ==
  /\ shut = "drained"
  /\ shut' = "released"
  /\ UNCHANGED <<adapterVars, wd, stuck, discard, coreVars, hist>>

\* Deferred_discard.request: the flag is raised before the first attempt.
RequestDiscard ==
  /\ shut = "released"
  /\ shut' = "attempt" /\ discard' = TRUE
  /\ UNCHANGED <<adapterVars, wd, stuck, coreVars, hist>>

Discard ==
  /\ shut = "attempt"
  /\ AttemptDiscard /\ shut' = "done"
  /\ UNCHANGED <<lane, flights, inFlight, next, wd, stuck, coreVars, hist>>

Next ==
  \/ PollPending
  \/ \E r \in Runs, job \in Jobs : PollWork(r, job)
  \/ PollError \/ Reject \/ AcknowledgeEviction \/ EnterWorkflow \/ Yield
  \/ Claim \/ LoseClaim \/ AwaitWatchdog \/ Submit \/ Return \/ Stop \/ LeaveRun
  \/ RunAgain
  \/ Tick \/ WatchdogExits \/ FindFlight \/ SwapClaim \/ FailTask \/ ReportStuck
  \/ BeginShutdown \/ BeginDrain \/ Drain \/ Release \/ RequestDiscard \/ Discard

Spec == Init /\ [][Next]_vars

\* Threads are scheduled and supervisor calls return.  Nothing says that
\* workflow code yields, that work arrives or that anyone shuts the worker down.
FairSpec ==
  /\ Spec
  /\ WF_vars(Tick \/ WatchdogExits \/ FindFlight \/ SwapClaim \/ FailTask
             \/ ReportStuck)
  /\ WF_vars(Claim \/ LoseClaim \/ AwaitWatchdog \/ Submit \/ Return)

-----------------------------------------------------------------------------
(* Properties.                                                               *)

\* The type invariant of the adapter, the watchdog and Core.
TypeOK ==
  /\ runs \subseteq Runs /\ pending \subseteq Completions
  /\ \A p, q \in pending : p.run = q.run => p = q
  /\ lane.pc \in {"idle", "run", "user", "claim", "submit", "await", "return",
                  "stopping", "left"}
  /\ lane.todo \in Completions \cup {Idle}
  /\ lane.says \in {"none", "retired", "error"}
  /\ \A e \in Epochs : flights[e] = NoFlight \/ flights[e] \in
       [run : Runs, job : Jobs, claim : {"unclaimed", "lane", "watchdog"},
        outcome : {"none", "ok", "error"}]
  /\ inFlight \in Epochs \cup {0} /\ next \in 1 .. MaxEpochs + 1
  /\ wd.pc \in {"sleep", "abandon", "swap", "fail", "report", "exited"}
  /\ {wd.observed, wd.fired} \subseteq Epochs \cup {0}
  /\ wd.elapsed \in 0 .. Deadline + 1
  /\ stuck \in Kinds \cup {"none", "unacknowledged"}
  /\ shut \in {"open", "closing", "drain", "drained", "released", "attempt", "done"}
  /\ discard \in BOOLEAN
  /\ cache \in [Runs -> {"none", "cached", "evicting"}]
  /\ lease \in [Runs -> Epochs \cup {0}]
  /\ answers \in [Epochs -> Kinds \cup {"none"}]

\* Whichever of the lane, its retries, the watchdog and the shutdown drain
\* submits a completion, the lease it was made for is still open: no activation
\* is answered twice and no completion reaches a later activation of its run.
OneAnswer == ~hist.stray

\* What the adapter tells its caller is true of Core: an activation reported as
\* retired (a completed outcome, or a rejection with lease_retired) was
\* consumed, and the sticky report of the watchdog names an answer that Core
\* really has.
ReportsAreTrue ==
  [][/\ Return /\ lane.says = "retired" => answers[lane.todo.epoch] # "none"
     /\ stuck' # stuck /\ stuck' \in Kinds => answers[wd.fired] = stuck']_vars

\* Between two polls, with nothing retained, every registered run is one that
\* Core still caches: a suspended fiber never outlives the run Core gave up,
\* whether the lane or the watchdog answered for it.  Nor does it outlive the
\* worker: when the run has ended and the shutdown thread is through, whichever
\* of the two came last has performed the discard.
RegistryFollowsCore ==
  /\ TypeOK
  /\ shut = "done" /\ lane.pc = "left" => runs = {} /\ pending = {}
  /\ lane.pc = "idle" /\ pending = {} /\ ~hist.broken
       => \A r \in runs : cache[r] = "cached"

\* The watchdog only takes the lease of an activation that was itself published
\* for more than the deadline: time spent by an earlier activation, or between
\* two of them, is not charged to it.
NeverTooEarly ==
  inFlight # 0 /\ flights[inFlight].claim = "watchdog" => hist.age > Deadline

\* An activation that does not yield does not keep its lease: it is claimed in
\* the end, and a lane that then finds its claim lost gets to return, unless
\* the worker is being released.
StuckIsAbandoned ==
  LET Waiting == (RunningEpoch # 0 /\ shut = "open") \/ lane.pc = "await" IN
  Waiting ~> ~Waiting
=============================================================================
