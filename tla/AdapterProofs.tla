--------------------------- MODULE AdapterProofs ---------------------------
(* OneAnswer of WorkerAdapter for every set of runs, every number of         *)
(* activations and every deadline.                                           *)
(*                                                                           *)
(* Three parties may submit the completion of an activation: the lane after  *)
(* its claim or for a retained completion, the shutdown drain for a retained *)
(* completion, and the watchdog after its swap.  The invariant says who owns *)
(* the lease: the flight while it is unclaimed, then either the one retained *)
(* completion that may still be submitted, or the watchdog.                  *)
EXTENDS WorkerAdapter, TLAPS

Lanes == {"idle", "run", "user", "claim", "submit", "await", "return", "stopping", "left"}

\* The lane works on the published activation and has retained nothing for it.
Working == {"run", "user", "claim", "await"}

Flights == [run : Runs \cup {"none"}, job : Jobs \cup {"none"},
            claim : {"none", "unclaimed", "lane", "watchdog"},
            outcome : {"none", "ok", "error"}]

Typed ==
  /\ lease \in [Runs -> Epochs \cup {0}]
  /\ flights \in [Epochs -> Flights]
  /\ pending \subseteq Completions
  /\ lane \in [pc : Lanes, todo : Completions \cup {Idle}, says : {"none", "retired", "error"}]
  /\ inFlight \in Epochs \cup {0} /\ next \in 1 .. MaxEpochs + 1
  /\ wd \in [pc : {"sleep", "abandon", "swap", "fail", "report", "exited"},
             observed : Epochs \cup {0}, elapsed : Nat, fired : Epochs \cup {0}]
  /\ hist \in [stray : {FALSE}, broken : BOOLEAN, age : Nat]

\* An unclaimed flight is the published one, and its lease is open.
FlightInv ==
  \A e \in Epochs : flights[e].claim = "unclaimed" =>
    /\ inFlight = e /\ flights[e].outcome = "none"
    /\ lane.pc \in {"run", "user", "claim"}
    /\ flights[e].run \in Runs
    /\ Released \/ lease[flights[e].run] = e

LaneInv ==
  /\ lane.pc \in Working => /\ inFlight \in Epochs /\ pending = {}
                            /\ flights[inFlight].run \in Runs
  /\ lane.pc \in {"idle", "stopping", "left"} => inFlight = 0
  /\ lane.pc = "claim" => /\ lane.todo \in Completions
                          /\ lane.todo.run = flights[inFlight].run /\ lane.todo.epoch = inFlight
  /\ lane.pc = "submit" => lane.todo \in pending
  /\ shut = "drain" => ~LaneHoldsMutex

\* What is retained and may be submitted again has its lease; there is at most
\* one retained completion.
PendingInv ==
  /\ \A p, q \in pending : p = q
  /\ \A p \in pending : p.refusal \/ ~p.encoded \/ Released \/ lease[p.run] = p.epoch

\* A watchdog that is about to answer has the lease of the published flight.
WatchdogInv ==
  /\ wd.pc \in {"abandon", "swap", "fail", "report"} => wd.fired \in Epochs
  /\ wd.pc = "fail" =>
       /\ inFlight = wd.fired /\ lane.pc \in Working
       /\ flights[inFlight].claim = "watchdog" /\ flights[inFlight].outcome = "none"
       /\ Released \/ lease[flights[inFlight].run] = inFlight

AdapterInv == Typed /\ FlightInv /\ LaneInv /\ PendingInv /\ WatchdogInv

\* The inductive invariant holds before the first poll.
LEMMA InitAdapterInv == Init => AdapterInv
<1> SUFFICES ASSUME Init PROVE AdapterInv
  OBVIOUS
<1>1. Typed
  BY BoundsAssumption DEF Init, Typed, Flights, NoFlight, Lanes, Asleep, Epochs
<1>2. FlightInv
  BY DEF Init, FlightInv, NoFlight
<1>3. LaneInv
  BY DEF Init, LaneInv, Working
<1>4. PendingInv
  BY DEF Init, PendingInv
<1>5. WatchdogInv
  BY DEF Init, WatchdogInv, Asleep
<1> QED BY <1>1, <1>2, <1>3, <1>4, <1>5 DEF AdapterInv

\* The lane delivers an activation: its flight is published with the lease.
LEMMA PollKeeps ==
  ASSUME AdapterInv, NEW r \in Runs, NEW job \in Jobs, PollWork(r, job)
  PROVE  AdapterInv'
<1>1. /\ lane.pc = "idle" /\ inFlight = 0 /\ ~Released /\ pending = {} /\ pending' = pending
      /\ next \in Epochs /\ shut' = shut /\ wd' = wd /\ shut # "drain"
      /\ lease' = [lease EXCEPT ![r] = next] /\ inFlight' = next /\ next' = next + 1
      /\ lane' = [lane EXCEPT !.pc = "run"]
      /\ flights' = [flights EXCEPT ![next] =
           [run |-> r, job |-> job, claim |-> "unclaimed", outcome |-> "none"]]
  BY BoundsAssumption DEF PollWork, NothingRetained, MutexFree, AdapterInv, LaneInv, Typed, Epochs
<1>2. lane'.pc = "run" /\ flights'[next].run = r /\ lease'[r] = next
  BY <1>1 DEF AdapterInv, Typed
<1>3. Typed'
  <2>1. next' \in 1 .. MaxEpochs + 1 /\ inFlight' \in Epochs \cup {0}
    BY <1>1, BoundsAssumption DEF Epochs
  <2>2. flights' \in [Epochs -> Flights] /\ lease' \in [Runs -> Epochs \cup {0}]
    BY <1>1 DEF AdapterInv, Typed, Flights
  <2>3. hist' \in [stray : {FALSE}, broken : BOOLEAN, age : Nat]
    <3>1. hist' = [hist EXCEPT !.broken = hist.broken \/ ~Fits(r, job), !.age = 0]
      BY DEF PollWork
    <3> HIDE DEF Fits
    <3>2. (hist.broken \/ ~Fits(r, job)) \in BOOLEAN
      OBVIOUS
    <3> QED BY <3>1, <3>2 DEF AdapterInv, Typed
  <2> QED BY <1>1, <2>1, <2>2, <2>3 DEF AdapterInv, Typed, Lanes
<1>4. FlightInv'
  BY <1>1, <1>2 DEF AdapterInv, Typed, FlightInv, Flights
<1>5. LaneInv'
  BY <1>1, <1>2 DEF LaneInv, Working
<1>6. PendingInv'
  BY <1>1 DEF PendingInv
<1>7. WatchdogInv'
  BY <1>1 DEF AdapterInv, WatchdogInv, Working
<1> QED BY <1>3, <1>4, <1>5, <1>6, <1>7 DEF AdapterInv

\* What leaves the flights, the leases, the watchdog and the shutdown alone, and
\* does not add to what is retained.
Calm == /\ UNCHANGED <<flights, inFlight, next, wd, shut, lease, hist>>
        /\ pending' \subseteq pending

\* A lane that holds nothing stays outside the adapter.
LEMMA OutsideKeeps ==
  ASSUME AdapterInv, Calm, NEW from \in {"idle", "stopping", "left"},
         NEW to \in {"idle", "stopping", "left"}, lane.pc = from,
         lane' = [lane EXCEPT !.pc = to]
  PROVE  AdapterInv'
<1>1. lane'.pc = to /\ lane'.todo = lane.todo
  BY DEF AdapterInv, Typed
<1>2. Typed'
  BY DEF AdapterInv, Typed, Calm, Lanes
<1>3. FlightInv'
  BY <1>1 DEF AdapterInv, FlightInv, Calm, Released
<1>4. LaneInv'
  BY <1>1 DEF AdapterInv, LaneInv, Calm, Working, LaneHoldsMutex
<1>5. PendingInv'
  BY DEF AdapterInv, PendingInv, Calm, Released
<1>6. WatchdogInv'
  BY <1>1 DEF AdapterInv, WatchdogInv, Calm, Released, Working
<1> QED BY <1>2, <1>3, <1>4, <1>5, <1>6 DEF AdapterInv

\* The lane goes on with the published activation.
LEMMA InsideKeeps ==
  ASSUME AdapterInv, Calm, lane.pc \in {"run", "user"}, lane'.pc \in {"user", "claim"},
         lane' \in [pc : Lanes, todo : Completions \cup {Idle}, says : {"none", "retired", "error"}],
         lane'.pc = "claim" => /\ lane'.todo \in Completions
                               /\ lane'.todo.run = flights[inFlight].run
                               /\ lane'.todo.epoch = inFlight
  PROVE  AdapterInv'
<1>1. Typed'
  BY DEF AdapterInv, Typed, Calm
<1>2. FlightInv'
  BY DEF AdapterInv, FlightInv, Calm, Released
<1>3. LaneInv'
  BY DEF AdapterInv, LaneInv, Calm, Working, LaneHoldsMutex
<1>4. PendingInv'
  BY DEF AdapterInv, PendingInv, Calm, Released
<1>5. WatchdogInv'
  BY DEF AdapterInv, WatchdogInv, Calm, Released, Working
<1> QED BY <1>1, <1>2, <1>3, <1>4, <1>5 DEF AdapterInv

\* A proposed completion is one of the published activation.
LEMMA Proposes ==
  ASSUME AdapterInv, Calm, lane.pc \in {"run", "user"}, NEW kind \in Kinds,
         NEW drop \in BOOLEAN, NEW encoded \in BOOLEAN, Propose(kind, drop, encoded)
  PROVE  AdapterInv'
<1> DEFINE c == [run |-> flights[inFlight].run, epoch |-> inFlight, kind |-> kind, drop |-> drop,
                 encoded |-> encoded, refusal |-> FALSE]
<1>1. inFlight \in Epochs /\ flights[inFlight].run \in Runs
  BY DEF AdapterInv, LaneInv, Working
<1>2. c \in Completions /\ c.run = flights[inFlight].run /\ c.epoch = inFlight
  BY <1>1 DEF Completions
<1>3. lane' = [lane EXCEPT !.pc = "claim", !.todo = c]
  BY DEF Propose, Run
<1>4. lane'.pc = "claim" /\ lane'.todo = c
  BY <1>3 DEF AdapterInv, Typed
<1>5. lane' \in [pc : Lanes, todo : Completions \cup {Idle}, says : {"none", "retired", "error"}]
  BY <1>2, <1>3 DEF AdapterInv, Typed, Lanes
<1> QED BY <1>2, <1>4, <1>5, InsideKeeps

\* Rejections, acknowledgements and what workflow code may do.
LEMMA ActivationKeeps ==
  ASSUME AdapterInv, Reject \/ AcknowledgeEviction \/ EnterWorkflow \/ Yield
  PROVE  AdapterInv'
<1>1. Calm
  BY DEF Reject, AcknowledgeEviction, EnterWorkflow, Yield, Calm, coreVars
<1>2. \A job : FailureKind(job) \in Kinds
  BY DEF FailureKind, Kinds
<1>3. ASSUME NEW remove \in BOOLEAN, lane.pc \in {"run", "user"}, RetireWithFailure(remove)
      PROVE  AdapterInv'
  <2>1. PICK encoded \in BOOLEAN : Propose(FailureKind(Job), remove \/ Job # "query", encoded)
    BY <1>3 DEF RetireWithFailure
  <2>2. (remove \/ Job # "query") \in BOOLEAN
    OBVIOUS
  <2> QED BY <1>1, <1>2, <1>3, <2>1, <2>2, Proposes
<1>4. CASE Reject
  BY <1>3, <1>4 DEF Reject
<1>5. CASE AcknowledgeEviction
  BY <1>1, <1>5, Proposes DEF AcknowledgeEviction, Kinds
<1>6. CASE EnterWorkflow
  <2>1. lane' = [lane EXCEPT !.pc = "user"] /\ lane.pc = "run"
    BY <1>6 DEF EnterWorkflow
  <2>2. lane'.pc = "user"
        /\ lane' \in [pc : Lanes, todo : Completions \cup {Idle}, says : {"none", "retired", "error"}]
    BY <2>1 DEF AdapterInv, Typed, Lanes
  <2> QED BY <1>1, <2>1, <2>2, InsideKeeps
<1>7. CASE Yield
  <2> DEFINE kind == CASE Job = "query" -> "queries" [] Job = "evict" -> "ack" [] OTHER -> "commands"
  <2>1. kind \in Kinds /\ "failure" \in Kinds /\ (Job = "evict") \in BOOLEAN /\ (Run \in runs) \in BOOLEAN
    BY DEF Kinds
  <2>2. CASE Propose(kind, Job = "evict", TRUE)
    BY <1>1, <1>7, <2>1, <2>2, Proposes DEF Yield
  <2>3. CASE Propose("failure", TRUE, TRUE)
    BY <1>1, <1>7, <2>1, <2>3, Proposes DEF Yield
  <2>4. CASE RetireWithFailure(FALSE) \/ RetireWithFailure(Run \in runs)
    BY <1>3, <1>7, <2>1, <2>4 DEF Yield
  <2> QED BY <1>7, <2>2, <2>3, <2>4 DEF Yield
<1> QED BY <1>4, <1>5, <1>6, <1>7

\* The lane leaves the adapter alone.
LEMMA IdleKeeps ==
  ASSUME AdapterInv, PollError \/ Stop \/ LeaveRun \/ RunAgain PROVE AdapterInv'
<1>1. CASE PollError
  BY <1>1, OutsideKeeps DEF PollError, Calm, coreVars
<1>2. CASE Stop
  BY <1>2, OutsideKeeps DEF Stop, Calm, coreVars
<1>3. CASE LeaveRun
  <2>1. Calm
    BY <1>3 DEF LeaveRun, AttemptDiscard, DiscardLocked, Calm, coreVars
  <2> QED BY <1>3, <2>1, OutsideKeeps DEF LeaveRun
<1>4. CASE RunAgain
  <2>1. /\ lane.pc = "left" /\ lane' = [lane EXCEPT !.pc = "idle"] /\ wd' = Asleep
        /\ UNCHANGED <<flights, inFlight, next, shut, lease, hist, pending>>
    BY <1>4 DEF RunAgain, coreVars
  <2>2. lane'.pc = "idle" /\ lane'.todo = lane.todo /\ wd'.pc = "sleep"
    BY <2>1 DEF AdapterInv, Typed, Asleep
  <2>3. Typed'
    BY <2>1 DEF AdapterInv, Typed, Lanes, Asleep
  <2>4. FlightInv'
    BY <2>1, <2>2 DEF AdapterInv, FlightInv, Released
  <2>5. LaneInv'
    BY <2>1, <2>2 DEF AdapterInv, LaneInv, Working, LaneHoldsMutex
  <2>6. PendingInv'
    BY <2>1 DEF AdapterInv, PendingInv, Released
  <2>7. WatchdogInv'
    BY <2>2 DEF WatchdogInv
  <2> QED BY <2>3, <2>4, <2>5, <2>6, <2>7 DEF AdapterInv
<1> QED BY <1>1, <1>2, <1>3, <1>4

\* The lane turns to a retained completion.
LEMMA PollPendingKeeps == ASSUME AdapterInv, PollPending PROVE AdapterInv'
<1>1. PICK p \in pending : lane' = [lane EXCEPT !.pc = "submit", !.todo = p]
  BY DEF PollPending
<1>2. /\ UNCHANGED <<flights, inFlight, next, wd, shut, lease, hist, pending>>
      /\ lane.pc = "idle" /\ shut # "drain" /\ p \in Completions
  BY DEF PollPending, MutexFree, coreVars, AdapterInv, Typed
<1>3. lane'.pc = "submit" /\ lane'.todo = p
  BY <1>1 DEF AdapterInv, Typed
<1>4. Typed'
  BY <1>1, <1>2 DEF AdapterInv, Typed, Lanes
<1>5. FlightInv'
  BY <1>2, <1>3 DEF AdapterInv, FlightInv, Released
<1>6. LaneInv'
  BY <1>2, <1>3 DEF AdapterInv, LaneInv, Working, LaneHoldsMutex
<1>7. PendingInv'
  BY <1>2 DEF AdapterInv, PendingInv, Released
<1>8. WatchdogInv'
  BY <1>2, <1>3 DEF AdapterInv, WatchdogInv, Released, Working
<1> QED BY <1>4, <1>5, <1>6, <1>7, <1>8 DEF AdapterInv

\* The lane wins the claim: the lease passes to the completion it retains.
LEMMA ClaimKeeps == ASSUME AdapterInv, Claim PROVE AdapterInv'
<1>1. /\ UNCHANGED <<inFlight, next, wd, shut, lease, hist>>
      /\ lane.pc = "claim" /\ flights[inFlight].claim = "unclaimed"
      /\ flights' = [flights EXCEPT ![inFlight].claim = "lane"]
      /\ inFlight \in Epochs /\ pending = {} /\ lane.todo \in Completions
      /\ lane.todo.run = flights[inFlight].run /\ lane.todo.epoch = inFlight
      /\ shut # "drain"
  BY DEF Claim, LaneWinsClaim, coreVars, AdapterInv, LaneInv, Working, LaneHoldsMutex
<1>2. lane' = [lane EXCEPT !.pc = "submit"] /\ pending' = {lane.todo}
  BY <1>1 DEF Claim
<1>3. lane'.pc = "submit" /\ lane'.todo = lane.todo
  BY <1>2 DEF AdapterInv, Typed
<1>4. /\ flights' \in [Epochs -> Flights] /\ flights'[inFlight].claim = "lane"
      /\ \A e \in Epochs \ {inFlight} : flights'[e] = flights[e]
  BY <1>1 DEF AdapterInv, Typed, Flights
<1>5. Typed'
  BY <1>1, <1>2, <1>4 DEF AdapterInv, Typed, Lanes
<1>6. FlightInv'
  BY <1>1, <1>4 DEF AdapterInv, FlightInv
<1>7. LaneInv'
  BY <1>1, <1>2, <1>3 DEF LaneInv, Working
<1>8. PendingInv'
  BY <1>1, <1>2 DEF AdapterInv, FlightInv, PendingInv, Released
<1>9. WatchdogInv'
  BY <1>1 DEF AdapterInv, WatchdogInv
<1> QED BY <1>5, <1>6, <1>7, <1>8, <1>9 DEF AdapterInv

\* The lane has lost the claim: it waits for the watchdog, and is told.
LEMMA LoserKeeps == ASSUME AdapterInv, LoseClaim \/ AwaitWatchdog PROVE AdapterInv'
<1>1. UNCHANGED <<flights, inFlight, next, wd, shut, lease, hist, pending>>
  BY DEF LoseClaim, AwaitWatchdog, coreVars
<1>2. /\ \/ lane.pc = "claim" /\ lane'.pc = "await"
         \/ lane.pc = "await" /\ lane'.pc = "return"
      /\ lane' \in [pc : Lanes, todo : Completions \cup {Idle}, says : {"none", "retired", "error"}]
      /\ flights[inFlight].claim # "unclaimed"
      /\ lane.pc = "await" => flights[inFlight].outcome # "none"
  <2>1. CASE LoseClaim
    <3>1. /\ lane.pc = "claim" /\ lane' = [lane EXCEPT !.pc = "await"]
          /\ flights[inFlight].claim # "unclaimed"
      BY <2>1 DEF LoseClaim, LaneWinsClaim
    <3>2. lane \in [pc : Lanes, todo : Completions \cup {Idle}, says : {"none", "retired", "error"}]
      BY DEF AdapterInv, Typed
    <3> QED BY <3>1, <3>2 DEF Lanes
  <2>2. CASE AwaitWatchdog
    <3>1. flights[inFlight].claim # "unclaimed"
      BY <2>2 DEF AwaitWatchdog, AdapterInv, LaneInv, FlightInv, Working
    <3> QED BY <2>2, <3>1 DEF AwaitWatchdog, AdapterInv, Typed, Lanes
  <2> QED BY <2>1, <2>2
<1>3. inFlight \in Epochs /\ pending = {} /\ flights[inFlight].run \in Runs
  BY <1>2 DEF AdapterInv, LaneInv, Working
<1>4. Typed'
  BY <1>1, <1>2 DEF AdapterInv, Typed
<1>5. FlightInv'
  BY <1>1, <1>2, <1>3 DEF AdapterInv, FlightInv
<1>6. LaneInv'
  BY <1>1, <1>2, <1>3 DEF AdapterInv, LaneInv, Working, LaneHoldsMutex
<1>7. PendingInv'
  BY <1>1 DEF AdapterInv, PendingInv, Released
<1>8. WatchdogInv'
  BY <1>1, <1>2 DEF AdapterInv, WatchdogInv, Released, Working
<1> QED BY <1>4, <1>5, <1>6, <1>7, <1>8 DEF AdapterInv

\* The flight is withdrawn.
LEMMA ReturnKeeps == ASSUME AdapterInv, Return PROVE AdapterInv'
<1>1. /\ UNCHANGED <<next, wd, shut, lease, pending>> /\ lane.pc = "return" /\ inFlight' = 0
      /\ hist' = [hist EXCEPT !.age = 0]
      /\ lane'.pc \in {"stopping", "idle"} /\ lane'.todo = Idle /\ lane'.says = "none"
      /\ lane' = [pc |-> lane'.pc, todo |-> Idle, says |-> "none"]
      /\ flights' = flights \/ \E e : flights' = [flights EXCEPT ![e] = NoFlight]
  BY DEF Return, Collect
<1>2. /\ flights' \in [Epochs -> Flights]
      /\ \A e \in Epochs : flights'[e] = flights[e] \/ flights'[e].claim = "none"
  BY <1>1 DEF AdapterInv, Typed, Flights, NoFlight
<1>3. Typed'
  BY <1>1, <1>2 DEF AdapterInv, Typed, Lanes
<1>4. FlightInv'
  BY <1>1, <1>2 DEF AdapterInv, FlightInv
<1>5. LaneInv'
  BY <1>1 DEF AdapterInv, LaneInv, Working, LaneHoldsMutex
<1>6. PendingInv'
  BY <1>1 DEF AdapterInv, PendingInv, Released
<1>7. WatchdogInv'
  BY <1>1 DEF AdapterInv, WatchdogInv, Working
<1> QED BY <1>3, <1>4, <1>5, <1>6, <1>7 DEF AdapterInv

\* finish_pending, whoever calls it: the completion is submitted only while it
\* has the lease, and afterwards it has the lease or is never submitted again.
LEMMA FinishKeeps ==
  ASSUME AdapterInv, NEW p \in pending, NEW says \in {"retired", "error"},
         FinishPending(p, says), UNCHANGED <<flights, wd, inFlight, next>>,
         lane.pc \notin Working, lane'.pc \notin Working \cup {"claim", "submit"},
         lane' \in [pc : Lanes, todo : Completions \cup {Idle}, says : {"none", "retired", "error"}],
         lane'.pc \in {"idle", "stopping", "left"} => inFlight = 0,
         Released' = Released, shut' = "drain" => ~LaneHoldsMutex'
  PROVE  AdapterInv'
<1>1. /\ p \in Completions /\ p.run \in Runs /\ p.epoch \in Epochs /\ pending = {p}
      /\ 0 \notin Epochs
  BY DEF AdapterInv, Typed, PendingInv, Completions, Epochs
<1>2. \A b \in BOOLEAN : /\ [p EXCEPT !.refusal = b] \in Completions
                         /\ [p EXCEPT !.refusal = b].refusal = b
                         /\ [p EXCEPT !.refusal = b].run = p.run
                         /\ [p EXCEPT !.refusal = b].epoch = p.epoch
  BY <1>1 DEF Completions
<1>3. /\ hist' \in [stray : {FALSE}, broken : BOOLEAN, age : Nat]
      /\ lease' \in [Runs -> Epochs \cup {0}]
      /\ \/ pending' = {}
         \/ \E b \in BOOLEAN : /\ pending' = {[p EXCEPT !.refusal = b]}
                               /\ b \/ Released \/ lease'[p.run] = p.epoch
  <2>1. CASE p.refusal \/ ~p.encoded
    <3>1. pending' = {[p EXCEPT !.refusal = TRUE]} /\ lease' = lease /\ hist' = hist
      BY <1>1, <2>1 DEF FinishPending, Retained, coreVars
    <3> QED BY <3>1 DEF AdapterInv, Typed
  <2>2. CASE ~(p.refusal \/ ~p.encoded)
    <3>1. Released \/ lease[p.run] = p.epoch
      BY <2>2 DEF AdapterInv, PendingInv
    <3>2. PICK o \in Outcomes :
            /\ Complete(p, o)
            /\ IF o = "accepted" THEN pending' = pending \ {p}
               ELSE pending' = Retained(p, [p EXCEPT !.refusal = Refuses(o)])
      BY <2>2 DEF FinishPending
    <3>3. hist' \in [stray : {FALSE}, broken : BOOLEAN, age : Nat]
      <4>1. hist.stray = FALSE /\ hist \in [stray : {FALSE}, broken : BOOLEAN, age : Nat]
        BY DEF AdapterInv, Typed
      <4>2. hist' = [hist EXCEPT !.stray = hist.stray \/ (~Released /\ lease[p.run] # p.epoch)]
        BY <3>2 DEF Complete
      <4>3. (hist.stray \/ (~Released /\ lease[p.run] # p.epoch)) = FALSE
        BY <3>1, <4>1
      <4> QED BY <4>1, <4>2, <4>3
    <3>4. CASE Released
      <4>1. o = "refused" /\ lease' = lease
        BY <3>2, <3>4 DEF Complete, coreVars
      <4>2. pending' = {[p EXCEPT !.refusal = TRUE]}
        BY <1>1, <3>2, <4>1 DEF Refuses, Retained
      <4> QED BY <3>3, <4>1, <4>2 DEF AdapterInv, Typed
    <3>5. CASE ~Released
      <4>1. lease[p.run] = p.epoch /\ lease[p.run] # 0
        BY <1>1, <3>1, <3>5
      <4>2. lease' = IF o \in {"accepted", "uncertain"} THEN [lease EXCEPT ![p.run] = 0] ELSE lease
        BY <3>2, <3>5, <4>1 DEF Complete, Consume, coreVars
      <4>3. lease' \in [Runs -> Epochs \cup {0}]
        BY <4>2 DEF AdapterInv, Typed
      <4>4. CASE o = "accepted"
        BY <1>1, <3>2, <3>3, <4>3, <4>4
      <4>5. CASE o = "retryable"
        <5>0. Refuses(o) = FALSE
          BY <4>5 DEF Refuses
        <5>1. pending' = {[p EXCEPT !.refusal = FALSE]} /\ lease' = lease
          BY <1>1, <3>2, <4>2, <4>5, <5>0 DEF Retained
        <5> QED BY <3>3, <4>1, <4>3, <5>1
      <4>6. CASE o \in {"uncertain", "refused"}
        <5>1. pending' = {[p EXCEPT !.refusal = TRUE]}
          BY <1>1, <3>2, <4>6 DEF Refuses, Retained
        <5> QED BY <3>3, <4>3, <5>1
      <4> QED BY <4>4, <4>5, <4>6 DEF Outcomes
    <3> QED BY <3>4, <3>5
  <2> QED BY <2>1, <2>2
<1>4. Typed'
  <2>1. pending' \subseteq Completions
    BY <1>2, <1>3
  <2>2. /\ flights' \in [Epochs -> Flights] /\ inFlight' \in Epochs \cup {0}
        /\ next' \in 1 .. MaxEpochs + 1
        /\ wd' \in [pc : {"sleep", "abandon", "swap", "fail", "report", "exited"},
                    observed : Epochs \cup {0}, elapsed : Nat, fired : Epochs \cup {0}]
    BY DEF AdapterInv, Typed
  <2> QED BY <1>3, <2>1, <2>2 DEF Typed
<1>5. FlightInv'
  BY DEF AdapterInv, FlightInv, Working
<1>6. LaneInv'
  BY DEF LaneInv
<1>7. PendingInv'
  BY <1>2, <1>3 DEF PendingInv
<1>8. WatchdogInv'
  BY DEF AdapterInv, WatchdogInv
<1> QED BY <1>4, <1>5, <1>6, <1>7, <1>8 DEF AdapterInv

\* Retained completions are finished by the lane or by the shutdown drain.
LEMMA SubmitsKeep == ASSUME AdapterInv, Submit \/ Drain PROVE AdapterInv'
<1>1. CASE Submit
  <2>1. PICK says \in {"retired", "error"} :
          FinishPending(lane.todo, says) /\ lane' = [lane EXCEPT !.pc = "return", !.says = says]
    BY <1>1 DEF Submit
  <2>2. /\ lane.pc = "submit" /\ UNCHANGED <<flights, wd, inFlight, next, shut>>
        /\ lane.todo \in pending /\ shut # "drain"
    BY <1>1 DEF Submit, AdapterInv, LaneInv, LaneHoldsMutex
  <2>3. /\ lane'.pc = "return"
        /\ lane' \in [pc : Lanes, todo : Completions \cup {Idle}, says : {"none", "retired", "error"}]
    BY <2>1 DEF AdapterInv, Typed, Lanes
  <2>4. Released' = Released
    BY <2>2 DEF Released
  <2> QED BY <2>1, <2>2, <2>3, <2>4, FinishKeeps DEF Working
<1>2. CASE Drain
  <2>1. /\ shut = "drain" /\ UNCHANGED <<lane, flights, wd, inFlight, next>>
        /\ ~LaneHoldsMutex /\ lane.pc \in {"idle", "stopping", "left"} /\ inFlight = 0
    BY <1>2 DEF Drain, AdapterInv, LaneInv, LaneHoldsMutex, Typed, Lanes
  <2>2. CASE \E p \in pending, says \in {"retired", "error"} :
               FinishPending(p, says) /\ shut' = IF says = "error" THEN "drained" ELSE "drain"
    <3>1. PICK p \in pending, says \in {"retired", "error"} :
            FinishPending(p, says) /\ shut' = IF says = "error" THEN "drained" ELSE "drain"
      BY <2>2
    <3>2. Released' = Released /\ (shut' = "drain" => ~LaneHoldsMutex')
      BY <2>1, <3>1 DEF Released, LaneHoldsMutex
    <3>3. lane' \in [pc : Lanes, todo : Completions \cup {Idle}, says : {"none", "retired", "error"}]
      BY <2>1 DEF AdapterInv, Typed
    <3> QED BY <2>1, <3>1, <3>2, <3>3, FinishKeeps DEF Working
  <2>3. CASE pending = {} /\ shut' = "drained" /\ UNCHANGED <<runs, pending, coreVars, hist>>
    <3>1. UNCHANGED <<lease, hist, pending>> /\ Released' = Released /\ shut' = "drained"
      BY <2>1, <2>3 DEF Released, coreVars
    <3>2. Typed'
      BY <2>1, <3>1 DEF AdapterInv, Typed
    <3>3. FlightInv'
      BY <2>1, <3>1 DEF AdapterInv, FlightInv
    <3>4. LaneInv'
      BY <2>1, <3>1 DEF AdapterInv, LaneInv
    <3>5. PendingInv' /\ WatchdogInv'
      BY <2>1, <3>1 DEF AdapterInv, PendingInv, WatchdogInv
    <3> QED BY <3>2, <3>3, <3>4, <3>5 DEF AdapterInv
  <2> QED BY <1>2, <2>2, <2>3 DEF Drain
<1> QED BY <1>1, <1>2

\* The watchdog samples the slot and looks the flight up; it changes no flight.
LEMMA SamplingKeeps == ASSUME AdapterInv, Tick \/ WatchdogExits \/ FindFlight PROVE AdapterInv'
<1>1. UNCHANGED <<flights, inFlight, next, lane, shut, lease, pending>>
  BY DEF Tick, WatchdogExits, FindFlight, adapterVars, coreVars
<1>2. /\ hist' \in [stray : {FALSE}, broken : BOOLEAN, age : Nat]
      /\ wd' \in [pc : {"sleep", "abandon", "swap", "fail", "report", "exited"},
                  observed : Epochs \cup {0}, elapsed : Nat, fired : Epochs \cup {0}]
      /\ wd'.pc # "fail" /\ (wd'.pc \notin {"sleep", "exited"} => wd'.fired \in Epochs)
  <2>1. CASE Tick
    <3>1. hist' \in [stray : {FALSE}, broken : BOOLEAN, age : Nat]
      <4>1. \A n \in Nat : Capped(n) \in Nat
        BY BoundsAssumption DEF Capped
      <4>2. hist \in [stray : {FALSE}, broken : BOOLEAN, age : Nat]
        BY DEF AdapterInv, Typed
      <4>3. Capped(hist.age + 1) \in Nat
        BY <4>1, <4>2
      <4> QED BY <2>1, <4>2, <4>3 DEF Tick
    <3>2. RunningEpoch \in Epochs \cup {0} /\ (RunningEpoch # 0 => RunningEpoch \in Epochs)
      BY DEF RunningEpoch, AdapterInv, Typed, Epochs
    <3>3. Elapsed \in Nat
      BY BoundsAssumption DEF Elapsed, Capped, AdapterInv, Typed
    <3>4. wd.fired \in Epochs \cup {0}
      BY DEF AdapterInv, Typed
    <3>5. PICK fire \in BOOLEAN :
            /\ fire => RunningEpoch # 0
            /\ wd' = [pc |-> IF fire THEN "abandon" ELSE "sleep", observed |-> RunningEpoch,
                      elapsed |-> Elapsed, fired |-> IF fire THEN RunningEpoch ELSE wd.fired]
      BY <2>1 DEF Tick
    <3>6. CASE fire = TRUE
      <4>1. wd' = [pc |-> "abandon", observed |-> RunningEpoch, elapsed |-> Elapsed,
                   fired |-> RunningEpoch]
        BY <3>5, <3>6
      <4>2. RunningEpoch \in Epochs
        BY <3>2, <3>5, <3>6
      <4> QED BY <3>1, <3>2, <3>3, <4>1, <4>2
    <3>7. CASE fire = FALSE
      <4>1. wd' = [pc |-> "sleep", observed |-> RunningEpoch, elapsed |-> Elapsed,
                   fired |-> wd.fired]
        BY <3>5, <3>7
      <4> QED BY <3>1, <3>2, <3>3, <3>4, <4>1
    <3> QED BY <3>5, <3>6, <3>7
  <2>2. CASE WatchdogExits
    BY <2>2 DEF WatchdogExits, Asleep, AdapterInv, Typed
  <2>3. CASE FindFlight
    BY <2>3 DEF FindFlight, AdapterInv, Typed, WatchdogInv
  <2> QED BY <2>1, <2>2, <2>3
<1>3. Typed'
  BY <1>1, <1>2 DEF AdapterInv, Typed
<1>4. FlightInv' /\ LaneInv' /\ PendingInv'
  BY <1>1 DEF AdapterInv, FlightInv, LaneInv, PendingInv, Released, LaneHoldsMutex
<1>5. WatchdogInv'
  BY <1>2 DEF WatchdogInv
<1> QED BY <1>3, <1>4, <1>5 DEF AdapterInv

\* The watchdog takes an unclaimed flight only, and so takes its lease over.
LEMMA SwapKeeps == ASSUME AdapterInv, SwapClaim PROVE AdapterInv'
<1>1. /\ UNCHANGED <<inFlight, next, lane, shut, lease, pending, hist>>
      /\ wd.pc = "swap" /\ wd.fired \in Epochs
      /\ wd \in [pc : {"sleep", "abandon", "swap", "fail", "report", "exited"},
                 observed : Epochs \cup {0}, elapsed : Nat, fired : Epochs \cup {0}]
  BY DEF SwapClaim, AdapterInv, WatchdogInv, Typed, coreVars
<1>2. Released' = Released /\ LaneHoldsMutex' = LaneHoldsMutex
  BY <1>1 DEF Released, LaneHoldsMutex
<1>3. PendingInv'
  BY <1>1, <1>2 DEF AdapterInv, PendingInv
<1>4. CASE WatchdogWinsClaim
  <2>1. /\ flights' = [flights EXCEPT ![wd.fired].claim = "watchdog"]
        /\ wd' = [wd EXCEPT !.pc = "fail"]
    BY <1>4 DEF SwapClaim
  <2>2. /\ inFlight = wd.fired /\ flights[wd.fired].outcome = "none"
        /\ lane.pc \in {"run", "user", "claim"} /\ flights[wd.fired].run \in Runs
        /\ Released \/ lease[flights[wd.fired].run] = wd.fired
    BY <1>1, <1>4 DEF WatchdogWinsClaim, AdapterInv, FlightInv
  <2>3. flights \in [Epochs -> Flights]
    BY DEF AdapterInv, Typed
  <2>4. /\ flights' \in [Epochs -> Flights]
        /\ \A e \in Epochs : /\ flights'[e].run = flights[e].run
                             /\ flights'[e].outcome = flights[e].outcome
                             /\ flights'[e].claim = IF e = wd.fired THEN "watchdog"
                                                    ELSE flights[e].claim
    BY <1>1, <2>1, <2>3 DEF Flights
  <2>5. wd'.pc = "fail" /\ wd'.fired = wd.fired
    BY <1>1, <2>1
  <2>6. Typed'
    BY <1>1, <2>1, <2>4 DEF AdapterInv, Typed
  <2>7. FlightInv'
    BY <1>1, <1>2, <2>4 DEF AdapterInv, FlightInv
  <2>8. LaneInv'
    BY <1>1, <1>2, <2>4 DEF AdapterInv, LaneInv, Working
  <2>9. WatchdogInv'
    BY <1>1, <1>2, <2>2, <2>4, <2>5 DEF WatchdogInv, Working
  <2> QED BY <1>3, <2>6, <2>7, <2>8, <2>9 DEF AdapterInv
<1>5. CASE ~WatchdogWinsClaim
  <2>1. wd' = [wd EXCEPT !.pc = "sleep"] /\ flights' = flights
    BY <1>5 DEF SwapClaim
  <2>2. Typed' /\ WatchdogInv'
    BY <1>1, <2>1 DEF AdapterInv, Typed, WatchdogInv
  <2>3. FlightInv' /\ LaneInv'
    BY <1>1, <1>2, <2>1 DEF AdapterInv, FlightInv, LaneInv
  <2> QED BY <1>3, <2>2, <2>3 DEF AdapterInv
<1> QED BY <1>4, <1>5

\* The watchdog's submission is for the lease it took over.
LEMMA FailTaskKeeps == ASSUME AdapterInv, FailTask PROVE AdapterInv'
<1>1. /\ UNCHANGED <<inFlight, next, lane, shut, pending>>
      /\ wd.pc = "fail" /\ wd' = [wd EXCEPT !.pc = "report"]
  BY DEF FailTask
<1>2. /\ wd.fired \in Epochs /\ inFlight = wd.fired /\ lane.pc \in Working
      /\ flights[inFlight].claim = "watchdog" /\ pending = {}
      /\ Released \/ lease[flights[inFlight].run] = inFlight
      /\ flights[inFlight].run \in Runs /\ 0 \notin Epochs
  BY <1>1 DEF AdapterInv, WatchdogInv, LaneInv, Epochs
<1>3. Released' = Released /\ LaneHoldsMutex' = LaneHoldsMutex
  BY <1>1 DEF Released, LaneHoldsMutex
<1>4. wd' \in [pc : {"sleep", "abandon", "swap", "fail", "report", "exited"},
               observed : Epochs \cup {0}, elapsed : Nat, fired : Epochs \cup {0}]
      /\ wd'.pc = "report" /\ wd'.fired = wd.fired
  BY <1>1 DEF AdapterInv, Typed
<1>5. PICK ok \in BOOLEAN : flights' = [flights EXCEPT ![wd.fired].outcome = Published(ok)]
  BY DEF FailTask
<1>6. /\ flights' \in [Epochs -> Flights]
      /\ \A e \in Epochs : /\ flights'[e].run = flights[e].run
                           /\ flights'[e].claim = flights[e].claim
                           /\ e # wd.fired => flights'[e] = flights[e]
  BY <1>2, <1>5 DEF Published, Flights, AdapterInv, Typed
<1>7. /\ hist' \in [stray : {FALSE}, broken : BOOLEAN, age : Nat]
      /\ lease' \in [Runs -> Epochs \cup {0}]
  <2>1. hist.stray = FALSE /\ hist \in [stray : {FALSE}, broken : BOOLEAN, age : Nat]
        /\ lease \in [Runs -> Epochs \cup {0}]
    BY DEF AdapterInv, Typed
  <2>2. CASE UNCHANGED <<coreVars, hist>>
    BY <2>1, <2>2 DEF coreVars
  <2>3. CASE ~UNCHANGED <<coreVars, hist>>
    <3> DEFINE c == [run |-> flights[wd.fired].run, epoch |-> wd.fired,
                     kind |-> FailureKind(flights[wd.fired].job)]
    <3>1. PICK o \in Outcomes : Complete(c, o)
      BY <2>3 DEF FailTask
    <3>2. c.run = flights[inFlight].run /\ c.epoch = inFlight
      BY <1>2
    <3> HIDE DEF c
    <3>3. hist' = [hist EXCEPT !.stray = hist.stray \/ (~Released /\ lease[c.run] # c.epoch)]
      BY <3>1 DEF Complete
    <3>4. (hist.stray \/ (~Released /\ lease[c.run] # c.epoch)) = FALSE
      BY <1>2, <2>1, <3>2
    <3>5. lease' = lease \/ lease' = [lease EXCEPT ![c.run] = 0]
      BY <3>1 DEF Complete, Consume, coreVars
    <3> QED BY <1>2, <2>1, <3>2, <3>3, <3>4, <3>5
  <2> QED BY <2>2, <2>3
<1>8. Typed'
  BY <1>1, <1>4, <1>6, <1>7 DEF AdapterInv, Typed
<1>9. \A e \in Epochs : flights'[e].claim # "unclaimed"
  BY <1>2, <1>6 DEF AdapterInv, FlightInv
<1>10. FlightInv'
  BY <1>9 DEF FlightInv
<1>11. LaneInv'
  BY <1>1, <1>2, <1>3, <1>6 DEF AdapterInv, LaneInv
<1>12. PendingInv'
  BY <1>1, <1>2 DEF PendingInv
<1>13. WatchdogInv'
  BY <1>2, <1>4 DEF WatchdogInv
<1> QED BY <1>8, <1>10, <1>11, <1>12, <1>13 DEF AdapterInv

\* A flight that the watchdog collects is no longer the published one.
LEMMA ReportKeeps == ASSUME AdapterInv, ReportStuck PROVE AdapterInv'
<1>1. /\ UNCHANGED <<inFlight, next, lane, shut, lease, pending, hist>>
      /\ wd' = [wd EXCEPT !.pc = "sleep"] /\ wd.fired \in Epochs
  BY DEF ReportStuck, AdapterInv, WatchdogInv
<1>2. \/ flights' = flights
      \/ inFlight # wd.fired /\ flights' = [flights EXCEPT ![wd.fired] = NoFlight]
  BY DEF ReportStuck, Collect
<1>3. Released' = Released /\ LaneHoldsMutex' = LaneHoldsMutex
  BY <1>1 DEF Released, LaneHoldsMutex
<1>4. /\ flights' \in [Epochs -> Flights]
      /\ \A e \in Epochs : flights'[e] = flights[e] \/ flights'[e].claim = "none"
      /\ inFlight \in Epochs => flights'[inFlight] = flights[inFlight]
  BY <1>1, <1>2 DEF AdapterInv, Typed, Flights, NoFlight
<1>5. Typed'
  BY <1>1, <1>4 DEF AdapterInv, Typed
<1>6. FlightInv'
  BY <1>1, <1>3, <1>4 DEF AdapterInv, FlightInv
<1>7. LaneInv'
  BY <1>1, <1>3, <1>4 DEF AdapterInv, LaneInv, Working
<1>8. PendingInv'
  BY <1>1, <1>3 DEF AdapterInv, PendingInv
<1>9. wd'.pc = "sleep"
  BY <1>1 DEF AdapterInv, Typed
<1>10. WatchdogInv'
  BY <1>9 DEF WatchdogInv
<1> QED BY <1>5, <1>6, <1>7, <1>8, <1>10 DEF AdapterInv

\* The shutdown thread submits nothing outside its drain; it drains only while
\* it holds the adapter mutex, and discards only when the mutex is free.
LEMMA ShutdownKeeps ==
  ASSUME AdapterInv, BeginShutdown \/ BeginDrain \/ Release \/ RequestDiscard \/ Discard
  PROVE  AdapterInv'
<1>1. UNCHANGED <<flights, inFlight, next, lane, wd, lease, hist>>
  BY DEF BeginShutdown, BeginDrain, Release, RequestDiscard, Discard, adapterVars, coreVars
<1>2. pending' = pending \/ (pending' = {} /\ ~LaneHoldsMutex)
  BY DEF BeginShutdown, BeginDrain, Release, RequestDiscard, Discard, adapterVars,
         AttemptDiscard, DiscardLocked, MutexFree
<1>3. /\ Released => Released'
      /\ shut' = "drain" => ~LaneHoldsMutex
  BY DEF BeginShutdown, BeginDrain, Release, RequestDiscard, Discard, Released, MutexFree
<1>4. LaneHoldsMutex' = LaneHoldsMutex
  BY <1>1 DEF LaneHoldsMutex
<1>5. Typed'
  BY <1>1, <1>2 DEF AdapterInv, Typed
<1>6. FlightInv'
  BY <1>1, <1>3 DEF AdapterInv, FlightInv
<1>7. LaneInv'
  <2>1. lane.pc = "submit" => pending' = pending
    BY <1>2 DEF LaneHoldsMutex
  <2> QED BY <1>1, <1>2, <1>3, <1>4, <2>1 DEF AdapterInv, LaneInv
<1>8. PendingInv'
  BY <1>1, <1>2, <1>3 DEF AdapterInv, PendingInv
<1>9. WatchdogInv'
  BY <1>1, <1>3 DEF AdapterInv, WatchdogInv
<1> QED BY <1>5, <1>6, <1>7, <1>8, <1>9 DEF AdapterInv

\* Every step of the lane, the watchdog and the shutdown keeps the invariant.
LEMMA NextKeepsAdapterInv == AdapterInv /\ [Next]_vars => AdapterInv'
<1> SUFFICES ASSUME AdapterInv, [Next]_vars PROVE AdapterInv'
  OBVIOUS
<1>1. CASE UNCHANGED vars
  <2>1. UNCHANGED <<flights, inFlight, next, lane, wd, lease, hist, pending, shut>>
    BY <1>1 DEF vars
  <2>2. Released' = Released /\ LaneHoldsMutex' = LaneHoldsMutex
    BY <2>1 DEF Released, LaneHoldsMutex
  <2>3. Typed' /\ FlightInv'
    BY <2>1, <2>2 DEF AdapterInv, Typed, FlightInv
  <2>4. LaneInv' /\ PendingInv' /\ WatchdogInv'
    BY <2>1, <2>2 DEF AdapterInv, LaneInv, PendingInv, WatchdogInv
  <2> QED BY <2>3, <2>4 DEF AdapterInv
<1>2. CASE \E r \in Runs, job \in Jobs : PollWork(r, job)
  BY <1>2, PollKeeps
<1>3. CASE PollPending
  BY <1>3, PollPendingKeeps
<1>4. CASE PollError \/ Stop \/ LeaveRun \/ RunAgain
  BY <1>4, IdleKeeps
<1>5. CASE Reject \/ AcknowledgeEviction \/ EnterWorkflow \/ Yield
  BY <1>5, ActivationKeeps
<1>6. CASE Claim
  BY <1>6, ClaimKeeps
<1>7. CASE LoseClaim \/ AwaitWatchdog
  BY <1>7, LoserKeeps
<1>8. CASE Submit \/ Drain
  BY <1>8, SubmitsKeep
<1>9. CASE Return
  BY <1>9, ReturnKeeps
<1>10. CASE Tick \/ WatchdogExits \/ FindFlight
  BY <1>10, SamplingKeeps
<1>11. CASE SwapClaim
  BY <1>11, SwapKeeps
<1>12. CASE FailTask
  BY <1>12, FailTaskKeeps
<1>13. CASE ReportStuck
  BY <1>13, ReportKeeps
<1>14. CASE BeginShutdown \/ BeginDrain \/ Release \/ RequestDiscard \/ Discard
  BY <1>14, ShutdownKeeps
<1> QED BY <1>1, <1>2, <1>3, <1>4, <1>5, <1>6, <1>7, <1>8, <1>9, <1>10, <1>11, <1>12,
           <1>13, <1>14 DEF Next

\* For any runs, any number of activations and any deadline: whichever of the
\* lane, its retries, the watchdog and the shutdown drain submits a completion,
\* its activation's lease is still open, so that the compare-and-set on the
\* claim and the retention of one completion are enough for one answer each.
THEOREM ActivationsHaveOneAnswer == Spec => []OneAnswer
<1>1. AdapterInv => OneAnswer
  <2> SUFFICES ASSUME AdapterInv PROVE ~hist.stray
    BY DEF OneAnswer
  <2>1. hist \in [stray : {FALSE}, broken : BOOLEAN, age : Nat]
    BY DEF AdapterInv, Typed
  <2> QED BY <2>1
<1> QED BY InitAdapterInv, NextKeepsAdapterInv, <1>1, PTL DEF Spec
=============================================================================
