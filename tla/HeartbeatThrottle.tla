------------------------- MODULE HeartbeatThrottle -------------------------
(***************************************************************************)
(* The heartbeat throttle of heartbeat_throttle.rs: at most one heartbeat  *)
(* per token and interval is sent, by the driver task of the token, and    *)
(* what is recorded meanwhile is kept for the trailing send.               *)
(*                                                                         *)
(* Details are named by the call that recorded them.  The flags that the   *)
(* server returns are carried unchanged and are left out, and so is the    *)
(* length of the interval.                                                 *)
(***************************************************************************)
EXTENDS Integers, FiniteSets, TLC

CONSTANTS
    Drivers,     \* the state identifiers that next_id hands out: 0, 1, ...
    Faulty,      \* the drivers that may panic
    NoDetails,   \* no pending details
    max_tokens   \* the tokens that may have state

VARIABLES
    tokens,     \* ThrottleState.tokens: [id, pending, sending] of a token
    driver,     \* each driver: stage, token, details it sends last, replied
    handles,    \* ThrottleState.drivers: the drivers whose handle is kept
    drained,    \* the handles that shutdown took out, to abort and join
    cancelled,  \* the drivers whose task was aborted
    next_id, closed

throttleVars == <<tokens, driver, handles, drained, cancelled, next_id, closed>>

Idle == [stage |-> "none", token |-> "", details |-> NoDetails, replied |-> FALSE]

ThrottleInit ==
    /\ tokens = <<>> /\ handles = {} /\ drained = {} /\ cancelled = {} /\ next_id = 0 /\ closed = FALSE
    /\ driver = [d \in Drivers |-> Idle]

\* Another throttle takes the place of one that was shut down; its drivers have
\* finished when they were joined.
Fresh ==
    /\ tokens' = <<>> /\ handles' = {} /\ drained' = {} /\ cancelled' = {} /\ next_id' = 0 /\ closed' = FALSE
    /\ driver' = [d \in Drivers |-> IF driver[d].stage = "finished" THEN Idle ELSE driver[d]]

Without(t)  == [k \in DOMAIN tokens \ {t} |-> tokens[k]]

current(d) == driver[d].token \in DOMAIN tokens /\ tokens[driver[d].token].id = d

(***************************************************************************)
(* Called by the tasks of heartbeats and of terminal requests.             *)
(***************************************************************************)
\* What record makes of a heartbeat for token t.
admission(t) ==
    CASE t \in DOMAIN tokens -> "coalesced"
      [] t \notin DOMAIN tokens /\ (closed \/ Cardinality(DOMAIN tokens) >= max_tokens) -> "unthrottled"
      [] OTHER -> "sent"

\* The handles of the drivers that have not finished.
unfinished == {d \in handles : driver[d].stage # "finished"}

record(t, details) ==
    CASE admission(t) = "coalesced" ->
           /\ tokens' = [tokens EXCEPT ![t].pending = details]
           /\ UNCHANGED <<driver, handles, drained, cancelled, next_id, closed>>
      [] admission(t) = "unthrottled" -> UNCHANGED throttleVars
      [] OTHER ->
           /\ tokens' = tokens @@ (t :> [id |-> next_id, pending |-> NoDetails, sending |-> TRUE])
           /\ driver' = [driver EXCEPT ![next_id] =
                           [stage |-> "sending", token |-> t, details |-> details, replied |-> FALSE]]
           /\ handles' = unfinished \cup {next_id}
           /\ next_id' = next_id + 1
           /\ UNCHANGED <<drained, cancelled, closed>>

\* The pending details that evict returns, and the sleeping driver to abort.
evicted(t)  == IF t \in DOMAIN tokens THEN tokens[t].pending ELSE NoDetails
sleeping(t) == IF t \in DOMAIN tokens /\ ~tokens[t].sending /\ tokens[t].id \in handles
               THEN {tokens[t].id} ELSE {}

evict(t) == tokens' = Without(t) /\ UNCHANGED <<driver, handles, drained, cancelled, next_id, closed>>

AbortDrivers(drivers) ==
    cancelled' = cancelled \cup drivers /\ UNCHANGED <<tokens, driver, handles, drained, next_id, closed>>

\* The drivers are aborted after the lock is released, by AbortDrivers.
shutdown ==
    /\ closed' = TRUE /\ tokens' = <<>> /\ drained' = handles /\ handles' = {}
    /\ UNCHANGED <<driver, cancelled, next_id>>

(***************************************************************************)
(* The driver of a token.                                                  *)
(***************************************************************************)
Stage(d, stage) == driver' = [driver EXCEPT ![d].stage = stage]

AnyState(d, ok) ==
    LET t == driver[d].token
    IN  tokens' = IF t \notin DOMAIN tokens THEN tokens
                  ELSE IF ok THEN [tokens EXCEPT ![t].sending = FALSE] ELSE Without(t)

\* The outcome of a send, unless the state of the driver was removed.
finish_send(d, ok) ==
    tokens' = IF ~current(d) THEN tokens
              ELSE IF ok THEN [tokens EXCEPT ![driver[d].token].sending = FALSE]
              ELSE Without(driver[d].token)

SendEnds(d, ok) ==
    /\ driver[d].stage = "sending"
    /\ finish_send(d, ok)
    /\ driver' = [driver EXCEPT ![d].stage = IF ok /\ current(d) THEN "sleeping" ELSE "leaving",
                                ![d].replied = TRUE]
    /\ UNCHANGED <<handles, drained, cancelled, next_id, closed>>

\* The interval is over: take_pending begins the trailing send or removes the
\* state.
take_pending(d) ==
    LET t       == driver[d].token
        pending == tokens[t].pending
    IN  /\ driver[d].stage = "sleeping"
        /\ IF current(d) /\ pending # NoDetails
           THEN /\ tokens' = [tokens EXCEPT ![t].pending = NoDetails, ![t].sending = TRUE]
                /\ driver' = [driver EXCEPT ![d].stage = "sending", ![d].details = pending]
           ELSE /\ tokens' = IF current(d) THEN Without(t) ELSE tokens
                /\ Stage(d, "leaving")
        /\ UNCHANGED <<handles, drained, cancelled, next_id, closed>>

\* A panic, or the abort of the task at an await.
DriverUnwinds(d) ==
    /\ d \in cancelled \cup Faulty
    /\ driver[d].stage \in {"sending", "sleeping"}
    /\ Stage(d, "leaving")
    /\ UNCHANGED <<tokens, handles, drained, cancelled, next_id, closed>>

\* DriverGuard::drop, remove_if_current.
DriverLeaves(d) ==
    /\ driver[d].stage = "leaving"
    /\ tokens' = IF current(d) THEN Without(driver[d].token) ELSE tokens
    /\ Stage(d, "finished")
    /\ UNCHANGED <<handles, drained, cancelled, next_id, closed>>

\* The first send was reported, or its driver is gone.
Reported(d) == driver[d].replied \/ driver[d].stage \in {"leaving", "finished"}

DriverStep(d) ==
    \/ \E ok \in BOOLEAN : SendEnds(d, ok)
    \/ take_pending(d)
    \/ DriverUnwinds(d)
    \/ DriverLeaves(d)
=============================================================================
