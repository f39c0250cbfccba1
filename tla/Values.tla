------------------------------- MODULE Values -------------------------------
(***************************************************************************)
(* The values of the semantic protocol of rust/core-bridge/src that its    *)
(* rules tell apart, and the rules on single values in                     *)
(* workflow_protocol.rs: texts, times, payloads, payload maps, retry       *)
(* policies and priorities.                                                *)
(*                                                                         *)
(* A text is one of a few representatives: what the code looks at is       *)
(* whether it is empty, holds a NUL, or is longer than MAX_STRING_BYTES.   *)
(* A payload is its size against MAX_PAYLOAD_BYTES and its metadata keys.  *)
(* A conversion that fails yields Err, an absent option is None.           *)
(***************************************************************************)
EXTENDS Integers, Sequences, Functions

CONSTANTS
    None,                \* an absent Option
    Err,                 \* the result of a conversion or check that fails
    MaxDurationSeconds,  \* MAX_DURATION_SECONDS, scaled down
    NanosPerSecond,      \* 1_000_000_000, scaled down
    TaskTimeoutLimit     \* the 120 seconds of a workflow task timeout, scaled

ASSUME ScaleAssumption ==
    /\ MaxDurationSeconds \in Nat \ {0}
    /\ NanosPerSecond \in Nat \ {0}
    /\ TaskTimeoutLimit \in 1..MaxDurationSeconds

(***************************************************************************)
(* Options and results.                                                    *)
(***************************************************************************)
Option(Op(_), v) == IF v = None THEN None ELSE Op(v)

Each(Op(_), s) == LET t == [i \in DOMAIN s |-> Op(s[i])]
                  IN  IF t # <<>> /\ \E i \in DOMAIN t : t[i] = Err THEN Err ELSE t

NoErr(record) == \A field \in DOMAIN record : record[field] # Err
Checked(record) == IF NoErr(record) THEN record ELSE Err

(***************************************************************************)
(* Texts.                                                                  *)
(***************************************************************************)
NulTexts  == {"nul", "long nul", "cut nul"}
LongTexts == {"long", "long nul"}
Texts     == {"", "a", "b", "nul", "long", "long nul", "cut", "cut nul", "replaced"}

identifier(t)   == t # "" /\ t \notin LongTexts /\ t \notin NulTexts
bounded_text(t) == t \notin LongTexts
signal_identity(t) == bounded_text(t) /\ t \notin NulTexts

\* The truncation keeps a prefix and appends a marker; a NUL may be in it.
inbound_text(t) == CASE t = "long" -> "cut" [] t = "long nul" -> "cut nul" [] OTHER -> t

replaceNul(t) == CASE t = "nul" -> "replaced" [] t = "long nul" -> "long"
                   [] t = "cut nul" -> "cut" [] OTHER -> t
inbound_identity(t) == inbound_text(replaceNul(t))

(***************************************************************************)
(* Times and durations: seconds and nanoseconds.                           *)
(***************************************************************************)
Time(s, n) == [s |-> s, n |-> n]
Zero       == Time(0, 0)

validate_time(d, duration) ==
    /\ d.n \in 0..(NanosPerSecond - 1)
    /\ duration => d.s \in 0..MaxDurationSeconds

OptionalTime(d, duration) == d # None => validate_time(d, duration)

Later(d, e) == d.s > e.s \/ (d.s = e.s /\ d.n > e.n)

validate_close_timeout(d) == d # Zero

duration_from_core(d) == IF validate_time(d, TRUE) THEN d ELSE Err

inbound_retry_delay_from_core(d) ==
    IF d.s < 0 \/ d.n < 0 THEN None ELSE duration_from_core(d)

inbound_interval(d) ==
    IF d # None /\ d.s >= 0 /\ d.n >= 0 THEN duration_from_core(d) ELSE Zero

validate_child_timeouts(execution, run, task) ==
    LET bound == IF run # None THEN run ELSE execution
    IN  /\ \A d \in {execution, run, task} \ {None} : validate_time(d, TRUE) /\ d # Zero
        /\ task # None => ~Later(task, Time(TaskTimeoutLimit, 0))
        /\ execution # None /\ run # None => ~Later(run, execution)
        /\ task # None /\ bound # None => ~Later(task, bound)

(***************************************************************************)
(* Payloads and maps of payloads.                                          *)
(***************************************************************************)
Payload(size, keys) == [size |-> size, keys |-> keys]
Plain == Payload("ok", {"a"})

validate_payload_limits(p) == p.size # "big" /\ p.keys \cap ({""} \cup LongTexts) = {}

payload_from_core(p) ==
    IF p.size = "big" \/ p.keys \cap LongTexts # {}
    THEN Err ELSE [p EXCEPT !.keys = @ \ {""}]

payload_to_core(p) == IF validate_payload_limits(p) THEN p ELSE Err

payload_vec_from_core(ps) == Each(payload_from_core, ps)
payload_vec_to_core(ps)   == Each(payload_to_core, ps)

validate_failure_payloads(ps) == \A i \in DOMAIN ps : validate_payload_limits(ps[i])

addressable_map_key(k) == identifier(k)

MapValues(Op(_), m) == LET c == [k \in DOMAIN m |-> Op(m[k])]
                       IN  IF c # <<>> /\ Err \in Range(c) THEN Err ELSE c

inbound_payload_map_from_core(m) ==
    MapValues(payload_from_core, Restrict(m, {k \in DOMAIN m : addressable_map_key(k)}))

KeysAreIdentifiers(m) == m # None => \A k \in DOMAIN m : identifier(k)

(***************************************************************************)
(* Retry policies and priorities.  A coefficient or a weight is a class of *)
(* floating-point values; its bits are carried unchanged.                  *)
(***************************************************************************)
RetryPolicy(initial, coefficient, maximum, attempts, types) ==
    [initial |-> initial, coefficient |-> coefficient, maximum |-> maximum,
     attempts |-> attempts, types |-> types]

validate_retry_policy(p) ==
    /\ validate_time(p.initial, TRUE) /\ validate_time(p.maximum, TRUE)
    /\ p.initial # Zero
    /\ ~Later(p.initial, p.maximum)
    /\ p.coefficient = "at least one"
    /\ p.attempts >= 0
    /\ \A i \in DOMAIN p.types : identifier(p.types[i])

validate_inbound_retry_policy(p) ==
    /\ validate_time(p.initial, TRUE) /\ validate_time(p.maximum, TRUE)
    /\ p.attempts >= 0
    /\ \A i \in DOMAIN p.types : bounded_text(p.types[i])

retry_policy_to_core(p) == IF validate_retry_policy(p) THEN p ELSE Err

retry_policy_from_core(p) ==
    IF p.initial = None \/ p.maximum = None \/ ~validate_retry_policy(p) THEN Err ELSE p

inbound_retry_policy_from_core(p) ==
    Checked([p EXCEPT !.initial = inbound_interval(@),
                      !.maximum = inbound_interval(@),
                      !.types = [i \in DOMAIN @ |-> inbound_text(@[i])]])

Priority(key, fairness, weight) == [key |-> key, fairness |-> fairness, weight |-> weight]

\* "long" stands for a fairness key above its own limit of 64 bytes.
validate_inbound_priority(p) == p.fairness \notin LongTexts

validate_priority(p) ==
    /\ p.key >= 0
    /\ validate_inbound_priority(p)
    /\ p.fairness \notin NulTexts
    /\ p.weight \in {"zero", "in range"}

priority_to_core(p) == IF validate_priority(p) THEN p ELSE Err
=============================================================================
