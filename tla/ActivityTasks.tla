--------------------------- MODULE ActivityTasks ---------------------------
(***************************************************************************)
(* Activity tasks and completions in activity_protocol.rs: the conversion  *)
(* of what Core delivers, the validation of the document handed to OCaml,  *)
(* and the conversion of completions and heartbeats for Core.              *)
(*                                                                         *)
(* A token is a text: "" stands for no bytes and "long" for more than      *)
(* MAX_PAYLOAD_BYTES or for base64 that is not canonical.                  *)
(***************************************************************************)
EXTENDS Failures

decode_token(t) == IF t = "" \/ t \in LongTexts THEN Err ELSE t

(***************************************************************************)
(* Tasks.  ids: namespace, workflow type, activity ID and activity type;   *)
(* execution: None or the workflow and run IDs; times and timeouts: three  *)
(* each; run: the run ID of a standalone activity.                         *)
(***************************************************************************)
task_retry_policy_from_core(p) ==
    LET interval(d) == IF d # None /\ d.s >= 0 /\ d.n >= 0 THEN duration_from_core(d) ELSE None
    IN  Checked([p EXCEPT !.initial = interval(@), !.maximum = interval(@)])

validate_task_retry_policy(p) ==
    /\ OptionalTime(p.initial, TRUE) /\ OptionalTime(p.maximum, TRUE)
    /\ \A i \in DOMAIN p.types : bounded_text(p.types[i])

CancelReasons == {"not found", "cancelled", "timed out", "worker shutdown", "paused", "reset"}

cancel_reason_from_core(r) == IF r \in CancelReasons THEN r ELSE Err

validate_task(task) ==
    /\ decode_token(task.token) # Err
    /\ task.variant = "start" =>
         /\ \A ids \in {task.ids, task.execution} : \A i \in DOMAIN ids : identifier(ids[i])
         /\ \A i \in DOMAIN task.times : OptionalTime(task.times[i], FALSE)
         /\ \A i \in DOMAIN task.timeouts : OptionalTime(task.timeouts[i], TRUE)
         /\ KeysAreIdentifiers(task.headers)
         /\ task.policy # None => validate_task_retry_policy(task.policy)
         /\ task.priority # None => validate_inbound_priority(task.priority)
         /\ bounded_text(task.run)

start_from_core(task) ==
    IF task.execution = None THEN Err
    ELSE Checked([task EXCEPT !.headers = MapValues(payload_from_core, @),
                              !.input = payload_vec_from_core(@),
                              !.details = payload_vec_from_core(@),
                              !.timeouts = Each(LAMBDA d : Option(duration_from_core, d), @),
                              !.policy = Option(task_retry_policy_from_core, @)])

task_from_core(task) ==
    LET converted == CASE task.variant = "start" -> start_from_core(task)
                       [] task.variant = "cancel" ->
                            Checked([task EXCEPT !.reason = cancel_reason_from_core(@)])
                       [] OTHER -> Err
    IN  IF converted = Err THEN Err
        ELSE IF validate_task(converted) THEN converted ELSE Err

(***************************************************************************)
(* Completions and heartbeats.                                             *)
(***************************************************************************)
validate_activity_completion(c) ==
    /\ decode_token(c.token) # Err
    /\ c.kind = "completed" => c.payload # None /\ validate_payload_limits(c.payload)
    /\ c.kind \in {"failed", "cancelled"} => validate_failure(c.failure)

activity_completion_to_core(c) ==
    IF ~validate_activity_completion(c) THEN Err
    ELSE Checked([c EXCEPT !.token = decode_token(@),
                           !.payload = Option(payload_to_core, @),
                           !.failure = Option(failure_to_core, @)])

validate_heartbeat(h) == decode_token(h.token) # Err /\ validate_failure_payloads(h.details)

validate_async_heartbeat(h) == validate_heartbeat(h) /\ OptionalTime(h.timeout, TRUE)

heartbeat_to_core(h) ==
    IF ~validate_heartbeat(h) THEN Err
    ELSE Checked([token |-> decode_token(h.token), details |-> payload_vec_to_core(h.details)])
=============================================================================
