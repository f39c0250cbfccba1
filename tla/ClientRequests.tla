--------------------------- MODULE ClientRequests ---------------------------
(***************************************************************************)
(* The requests, statuses and responses of client_protocol.rs: validation  *)
(* before a request is sent, the classification of what Temporal answers,  *)
(* and the conversion of update responses and close events.                *)
(*                                                                         *)
(* A request has the identifiers `ids` (namespace, workflow ID and the     *)
(* request ID or names of the operation), the run selector `run`, and the  *)
(* fields of its operation; timeouts are in milliseconds.  A status is the *)
(* snake-case name that rpc_code gives to a gRPC code.                     *)
(***************************************************************************)
EXTENDS Failures

CONSTANTS
    MAX_RPC_TIMEOUT_MS,            \* 60_000, scaled down
    MAX_WORKFLOW_TASK_TIMEOUT_MS,  \* 120_000, scaled down
    MAX_WORKFLOW_TIMEOUT_MS,       \* the protobuf maximum, scaled down
    MaxPageSize                    \* 1_000, scaled down

ASSUME ClientAssumption ==
    /\ MAX_RPC_TIMEOUT_MS \in Nat \ {0} /\ MaxPageSize \in Nat \ {0}
    /\ MAX_WORKFLOW_TASK_TIMEOUT_MS \in 1..MAX_WORKFLOW_TIMEOUT_MS

(***************************************************************************)
(* Validation.                                                             *)
(***************************************************************************)
validate_rpc_timeout(t) == t # None => t \in 1..MAX_RPC_TIMEOUT_MS

validate_run_selector(r) == r = "" \/ identifier(r)

\* The namespace and the workflow ID are the first identifiers.
validate_run_target(q) ==
    identifier(q.ids[1]) /\ identifier(q.ids[2]) /\ validate_run_selector(q.run)

validate_operator_reason(t) == bounded_text(t) /\ t \notin NulTexts

validate_input_payloads(ps) == payload_vec_to_core(ps) # Err

\* A field is a key and a payload.
validate_metadata(fields) ==
    /\ \A i \in DOMAIN fields : /\ identifier(fields[i][1])
                                /\ payload_to_core(fields[i][2]) # Err
    /\ \A i, j \in DOMAIN fields : fields[i][1] = fields[j][1] => i = j

\* timeouts: execution, run, task.
validate_start_policies(q) ==
    LET execution == q.timeouts[1]
        run       == q.timeouts[2]
        task      == q.timeouts[3]
        bound     == IF run # None THEN run ELSE execution
    IN  /\ \A t \in {execution, run} \ {None} : t \in 1..MAX_WORKFLOW_TIMEOUT_MS
        /\ task # None => task \in 1..MAX_WORKFLOW_TASK_TIMEOUT_MS
        /\ execution # None /\ run # None => run <= execution
        /\ task # None /\ bound # None => task <= bound
        /\ q.policy # None => validate_retry_policy(q.policy)

validate_start_request(q) ==
    /\ \A i \in DOMAIN q.ids : identifier(q.ids[i])
    /\ validate_input_payloads(q.input)
    /\ validate_metadata(q.fields)
    /\ validate_start_policies(q)
    /\ validate_rpc_timeout(q.timeout)

validate_cancel_request(q) ==
    /\ validate_rpc_timeout(q.timeout) /\ validate_run_target(q)
    /\ identifier(q.ids[3]) /\ validate_operator_reason(q.reason)

validate_terminate_request(q) ==
    /\ validate_rpc_timeout(q.timeout) /\ validate_run_target(q)
    /\ validate_operator_reason(q.reason)

validate_reset_request(q) == validate_cancel_request(q) /\ q.event > 1

\* ids[3], ids[4]: the signal name and request ID, or the update ID and name.
validate_signal_request(q) ==
    /\ validate_rpc_timeout(q.timeout) /\ validate_run_target(q)
    /\ identifier(q.ids[3]) /\ identifier(q.ids[4]) /\ validate_input_payloads(q.input)

validate_query_request(q) ==
    /\ validate_rpc_timeout(q.timeout) /\ validate_run_target(q)
    /\ identifier(q.ids[3]) /\ validate_input_payloads(q.input)

validate_update_request(q) ==
    /\ validate_rpc_timeout(q.timeout) /\ validate_run_target(q)
    /\ identifier(q.ids[3]) /\ identifier(q.ids[4]) /\ validate_input_payloads(q.input)

validate_poll_update_request(q) == validate_run_target(q) /\ identifier(q.ids[3])

\* The token "bad" is too long, holds a NUL or is not base64.
validate_visibility_request(q) ==
    /\ validate_rpc_timeout(q.timeout) /\ identifier(q.ids[1])
    /\ validate_operator_reason(q.reason)
    /\ q.page \in 1..MaxPageSize
    /\ q.token # "bad"

validate_history_request(q) ==
    /\ validate_rpc_timeout(q.timeout) /\ validate_run_target(q)
    /\ q.page # None => q.page \in 1..MaxPageSize

validate_request(q) ==
    CASE q.op = "start" -> validate_start_request(q)
      [] q.op = "cancel" -> validate_cancel_request(q)
      [] q.op = "terminate" -> validate_terminate_request(q)
      [] q.op = "reset" -> validate_reset_request(q)
      [] q.op = "signal" -> validate_signal_request(q)
      [] q.op = "query" -> validate_query_request(q)
      [] q.op = "update" -> validate_update_request(q)
      [] q.op = "poll update" -> validate_poll_update_request(q)
      [] q.op = "list" -> validate_visibility_request(q)
      [] q.op = "history" -> validate_history_request(q)
      [] q.op = "wait" -> validate_run_target(q)

(***************************************************************************)
(* Statuses.                                                               *)
(***************************************************************************)
budget_status(code, expired) ==
    IF code \in {"cancelled", "deadline_exceeded"} /\ expired THEN "deadline_exceeded" ELSE code

map_start_status(code) == IF code = "already_exists" THEN "already started" ELSE code

uncertain_start(error) ==
    error \in {"cancelled", "unknown", "deadline_exceeded", "resource_exhausted", "aborted",
               "internal", "unavailable", "data_loss", "core"}

RetryWhenUnreachable(code) == code \notin {"resource_exhausted", "unavailable"}

terminate_retry_forbidden(code) == code # "resource_exhausted"

terminate_status_error(code) ==
    IF code \in {"unavailable", "deadline_exceeded", "cancelled"}
    THEN "termination_outcome_uncertain" ELSE code

\* The status of a query carries the detail of a failed handler or not.
map_query_status(code, detail) ==
    IF code = "invalid_argument" /\ detail THEN "query failed" ELSE code

(***************************************************************************)
(* Responses.                                                              *)
(***************************************************************************)
\* An outcome of an update: "success" with payloads, "failure", or neither.
update_outcome_from_core(o) ==
    CASE o.kind = "success" -> Checked([o EXCEPT !.payloads = payload_vec_from_core(@)])
      [] o.kind = "failure" -> Checked([o EXCEPT !.failure = failure_from_core(@)])
      [] OTHER -> Err

update_stage_is_accepted(stage) == IF stage = "completed" THEN Err ELSE stage = "accepted"

\* A response names its update and its execution: workflow ID and run.
update_response_from_core(q, r) ==
    LET run == IF r.run = "" THEN q.run ELSE r.run
    IN  IF \/ r.update # q.ids[3] \/ r.workflow # q.ids[2]
           \/ q.run # "" /\ run # q.run
           \/ run = ""
        THEN Err
        ELSE Checked([run |-> run, outcome |-> Option(update_outcome_from_core, r.outcome)])

successor_ref(run) == IF run = "" THEN None ELSE run

\* A close event has a kind, payloads, a failure and the next run's ID.
outcome_from_event(e) ==
    CASE e.kind = "completed" ->
           Checked([kind |-> e.kind, payloads |-> payload_vec_from_core(e.payloads),
                    failure |-> None, successor |-> successor_ref(e.next)])
      [] e.kind = "failed" ->
           Checked([kind |-> e.kind, payloads |-> <<>>,
                    failure |-> required_failure_from_core(e.failure),
                    successor |-> successor_ref(e.next)])
      [] e.kind \in {"cancelled", "terminated"} ->
           Checked([kind |-> e.kind, payloads |-> payload_vec_from_core(e.payloads),
                    failure |-> None, successor |-> None])
      [] e.kind = "timed out" ->
           [kind |-> e.kind, payloads |-> <<>>, failure |-> None,
            successor |-> successor_ref(e.next)]
      [] e.kind = "continued" /\ successor_ref(e.next) # None ->
           [kind |-> e.kind, payloads |-> <<>>, failure |-> None, successor |-> e.next]
      [] OTHER -> Err

validate_outcome(o) ==
    /\ validate_input_payloads(o.payloads)
    /\ o.failure # None => validate_failure(o.failure)
    /\ o.successor # None => identifier(o.successor)

validate_wait_response(run, o) ==
    /\ validate_run_selector(run) /\ validate_outcome(o)
    /\ o.successor # None => o.successor # run

visibility_status(status) ==
    CASE status = 0 -> Err
      [] status \in 1..8 -> <<"running", "completed", "failed", "canceled", "terminated",
                              "continued_as_new", "timed_out", "paused">>[status]
      [] OTHER -> <<"unknown", status>>

\* A row of a visibility page: execution and type may be absent.
visibility_row(r) ==
    IF r.execution = None \/ r.type = None THEN Err
    ELSE Checked([execution |-> r.execution, type |-> r.type,
                  status |-> visibility_status(r.status)])
=============================================================================
