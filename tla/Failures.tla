------------------------------ MODULE Failures ------------------------------
(***************************************************************************)
(* Temporal failures in workflow_protocol.rs: the conversion of a cause    *)
(* chain received from Core, with its cap on the number of layers, the     *)
(* conversion back, and the validation shared by both directions.  The     *)
(* retryability that the public API derives from a converted failure is    *)
(* failure_non_retryable of lib/protocol/workflow_protocol.ml.             *)
(*                                                                         *)
(* A failure is the sequence of its layers, the outermost first; layer i+1 *)
(* is the cause of layer i.  All the texts of a layer are treated alike,   *)
(* so one text stands for them.                                            *)
(***************************************************************************)
EXTENDS Values

CONSTANT MAX_INBOUND_FAILURE_LAYERS  \* 100 in the code, scaled down

ASSUME LayersAssumption == MAX_INBOUND_FAILURE_LAYERS \in Nat \ {0, 1}

RetryStates == {"unspecified", "in progress", "non retryable", "timeout",
                "maximum attempts", "policy not set", "server error", "cancel requested"}
TimeoutTypes == {"unspecified", "start to close", "schedule to start",
                 "schedule to close", "heartbeat"}
Categories      == {"unspecified", "benign"}
RetryBehaviors  == {"unspecified", "retryable", "non retryable"}
Initiators      == {"unspecified", "workflow", "retry", "cron"}
Suggestions     == {"unspecified", "history size", "history events", "updates"}

\* A number that the pinned enum does not know becomes Unspecified.
KnownOr(set, v) == IF v \in set THEN v ELSE "unspecified"

retry_state_from_core(v)            == KnownOr(RetryStates, v)
timeout_type_from_core(v)           == KnownOr(TimeoutTypes, v)
application_category_from_core(v)   == KnownOr(Categories, v)
nexus_retry_behavior_from_core(v)   == KnownOr(RetryBehaviors, v)
continuation_initiator_from_core(v) == KnownOr(Initiators, v)
suggestion_from_core(v)             == KnownOr(Suggestions, v)

(***************************************************************************)
(* Layers.  The fields a kind does not have keep their neutral values.     *)
(***************************************************************************)
Layer == [kind |-> "absent", text |-> "a", type |-> "", nonRetryable |-> FALSE,
          state |-> "unspecified", details |-> <<>>, delay |-> None,
          event |-> 0, attributes |-> None]

Kinds == {"application", "canceled", "terminated", "activity", "child", "timeout",
          "server", "reset", "nexus operation", "nexus handler", "absent"}

info_from_core(l) ==
    CASE l.kind = "application" ->
           [l EXCEPT !.type = inbound_text(@), !.details = payload_vec_from_core(@),
                     !.state = application_category_from_core(@),
                     !.delay = Option(inbound_retry_delay_from_core, @)]
      [] l.kind = "canceled" -> [l EXCEPT !.details = payload_vec_from_core(@)]
      [] l.kind \in {"activity", "child"} -> [l EXCEPT !.state = retry_state_from_core(@)]
      [] l.kind = "timeout" ->
           [l EXCEPT !.details = payload_vec_from_core(@), !.state = timeout_type_from_core(@)]
      [] l.kind = "reset" -> [l EXCEPT !.details = payload_vec_from_core(@)]
      [] l.kind = "nexus handler" ->
           [l EXCEPT !.type = inbound_text(@), !.state = nexus_retry_behavior_from_core(@)]
      [] OTHER -> l

layer_from_core(l) ==
    Checked([info_from_core(l) EXCEPT !.text = inbound_text(@),
                                      !.attributes = Option(payload_from_core, @)])

(***************************************************************************)
(* Who decides whether a failure is retryable.                             *)
(***************************************************************************)
NonRetryableTypes == {"BAD_REQUEST", "UNAUTHENTICATED", "UNAUTHORIZED", "NOT_FOUND",
                      "NOT_IMPLEMENTED", "CONFLICT"}

wrapper(state) ==
    CASE state \in {"non retryable", "maximum attempts"} -> "no retry"
      [] state \in {"in progress", "timeout", "server error", "cancel requested"} -> "retry"
      [] OTHER -> "defer"

decision(l) ==
    CASE l.kind \in {"application", "server"} -> IF l.nonRetryable THEN "no retry" ELSE "retry"
      [] l.kind = "canceled" -> "retry"
      [] l.kind = "terminated" -> "no retry"
      [] l.kind \in {"activity", "child"} -> wrapper(l.state)
      [] l.kind = "nexus handler" ->
           IF l.state = "non retryable" THEN "no retry"
           ELSE IF l.state = "retryable" THEN "retry"
           ELSE IF l.type \in NonRetryableTypes THEN "no retry" ELSE "retry"
      [] OTHER -> "defer"

omitted_tail_non_retryable(tail) ==
    \E i \in DOMAIN tail : /\ decision(tail[i]) = "no retry"
                           /\ \A j \in 1..(i - 1) : decision(tail[j]) = "defer"

\* lib/protocol/workflow_protocol.ml: the same walk over a converted failure.
failure_non_retryable(f) ==
    \E i \in DOMAIN f : /\ decision(f[i]) = "no retry"
                        /\ \A j \in 1..(i - 1) : decision(f[j]) = "defer"

(***************************************************************************)
(* The conversions.                                                        *)
(***************************************************************************)
AlwaysAbsent(tail) == [Layer EXCEPT !.text = "a"]

omitted_causes_failure(tail) ==
    IF omitted_tail_non_retryable(tail)
    THEN [Layer EXCEPT !.kind = "server", !.nonRetryable = TRUE]
    ELSE Layer

\* How many layers are kept: a cause at the cap only when it is the last.
kept(f) ==
    IF Len(f) <= MAX_INBOUND_FAILURE_LAYERS THEN Len(f) ELSE MAX_INBOUND_FAILURE_LAYERS - 1

failure_from_core(f) ==
    LET layers == Each(layer_from_core, SubSeq(f, 1, kept(f)))
    IN  IF layers = Err THEN Err
        ELSE IF kept(f) = Len(f) THEN layers
        ELSE Append(layers, omitted_causes_failure(SubSeq(f, kept(f) + 1, Len(f))))

required_failure_from_core(f) == IF f = None THEN Err ELSE failure_from_core(f)

failure_info_to_core(l) == [l EXCEPT !.details = payload_vec_to_core(@)]

layer_to_core(l) ==
    Checked([failure_info_to_core(l) EXCEPT !.attributes = Option(payload_to_core, @)])

failure_to_core(f) == Each(layer_to_core, f)

validate_layer(l) ==
    /\ bounded_text(l.text)
    /\ bounded_text(l.type)
    /\ l.kind = "application" => OptionalTime(l.delay, TRUE)
    /\ validate_failure_payloads(l.details)
    /\ l.event >= 0

validate_failure(f) == \A i \in DOMAIN f : validate_layer(f[i])
=============================================================================
