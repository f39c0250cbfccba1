---------------------------- MODULE Activations ----------------------------
(***************************************************************************)
(* Workflow activations in workflow_protocol.rs: the conversion of the     *)
(* jobs that Core delivers and the validation of the resulting document.   *)
(* Sequence numbers, seeds and flags are carried unchanged and are left    *)
(* out; a randomness seed is written as canonical decimal, so its check    *)
(* cannot fail for a converted activation.                                 *)
(***************************************************************************)
EXTENDS Failures, FiniteSets, TLC

(***************************************************************************)
(* Initialization.  A Core job holds the raw continuation fields and the   *)
(* cron schedule; the document holds the continuation option instead.      *)
(***************************************************************************)
Ordinary == [run |-> "", initiator |-> "unspecified", failure |-> None, result |-> None]

continuation_from_core(c) ==
    IF c = Ordinary THEN None
    ELSE IF c.run \in LongTexts THEN Err
    ELSE Checked([run |-> c.run,
                  initiator |-> continuation_initiator_from_core(c.initiator),
                  failure |-> Option(failure_from_core, c.failure),
                  result |-> Option(payload_vec_from_core, c.result)])

validate_initialize_subset(job, continuation) ==
    /\ ~job.cron
    /\ job.continued.initiator # "cron"
    /\ \/ continuation # None /\ continuation.initiator \in {"workflow", "retry"}
       \/ job.backoff \in {None, Zero}

initialize_from_core(job) ==
    LET continuation == continuation_from_core(job.continued)
        converted ==
          [kind |-> "initialize", ids |-> job.ids, attempt |-> job.attempt,
           arguments |-> payload_vec_from_core(job.arguments),
           headers |-> inbound_payload_map_from_core(job.headers),
           memo |-> Option(inbound_payload_map_from_core, job.memo),
           attributes |-> Option(LAMBDA m : MapValues(payload_from_core, m), job.attributes),
           times |-> job.times, backoff |-> job.backoff,
           identity |-> inbound_text(job.identity),
           parent |-> job.parent, root |-> job.root,
           timeouts |-> Each(LAMBDA d : Option(duration_from_core, d), job.timeouts),
           priority |-> job.priority,
           policy |-> Option(inbound_retry_policy_from_core, job.policy),
           continuation |-> continuation]
    IN  IF continuation = Err \/ ~validate_initialize_subset(job, continuation)
        THEN Err ELSE Checked(converted)

AllIdentifiers(ids) == ids # None => \A i \in DOMAIN ids : identifier(ids[i])

\* ids: the workflow ID, the workflow type and the first execution's run ID;
\* times: the expiration and the start time.
validate_initialize(job) ==
    /\ AllIdentifiers(job.ids)
    /\ job.attempt >= 1
    /\ \A m \in {job.headers, job.memo, job.attributes} : KeysAreIdentifiers(m)
    /\ \A i \in DOMAIN job.times : OptionalTime(job.times[i], FALSE)
    /\ OptionalTime(job.backoff, TRUE)
    /\ bounded_text(job.identity)
    /\ AllIdentifiers(job.parent) /\ AllIdentifiers(job.root)
    /\ \A i \in DOMAIN job.timeouts : OptionalTime(job.timeouts[i], TRUE)
    /\ job.priority # None => validate_inbound_priority(job.priority)
    /\ job.policy # None => validate_inbound_retry_policy(job.policy)
    /\ job.continuation # None =>
         /\ job.continuation.run # "" => identifier(job.continuation.run)
         /\ job.continuation.failure # None => validate_failure(job.continuation.failure)

(***************************************************************************)
(* Resolutions.                                                            *)
(***************************************************************************)
Resolved(kind, status) == [kind |-> kind, status |-> status, payload |-> None,
                           failure |-> None, ids |-> <<>>, cause |-> "unspecified",
                           local |-> FALSE, attempt |-> 1, backoff |-> None, time |-> None]

activity_resolution_from_core(job) ==
    CASE job.status = "completed" -> [job EXCEPT !.payload = Option(payload_from_core, @)]
      [] job.status \in {"failed", "cancelled"} ->
           [job EXCEPT !.failure = required_failure_from_core(@)]
      [] job.status = "backoff" ->
           [job EXCEPT !.status = IF job.local /\ job.attempt # 0 THEN @ ELSE Err,
                       !.backoff = IF @ = None THEN Err ELSE duration_from_core(@),
                       !.time = IF OptionalTime(@, FALSE) THEN @ ELSE Err]
      [] job.status = "absent" -> [job EXCEPT !.status = Err]

child_start_failure_cause_from_core(cause) ==
    CASE cause \in {"unspecified", "no namespace", "bad override"} -> "unspecified"
      [] cause = "already exists" -> cause
      [] OTHER -> Err

child_workflow_start_resolution_from_core(job) ==
    CASE job.status = "succeeded" -> job
      [] job.status = "failed" ->
           [job EXCEPT !.cause = child_start_failure_cause_from_core(@)]
      [] job.status = "cancelled" -> [job EXCEPT !.failure = required_failure_from_core(@)]
      [] job.status = "absent" -> [job EXCEPT !.status = Err]

child_workflow_resolution_from_core(job) ==
    CASE job.status = "completed" -> [job EXCEPT !.payload = Option(payload_from_core, @)]
      [] job.status \in {"failed", "cancelled"} ->
           [job EXCEPT !.failure = required_failure_from_core(@)]
      [] job.status = "absent" -> [job EXCEPT !.status = Err]

external_workflow_resolution_from_core(job) ==
    IF job.failure = None THEN [job EXCEPT !.status = "succeeded"]
    ELSE [job EXCEPT !.status = "failed", !.failure = failure_from_core(@)]

validate_resolution(job) ==
    /\ AllIdentifiers(job.ids)
    /\ job.failure # None => validate_failure(job.failure)
    /\ job.status = "backoff" => job.attempt > 0 /\ validate_time(job.backoff, TRUE)
    /\ OptionalTime(job.time, FALSE)

(***************************************************************************)
(* Signals, queries and updates, patches, cancellation and evictions.      *)
(* ids: the names of the job; key: its query, update or protocol IDs.      *)
(***************************************************************************)
message_from_core(job) ==
    Checked([job EXCEPT !.input = payload_vec_from_core(@),
                        !.headers = inbound_payload_map_from_core(@),
                        !.identity = inbound_identity(@)])

\* The metadata of an update may repeat its ID; the top-level one is used.
update_from_core(job) ==
    IF job.meta = None \/ job.meta \notin {"", job.ids[1]} THEN Err
    ELSE message_from_core([job EXCEPT !.meta = job.ids[1]])

EvictionReasons == {"unspecified", "cache full", "cache miss", "nondeterminism", "lang fail",
                    "lang requested", "task not found", "unhandled command", "fatal",
                    "pagination", "ending"}

eviction_reason_from_core(r) == IF r \in EvictionReasons THEN r ELSE Err

notice_from_core(job) ==
    [job EXCEPT !.text = inbound_text(@),
                !.reason = IF job.kind = "evict" THEN eviction_reason_from_core(@) ELSE @]

validate_message(job) ==
    /\ AllIdentifiers(job.ids)
    /\ job.kind = "signal" => signal_identity(job.identity)
    /\ job.kind = "update" => job.meta = job.ids[1] /\ bounded_text(job.identity)
    /\ KeysAreIdentifiers(job.headers)

(***************************************************************************)
(* Jobs and activations.                                                   *)
(***************************************************************************)
job_from_core(job) ==
    CASE job.kind = "initialize" -> initialize_from_core(job)
      [] job.kind = "resolve activity" -> Checked(activity_resolution_from_core(job))
      [] job.kind = "resolve child start" ->
           Checked(child_workflow_start_resolution_from_core(job))
      [] job.kind = "resolve child" -> Checked(child_workflow_resolution_from_core(job))
      [] job.kind = "resolve external" -> Checked(external_workflow_resolution_from_core(job))
      [] job.kind \in {"signal", "query"} -> message_from_core(job)
      [] job.kind = "update" -> update_from_core(job)
      [] job.kind \in {"cancel", "evict"} -> Checked(notice_from_core(job))
      [] job.kind \in {"patch", "timer", "seed"} -> job
      [] OTHER -> Err

validate_job(job) ==
    CASE job.kind = "initialize" -> validate_initialize(job)
      [] job.kind \in {"resolve activity", "resolve child start", "resolve child",
                       "resolve external"} -> validate_resolution(job)
      [] job.kind \in {"signal", "query", "update"} -> validate_message(job)
      [] job.kind \in {"cancel", "evict"} -> bounded_text(job.text)
      [] job.kind = "patch" -> AllIdentifiers(job.ids)
      [] OTHER -> TRUE

JobsOf(a, kind) == {i \in DOMAIN a.jobs : a.jobs[i].kind = kind}

OnlyUpdatesAreUnique(a, kind, position) ==
    \A i, j \in JobsOf(a, kind) :
        kind = "update" /\ a.jobs[i].ids[position] = a.jobs[j].ids[position] => i = j

\* No two jobs of the kind have the same ids[position].
UniqueIds(a, kind, position) ==
    \A i, j \in JobsOf(a, kind) : a.jobs[i].ids[position] = a.jobs[j].ids[position] => i = j

IsEviction(a) == Len(a.jobs) = 1 /\ JobsOf(a, "evict") # {}

validate_order(a) ==
    /\ JobsOf(a, "evict") # {} => IsEviction(a)
    /\ a.timestamp = None => JobsOf(a, "evict") # {}
    /\ JobsOf(a, "initialize") \subseteq {1}
    /\ JobsOf(a, "query") \in {{}, DOMAIN a.jobs}
    /\ UniqueIds(a, "query", 1)
    /\ UniqueIds(a, "update", 1) /\ UniqueIds(a, "update", 2)

validate_activation(a) ==
    /\ identifier(a.run)
    /\ OptionalTime(a.timestamp, FALSE)
    /\ validate_order(a)
    /\ \A i \in DOMAIN a.jobs : validate_job(a.jobs[i])
    /\ bounded_text(a.sdk)
    /\ a.deployment # None => bounded_text(a.deployment[1]) /\ identifier(a.deployment[2])

activation_from_core(a) ==
    LET jobs == Each(job_from_core, a.jobs)
        activation ==
          [a EXCEPT !.jobs = jobs,
                    !.sdk = inbound_text(@),
                    !.deployment = Option(LAMBDA d : <<inbound_text(d[1]), d[2]>>, @),
                    !.suggested = {suggestion_from_core(r) : r \in @}]
    IN  IF jobs = Err THEN Err
        ELSE IF validate_activation(activation) THEN activation ELSE Err
=============================================================================
