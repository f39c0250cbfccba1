---------------------------- MODULE Completions ----------------------------
(***************************************************************************)
(* Workflow completions in workflow_protocol.rs: the validation of the     *)
(* commands that OCaml emits, their conversion for Core with the checks    *)
(* against the activation they answer, and the conversion back.            *)
(*                                                                         *)
(* A command is a record of its fields.  A Core command also has `extra`,  *)
(* true when an option is set that the protocol does not represent, and a  *)
(* target or child command its namespace.  Sequence numbers and flags that *)
(* are only copied are left out.                                           *)
(***************************************************************************)
EXTENDS Activations, SequencesExt

Terminal == {"complete", "fail", "continue", "cancel workflow"}

(***************************************************************************)
(* Validation.                                                             *)
(***************************************************************************)
\* timeouts: schedule to close, start to close, then the other ones.
validate_schedule(c) ==
    /\ AllIdentifiers(c.ids)
    /\ c.kind = "local activity" => c.attempt > 0
    /\ c.timeouts[1] # None \/ c.timeouts[2] # None
    /\ validate_close_timeout(c.timeouts[1]) /\ validate_close_timeout(c.timeouts[2])
    /\ \A i \in DOMAIN c.timeouts : OptionalTime(c.timeouts[i], TRUE)
    /\ OptionalTime(c.time, FALSE)
    /\ c.policy # None => validate_retry_policy(c.policy)
    /\ c.priority # None => validate_priority(c.priority)

validate_child(c) ==
    /\ AllIdentifiers(c.ids)
    /\ c.queue # None => identifier(c.queue)
    /\ c.policy # None => validate_retry_policy(c.policy)
    /\ validate_child_timeouts(c.timeouts[1], c.timeouts[2], c.timeouts[3])

validate_reason(t) == t # "" /\ t \notin NulTexts /\ bounded_text(t)

\* ids: the workflow ID and, for a signal, the signal's name.
validate_external(c) ==
    /\ AllIdentifiers(c.ids)
    /\ c.run # "" => identifier(c.run)
    /\ c.kind = "cancel external" => validate_reason(c.reason)
    /\ validate_failure_payloads(c.input)
    /\ KeysAreIdentifiers(c.headers)
    /\ \A k \in DOMAIN c.headers : validate_payload_limits(c.headers[k])

validate_answer(c) ==
    /\ AllIdentifiers(c.ids)
    /\ c.failure # None => validate_failure(c.failure)
    /\ c.kind = "update response" /\ c.payload # None => c.payload.size # "big"

validate_command(c) ==
    CASE c.kind \in {"activity", "local activity"} -> validate_schedule(c)
      [] c.kind = "start child" -> validate_child(c)
      [] c.kind = "cancel child" -> validate_reason(c.reason)
      [] c.kind \in {"signal external", "cancel external"} -> validate_external(c)
      [] c.kind = "continue" -> AllIdentifiers(c.ids)
      [] c.kind = "start timer" -> validate_time(c.timeout, TRUE)
      [] c.kind = "fail" -> validate_failure(c.failure)
      [] c.kind \in {"query result", "update response"} -> validate_answer(c)
      [] c.kind = "patch" -> AllIdentifiers(c.ids)
      [] c.kind = "upsert" ->
           /\ KeysAreIdentifiers(c.attributes)
           /\ \A k \in DOMAIN c.attributes : c.attributes[k].size # "big"
      [] OTHER -> TRUE

\* BTreeMap::insert returns the mode that the previous marker of the ID left.
validate_patch_modes(commands) ==
    \A j \in DOMAIN commands : commands[j].kind = "patch" =>
        LET earlier == {i \in 1..(j - 1) : /\ commands[i].kind = "patch"
                                           /\ commands[i].ids = commands[j].ids}
        IN  earlier # {} => commands[Max(earlier)].deprecated = commands[j].deprecated

\* The phases of one update: it was accepted, it has ended.
phase_refused(phases, response) ==
    IF response = "accepted" THEN phases[1] \/ phases[2] ELSE phases[2]

phase_after(phases, response) ==
    IF response = "accepted" THEN <<TRUE, phases[2]>> ELSE <<phases[1], TRUE>>

\* One turn of the loop over the update responses; a refusal is final.
update_step(phases, c) ==
    IF phases = Err \/ c.kind # "update response" THEN phases
    ELSE LET id == c.ids[1]
             mine == IF id \in DOMAIN phases THEN phases[id] ELSE <<FALSE, FALSE>>
         IN  IF phase_refused(mine, c.status) THEN Err
             ELSE (id :> phase_after(mine, c.status)) @@ phases

validate_update_phases(commands) == FoldLeft(update_step, <<>>, commands) # Err

validate_terminal(commands) ==
    \A i \in DOMAIN commands : commands[i].kind \in Terminal => i = Len(commands)

validate_completion(c) ==
    /\ identifier(c.run)
    /\ c.failure # None => /\ c.versioning = None
                           /\ c.commands = <<>>
                           /\ validate_failure(c.failure)
    /\ validate_terminal(c.commands)
    /\ \A i \in DOMAIN c.commands : validate_command(c.commands[i])
    /\ validate_patch_modes(c.commands)
    /\ validate_update_phases(c.commands)

(***************************************************************************)
(* Commands for Core.                                                      *)
(***************************************************************************)
Plainly == [extra |-> FALSE]

schedule_to_core(c) ==
    [c EXCEPT !.arguments = payload_vec_to_core(@),
              !.policy = Option(retry_policy_to_core, @),
              !.priority = Option(priority_to_core, @)] @@ Plainly

child_to_core(c, namespace) ==
    [c EXCEPT !.queue = IF @ = None THEN "" ELSE @,
              !.close = IF @ = None THEN "unspecified" ELSE @,
              !.reuse = IF @ = None THEN "unspecified" ELSE @,
              !.arguments = payload_vec_to_core(@),
              !.policy = Option(retry_policy_to_core, @)] @@ Plainly @@ [namespace |-> namespace]

\* A signal to a child names it by its workflow ID alone.
external_to_core(c, namespace) ==
    [c EXCEPT !.run = IF c.childOnly THEN "" ELSE @,
              !.input = payload_vec_to_core(@),
              !.headers = MapValues(payload_to_core, @)]
        @@ Plainly @@ [namespace |-> IF c.childOnly THEN "" ELSE namespace]

answer_to_core(c) ==
    [c EXCEPT !.payload = Option(payload_to_core, @),
              !.failure = Option(failure_to_core, @)] @@ Plainly

command_to_core(c, namespace) ==
    CASE c.kind \in {"activity", "local activity"} -> Checked(schedule_to_core(c))
      [] c.kind = "start child" -> Checked(child_to_core(c, namespace))
      [] c.kind \in {"signal external", "cancel external"} ->
           Checked(external_to_core(c, namespace))
      [] c.kind \in {"complete", "fail", "query result", "update response"} ->
           Checked(answer_to_core(c))
      [] c.kind = "continue" ->
           Checked([c EXCEPT !.arguments = payload_vec_to_core(@)] @@ Plainly)
      [] c.kind = "upsert" ->
           Checked([c EXCEPT !.attributes = MapValues(payload_to_core, @)] @@ Plainly)
      [] OTHER -> c @@ Plainly

completion_to_core_with_child_namespace(c, namespace) ==
    LET failure  == Option(failure_to_core, c.failure)
        commands == Each(LAMBDA command : command_to_core(command, namespace), c.commands)
    IN  IF ~validate_completion(c) \/ failure = Err \/ commands = Err THEN Err
        ELSE [run |-> c.run, failure |-> failure, commands |-> commands,
              versioning |-> IF c.versioning = None THEN "unspecified" ELSE c.versioning]

completion_to_core(c) == completion_to_core_with_child_namespace(c, "")

QueryIds(a) == {a.jobs[i].ids[1] : i \in JobsOf(a, "query")}

EveryQueryMayBeAnswered(a, c) ==
    \A i \in DOMAIN c.commands : /\ c.commands[i].kind = "query result"
                                 /\ c.commands[i].ids[1] \in QueryIds(a)

\* Exactly one result for every query of the activation, and nothing else.
answers_queries(a, c) ==
    /\ c.failure = None
    /\ \A i \in DOMAIN c.commands : /\ c.commands[i].kind = "query result"
                                    /\ c.commands[i].ids[1] \in QueryIds(a)
    /\ \A i, j \in DOMAIN c.commands : c.commands[i].ids[1] = c.commands[j].ids[1] => i = j
    /\ {c.commands[i].ids[1] : i \in DOMAIN c.commands} = QueryIds(a)

completion_to_core_for_activation_with_namespace(a, c, namespace) ==
    IF /\ identifier(namespace)
       /\ a.run = c.run
       /\ IsEviction(a) => c.commands = <<>> /\ c.failure = None
       /\ IF QueryIds(a) = {}
          THEN \A i \in DOMAIN c.commands : c.commands[i].kind # "query result"
          ELSE answers_queries(a, c)
    THEN completion_to_core_with_child_namespace(c, namespace)
    ELSE Err

(***************************************************************************)
(* The conversion back, which represents no option it would lose.          *)
(***************************************************************************)
Bare(c) == [f \in DOMAIN c \ {"extra", "namespace"} |-> c[f]]

schedule_from_core(c) ==
    [c EXCEPT !.arguments = payload_vec_from_core(@),
              !.timeouts = Each(LAMBDA d : Option(duration_from_core, d), @),
              !.policy = Option(retry_policy_from_core, @)]

Policies(set, v) == CASE v = "unspecified" -> None [] v \in set -> v [] OTHER -> Err

parent_close_from_core(v) == Policies({"terminate", "abandon", "request cancel"}, v)
id_reuse_from_core(v)     == Policies({"allow", "failed only", "reject"}, v)

child_from_core(c) ==
    [c EXCEPT !.queue = IF @ = "" THEN None ELSE @,
              !.close = parent_close_from_core(@), !.reuse = id_reuse_from_core(@),
              !.arguments = payload_vec_from_core(@),
              !.timeouts = Each(LAMBDA d : Option(duration_from_core, d), @),
              !.policy = Option(retry_policy_from_core, @)]

external_from_core(c) ==
    [c EXCEPT !.input = payload_vec_from_core(@), !.headers = MapValues(payload_from_core, @)]

answer_from_core(c) ==
    [c EXCEPT !.payload = Option(payload_from_core, @), !.failure = Option(failure_from_core, @)]

command_from_core(c) ==
    IF c.extra \/ (c.kind = "start child" /\ c.namespace # "") THEN Err
    ELSE CASE c.kind \in {"activity", "local activity"} -> Checked(schedule_from_core(Bare(c)))
      [] c.kind = "start child" -> Checked(child_from_core(Bare(c)))
      [] c.kind \in {"signal external", "cancel external"} -> Checked(external_from_core(Bare(c)))
      [] c.kind \in {"complete", "fail", "query result", "update response"} ->
           Checked(answer_from_core(Bare(c)))
      [] c.kind = "continue" -> Checked([Bare(c) EXCEPT !.arguments = payload_vec_from_core(@)])
      [] c.kind = "upsert" ->
           Checked([Bare(c) EXCEPT !.attributes = MapValues(payload_from_core, @)])
      [] OTHER -> Bare(c)

versioning_from_core(v) == Policies({"pinned", "auto upgrade"}, v)

completion_from_core(c) ==
    LET failure == Option(failure_from_core, c.failure)
        commands == Each(command_from_core, c.commands)
        completion == [run |-> c.run, failure |-> failure, commands |-> commands,
                       versioning |-> versioning_from_core(c.versioning)]
    IN  IF Checked(completion) = Err \/ ~validate_completion(completion) THEN Err ELSE completion
=============================================================================
