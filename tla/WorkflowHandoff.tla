-------------------------- MODULE WorkflowHandoff --------------------------
(***************************************************************************)
(* The handoff of workflow activations between Core and OCaml in abi.rs    *)
(* (try_poll_workflow, complete_workflow, reject_polled_workflow) through  *)
(* the conversions of workflow_protocol.rs, for one workflow run.  Core    *)
(* delivers the next activation of a run once the last one is answered.    *)
(*                                                                         *)
(* A call that fails, in the conversion or in Core, leaves the documents   *)
(* and the debt as they were, so it is a stuttering step.  A rejection     *)
(* retires the debt even when Core refuses the generated failure.          *)
(***************************************************************************)
EXTENDS Completions

CONSTANTS
    Representable,    \* Core activations that OCaml is to see
    Unrepresentable,  \* Core activations that must not reach OCaml
    Answers(_),       \* completions that OCaml may submit for a document
    Namespace         \* the namespace of the worker

VARIABLES
    debt,      \* the Core activation of the run that is unanswered, or None
    retained,  \* workflow_activations: the document handed to OCaml, or None
    answered   \* the last answer: its tag, what it answered and what Core got

handoffVars == <<debt, retained, answered>>

HandoffInit == debt = None /\ retained = None /\ answered = None

Nothing == [run |-> "a", commands |-> <<>>, failure |-> None, versioning |-> "unspecified"]

\* What the properties need of an answer, with the document OCaml gave.
Answer(tag, a, given, core) ==
    [tag |-> tag, tolerable |-> a \in Representable, eviction |-> IsEviction(a),
     queries |-> QueryIds(a), given |-> given, core |-> core]

\* An eviction is acknowledged; any other activation is failed.
rejection(a) == IF IsEviction(a) THEN Nothing ELSE [Nothing EXCEPT !.failure = <<Layer>>]

\* The rejection of an activation that cannot cross the boundary.
reject_unrepresentable_workflow_delivery(a) ==
    /\ answered' = Answer("unrepresentable", a, None, rejection(a))
    /\ UNCHANGED <<debt, retained>>

\* A second document of the run would replace the one that OCaml holds.
retain_workflow_activation(a, document) ==
    IF retained = None
    THEN retained' = document /\ debt' = a /\ answered' = None
    ELSE answered' = Answer("duplicated", a, None, rejection(a)) /\ UNCHANGED <<debt, retained>>

try_poll_workflow(a) ==
    /\ debt = None
    /\ LET document == activation_from_core(a)
       IN  IF document = Err THEN reject_unrepresentable_workflow_delivery(a)
           ELSE retain_workflow_activation(a, document)

complete_workflow(c) ==
    /\ retained # None
    /\ LET core == completion_to_core_for_activation_with_namespace(retained, c, Namespace)
       IN  /\ core # Err
           /\ answered' = Answer("completed", debt, c, core)
    /\ debt' = None /\ retained' = None

\* OCaml returns the document that it could not decode.
reject_polled_workflow ==
    /\ retained # None
    /\ answered' = Answer("rejected", debt, None, rejection(debt))
    /\ debt' = None /\ retained' = None

HandoffNext ==
    \/ \E a \in Representable \cup Unrepresentable : try_poll_workflow(a)
    \/ \E c \in Answers(retained) : complete_workflow(c)
    \/ reject_polled_workflow

(***************************************************************************)
(* Properties.                                                             *)
(***************************************************************************)
\* Whether a failure may be retried is the same for the chain that Core holds
\* and for the document OCaml decides on, for every failure of every job, also
\* when the chain was cut at its cap.
RetryabilityPreserved ==
    retained # None =>
        \A i \in DOMAIN debt.jobs :
            LET raw == debt.jobs[i]
                job == retained.jobs[i]
            IN  /\ "failure" \in DOMAIN raw /\ raw.failure # None =>
                     failure_non_retryable(job.failure) = failure_non_retryable(raw.failure)
                /\ raw.kind = "initialize" /\ raw.continued.failure # None =>
                     failure_non_retryable(job.continuation.failure)
                       = failure_non_retryable(raw.continued.failure)

\* The answer to a document that needs no decision of the workflow.
Fallback(a) ==
    [run |-> a.run, versioning |-> None,
     failure |-> IF IsEviction(a) \/ QueryIds(a) # {} THEN None ELSE <<Layer>>,
     commands |-> SetToSeq({[kind |-> "query result", ids |-> <<id>>, status |-> "failed",
                             payload |-> None, failure |-> <<Layer>>] : id \in QueryIds(a)})]

\* Text, enum values, delays and keys of another SDK or of a newer server do
\* not make Rust refuse an activation, while one that breaks the protocol never
\* reaches OCaml; and a document that OCaml holds can always be answered, so
\* the debt of the run can be paid.
HandoverIsSound ==
    /\ debt \notin Unrepresentable
    /\ answered # None /\ answered.tolerable => answered.tag \in {"completed", "rejected"}
    /\ retained = None <=> debt = None
    /\ retained # None =>
         completion_to_core_for_activation_with_namespace(retained, Fallback(retained), Namespace) # Err

StatusesOf(commands, id) ==
    LET mine == SelectSeq(commands, LAMBDA c : c.kind = "update response" /\ c.ids[1] = id)
    IN  [i \in DOMAIN mine |-> mine[i].status]

IndexesOf(commands, kind) == {i \in DOMAIN commands : commands[i].kind = kind}

NotLowered(timeouts) ==
    LET run == IF timeouts[2] # None THEN timeouts[2] ELSE timeouts[1]
    IN  /\ \A d \in {timeouts[i] : i \in 1..3} : d # Zero
        /\ \A bound \in {run, Time(TaskTimeoutLimit, 0)} :
             timeouts[3] # None /\ bound # None => ~Later(timeouts[3], bound)
        /\ timeouts[1] # None /\ timeouts[2] # None => ~Later(timeouts[2], timeouts[1])

\* What the document turns into when Core's form of it is converted back: a
\* signal to a child has lost the run ID that Core has no place for.
Kept(c) == [c EXCEPT !.commands = [i \in DOMAIN @ |->
               IF @[i].kind = "signal external" /\ @[i].childOnly THEN [@[i] EXCEPT !.run = ""] ELSE @[i]]]

\* What Core receives is what its protocol accepts for the activation: nothing
\* for an eviction, one result for each query and nothing else, a terminal
\* command last, update responses in an order that an update can go through,
\* markers of a patch that agree, and child timeouts that the server keeps; and
\* it holds all that OCaml said, since the conversion back restores it.
AnswersFit ==
    answered # None =>
        LET commands == answered.core.commands
        IN  /\ answered.eviction => commands = <<>> /\ answered.core.failure = None
            /\ answered.tag = "completed" =>
                 /\ answered.queries # {} =>
                      /\ \A id \in answered.queries : \E i \in DOMAIN commands :
                           {j \in DOMAIN commands : commands[j].ids[1] = id} = {i}
                      /\ Len(commands) = Cardinality(answered.queries)
                 /\ answered.queries = {} => IndexesOf(commands, "query result") = {}
                 /\ \A i \in DOMAIN commands : commands[i].kind \in Terminal => i = Len(commands)
                 /\ \A i \in IndexesOf(commands, "update response") :
                      StatusesOf(commands, commands[i].ids[1]) \in
                        {<<s>> : s \in {"accepted", "rejected", "completed"}}
                        \cup {<<"accepted", s>> : s \in {"rejected", "completed"}}
                 /\ \A i, j \in IndexesOf(commands, "patch") :
                      commands[i].ids = commands[j].ids =>
                        commands[i].deprecated = commands[j].deprecated
                 /\ \A i \in IndexesOf(commands, "start child") : NotLowered(commands[i].timeouts)
                 /\ completion_from_core(completion_to_core(answered.given)) = Kept(answered.given)
=============================================================================
