-------------------------- MODULE ActivityHandoff --------------------------
(***************************************************************************)
(* The handoff of activity tasks between Core and OCaml in abi.rs          *)
(* (try_poll_activity, complete_activity, record_activity_heartbeat and    *)
(* reject_polled_activity) through activity_protocol.rs, for one task      *)
(* token.  A Start owns the completion that Core is owed; a Cancel is an   *)
(* update of it, handed over only while the Start is leased.               *)
(*                                                                         *)
(* OCaml decodes a document before it polls again and returns it when that *)
(* fails.  A call that fails leaves everything as it was.                  *)
(***************************************************************************)
EXTENDS ActivityTasks

CONSTANTS
    Deliveries,           \* Core activity tasks of the token
    ActivityCompletions,  \* completions that OCaml may submit
    Heartbeats,           \* heartbeats that OCaml may record
    MaxCancels            \* bound: cancellations delivered for one Start

VARIABLES
    lease,     \* Core is owed the completion of the Start
    tasks,     \* activity_tasks: the documents retained under the token
    polled,    \* the document that OCaml is decoding, or None
    cancels,   \* how many cancellations were delivered for the Start
    completed, \* how many completions Core received for the Start
    recorded   \* the details of the last heartbeat given to Core, or None

activityVars == <<lease, tasks, polled, cancels, completed, recorded>>

ActivityInit ==
    /\ lease = FALSE /\ tasks = <<>> /\ polled = None /\ cancels = 0
    /\ completed = 0 /\ recorded = None

AnyTask(task) == TRUE

activity_task_owns_completion_debt(task) == task.variant # "cancel"

\* The generated failure is the completion, accepted or not.  A malformed
\* cancellation is dropped.
reject_activity(task, done) ==
    LET owns == activity_task_owns_completion_debt(task)
    IN  lease' = ~owns /\ completed' = IF owns THEN done + 1 ELSE done

retain_activity_task(document) == tasks' = Append(tasks, document)

retire_activity_semantics == tasks' = <<>>

\* The documents without the first one that is equal to the rejected one.
retire_activity_semantic(document) ==
    LET equal == {i \in DOMAIN tasks : tasks[i] = document}
        first == CHOOSE i \in equal : \A j \in equal : i <= j
    IN  IF equal = {} THEN tasks
        ELSE SubSeq(tasks, 1, first - 1) \o SubSeq(tasks, first + 1, Len(tasks))

\* Core hands out a Start when the last one is settled; the token is new then.
Delivered(task) ==
    IF task.variant = "cancel" THEN lease /\ cancels < MaxCancels ELSE ~lease

try_poll_activity(task) ==
    /\ polled = None
    /\ Delivered(task)
    /\ cancels' = IF task.variant = "cancel" THEN cancels + 1 ELSE 0
    /\ LET document == task_from_core(task)
           done     == IF task.variant = "cancel" THEN completed ELSE 0
       IN  IF document = Err
           THEN reject_activity(task, done) /\ UNCHANGED <<tasks, polled>>
           ELSE /\ retain_activity_task(document)
                /\ polled' = document
                /\ lease' = TRUE /\ completed' = done
    /\ recorded' = None

\* OCaml has decoded the document.
Decoded ==
    /\ polled # None
    /\ polled' = None
    /\ UNCHANGED <<lease, tasks, cancels, completed, recorded>>

reject_polled_activity ==
    /\ polled # None
    /\ reject_activity(polled, completed)
    /\ tasks' = retire_activity_semantic(polled)
    /\ polled' = None
    /\ UNCHANGED <<cancels, recorded>>

complete_activity(c) ==
    /\ polled = None /\ lease
    /\ activity_completion_to_core(c) # Err
    /\ lease' = FALSE /\ completed' = completed + 1
    /\ retire_activity_semantics
    /\ UNCHANGED <<polled, cancels, recorded>>

record_activity_heartbeat(h) ==
    /\ polled = None /\ lease
    /\ heartbeat_to_core(h) # Err
    /\ recorded' = heartbeat_to_core(h).details
    /\ UNCHANGED <<lease, tasks, polled, cancels, completed>>

ActivityNext ==
    \/ \E task \in Deliveries : try_poll_activity(task)
    \/ Decoded
    \/ reject_polled_activity
    \/ \E c \in ActivityCompletions : complete_activity(c)
    \/ \E h \in Heartbeats : record_activity_heartbeat(h)

(***************************************************************************)
(* Properties.                                                             *)
(***************************************************************************)
\* The documents of a token follow the completion that Core is owed: while it
\* is owed, the document of the Start is retained, whatever happens to the
\* documents of its cancellations; once it is paid, none is left to match a
\* later task; and Core receives exactly one completion of a Start.
DocumentsFollowLease ==
    /\ lease <=> \E i \in DOMAIN tasks : tasks[i].variant = "start"
    /\ ~lease => tasks = <<>>
    /\ completed <= 1 /\ (lease => completed = 0)
    /\ polled # None => \E i \in DOMAIN tasks : tasks[i] = polled
=============================================================================
