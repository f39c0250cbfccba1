------------------------------ MODULE Boundary ------------------------------
(***************************************************************************)
(* The semantic protocol boundary between Core and OCaml: the handoff of   *)
(* workflow activations, the handoff of activity tasks, and the client     *)
(* operations.  The C ABI calls of a runtime graph are serialised and the  *)
(* three parts share no state, so every step is a step of one of them; a   *)
(* behaviour follows the part that `side` names.                           *)
(***************************************************************************)
EXTENDS WorkflowHandoff, ActivityHandoff, ClientRpcs

VARIABLE side  \* "workflow", "activity" or "client"

vars == <<side, handoffVars, activityVars, rpcVars>>

Init ==
    /\ side \in {"workflow", "activity", "client"}
    /\ HandoffInit /\ ActivityInit /\ RpcInit

WorkflowSide ==
    /\ side = "workflow" /\ HandoffNext
    /\ UNCHANGED <<side, activityVars, rpcVars>>

ActivitySide ==
    /\ side = "activity" /\ ActivityNext
    /\ UNCHANGED <<side, handoffVars, rpcVars>>

ClientSide ==
    /\ side = "client" /\ RpcNext
    /\ UNCHANGED <<side, handoffVars, activityVars>>

Next == WorkflowSide \/ ActivitySide \/ ClientSide

\* The timers and the tasks of the runtime run; the service owes nothing.
FairClient == side = "client" /\ ClientStep /\ UNCHANGED <<side, handoffVars, activityVars>>

Spec == Init /\ [][Next]_vars /\ WF_vars(FairClient)
=============================================================================
