---------------------------- MODULE MCReadiness ----------------------------
(* Instances of Readiness for TLC: the workflow and the activity lane. *)
EXTENDS Readiness

CONSTANTS workflow, activity

BothLanes == {workflow, activity}
=============================================================================
