--------------------------- MODULE MCWorkflowLane ---------------------------
(* Instances of WorkflowLane for TLC. *)
EXTENDS WorkflowLane, TLC

RunSymmetry == Permutations(Runs)
=============================================================================
