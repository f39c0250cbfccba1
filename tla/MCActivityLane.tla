--------------------------- MODULE MCActivityLane ---------------------------
(* Instances of ActivityLane for TLC. *)
EXTENDS ActivityLane
=============================================================================
