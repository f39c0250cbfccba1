-------------------------- MODULE MCWorkerAdapter --------------------------
(* Instances of WorkerAdapter for TLC. *)
EXTENDS WorkerAdapter
=============================================================================
