----------------------------- MODULE MCExecution -----------------------------
(* Bounded instances of Execution.                                         *)
EXTENDS Execution, TLC

\* The handlers are interchangeable.
HandlerSymmetry == Permutations(Handlers)
=============================================================================
