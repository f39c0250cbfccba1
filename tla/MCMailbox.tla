----------------------------- MODULE MCMailbox -----------------------------
(* Instances of Mailbox for TLC. *)
EXTENDS Mailbox, TLC

ClientSymmetry == Permutations(Clients)

\* Every window in which run_owner_guarded is meant to contain an exception.
TrackedPoints == {"settleOk", "settleErr", "settled"}

\* With the window between take and the assignment to inflight.
AllPoints == TrackedPoints \cup {"taken"}
====
