---------------------------- MODULE OneShotCalls ----------------------------
(***************************************************************************)
(* What the completion cells of client_calls.rs promise to the caller of a *)
(* submitted client call: one answer, which is the outcome of its own task *)
(* unless the connection was shut down or the caller gave the call up.     *)
(***************************************************************************)
CONSTANTS
    Calls,   \* the submitted calls
    Owners,  \* the runtime graphs
    owner    \* the graph of each call

VARIABLES
    phase,  \* the life of each call
    doomed  \* the calls whose connection was shut down under them

vars == <<phase, doomed>>

Phases == {"new", "open", "produced", "answered", "closed", "abandoned"}

Init == phase = [c \in Calls |-> "new"] /\ doomed = {}

Becomes(c, from, to) ==
    /\ phase[c] \in from
    /\ phase' = [phase EXCEPT ![c] = to]

Submit(c)  == Becomes(c, {"new"}, "open") /\ UNCHANGED doomed

\* The task of the call ends, with a result or by a panic.
Produce(c) == Becomes(c, {"open"}, "produced") /\ UNCHANGED doomed

Answer(c)  == Becomes(c, {"produced"}, "answered") /\ doomed' = doomed \ {c}

\* Only a shutdown closes a call.
Close(c) ==
    /\ c \in doomed
    /\ Becomes(c, {"open", "produced"}, "closed")
    /\ doomed' = doomed \ {c}

Abandon(c) == Becomes(c, {"open", "produced"}, "abandoned") /\ doomed' = doomed \ {c}

Shutdown(o) ==
    /\ doomed' = doomed \cup {c \in Calls : owner[c] = o /\ phase[c] \in {"open", "produced"}}
    /\ UNCHANGED phase

Next ==
    \/ \E c \in Calls : Submit(c) \/ Produce(c) \/ Answer(c) \/ Close(c) \/ Abandon(c)
    \/ \E o \in Owners : Shutdown(o)

\* A call that has an outcome, or can have none, is not left waiting.
Spec == /\ Init /\ [][Next]_vars
        /\ \A c \in Calls : WF_vars(Answer(c) \/ Close(c))
=============================================================================
