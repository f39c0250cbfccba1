---------------------------- MODULE OneShotProofs ----------------------------
(***************************************************************************)
(* The safety half of CallsAreOneShot for every set of calls and graphs:   *)
(* every step of ClientCalls is a step of OneShotCalls, or none, under the *)
(* refinement mapping Cells.                                               *)
(***************************************************************************)
EXTENDS ClientCallsProofs

\* Phase as a function of the values it reads, so that what is shown of it
\* holds before and after a step.
PhaseOf(a, g, s, t) ==
    CASE a \in {"none", "refused"} -> "new"
      [] a \in {"releasing", "closing", "aborting"} \/ g = "given up" -> "abandoned"
      [] g = "closed" -> "closed"
      [] g \in {"value", "panic"} -> "answered"
      [] OTHER -> IF s \in {"value", "panic"} THEN "produced"
                  ELSE IF s = "pending" /\ t \in {"ending", "finished"} THEN "stranded"
                  ELSE "open"

Submitted == {"holding", "waiting"}
Doomed    == {c \in Calls \ registered : caller[c] \in Submitted}

\* A call that was not admitted has no cell.
LEMMA NewPhase ==
    ASSUME NEW a \in {"none", "refused"}, NEW s, NEW t PROVE PhaseOf(a, "none", s, t) = "new"
BY DEF PhaseOf

\* The phase of a call whose caller has given up.
LEMMA AbandonedPhase ==
    ASSUME NEW a, NEW g, NEW s, NEW t, g = "none" \/ g = "given up", a \notin {"none", "refused"},
           a \in {"releasing", "closing", "aborting"} \/ g = "given up"
    PROVE  PhaseOf(a, g, s, t) = "abandoned"
BY DEF PhaseOf

\* The phase of a call whose caller waits depends on its slot alone.
LEMMA WaitingPhase ==
    ASSUME NEW a \in Submitted, NEW s, NEW t,
           s = "pending" => t \in {"running", "cancelled"}
    PROVE  PhaseOf(a, "none", s, t) = IF s \in {"value", "panic"} THEN "produced" ELSE "open"
BY DEF PhaseOf, Submitted

\* PhaseOf is the phase of the refinement mapping.
LEMMA MappedPhase ==
    ASSUME NEW c \in Calls
    PROVE  /\ Phase(c) = PhaseOf(caller[c], got[c], slot[c], task[c])
           /\ Phase(c)' = PhaseOf(caller'[c], got'[c], slot'[c], task'[c])
BY DEF Phase, PhaseOf

\* Who waits is in the phases open and produced, and nobody else.
LEMMA WaitingIsOpen ==
    ASSUME CallsInv, NEW c \in Calls
    PROVE  Phase(c) \in {"open", "produced"} <=> caller[c] \in Submitted
<1>1. CallerOk(c)
  BY DEF CallsInv, CallerInv
<1>2. caller[c] \in {"none", "refused", "holding", "waiting", "retiring", "releasing",
                     "closing", "aborting", "returned"}
  BY TypeParts DEF CallsInv, Typed_caller
<1>3. got[c] \in {"none", "value", "panic", "closed", "given up"}
  BY TypeParts DEF CallsInv, Typed_got
<1>4. Phase(c) = PhaseOf(caller[c], got[c], slot[c], task[c])
  BY MappedPhase
<1>5. CASE caller[c] \in {"none", "refused"}
  BY <1>1, <1>4, <1>5, NewPhase DEF CallerOk, Submitted
<1>6. CASE caller[c] \in Submitted
  <2>1. got[c] = "none" /\ (slot[c] = "pending" => task[c] \in {"running", "cancelled"})
    BY <1>1, <1>6 DEF CallerOk, Submitted
  <2>2. Phase(c) = IF slot[c] \in {"value", "panic"} THEN "produced" ELSE "open"
    BY <1>4, <1>6, <2>1, WaitingPhase
  <2> QED BY <1>6, <2>2
<1>7. CASE caller[c] \in {"releasing", "closing", "aborting"} \/ got[c] = "given up"
  <2>1. got[c] \in {"none", "given up"} /\ caller[c] \notin {"none", "refused", "holding", "waiting"}
    BY <1>1, <1>7 DEF CallerOk
  <2>2. Phase(c) = "abandoned"
    BY <1>4, <1>7, <2>1, AbandonedPhase
  <2> QED BY <2>1, <2>2 DEF Submitted
<1>8. CASE caller[c] \in {"retiring", "returned"} /\ got[c] # "given up"
  <2>1. got[c] \in {"value", "panic", "closed"}
    BY <1>1, <1>3, <1>8 DEF CallerOk
  <2>2. Phase(c) = IF got[c] = "closed" THEN "closed" ELSE "answered"
    <3>1. PhaseOf(caller[c], got[c], slot[c], task[c])
            = IF got[c] = "closed" THEN "closed" ELSE "answered"
      BY <1>8, <2>1 DEF PhaseOf
    <3> QED BY <1>4, <3>1
  <2> QED BY <1>8, <2>2 DEF Submitted
<1> QED BY <1>2, <1>5, <1>6, <1>7, <1>8 DEF Submitted

\* A step that changes neither a phase nor who is doomed changes nothing.
LEMMA Quiet ==
    ASSUME \A k \in Calls : Phase(k)' = Phase(k), Doomed' = Doomed
    PROVE  UNCHANGED Cells!vars
BY DEF Cells!vars, Doomed, Submitted

\* A step that changes one call in the mapped state.
LEMMA Change ==
    ASSUME NEW c \in Calls, \A k \in Calls \ {c} : Phase(k)' = Phase(k)
    PROVE  [k \in Calls |-> Phase(k)]' = [[k \in Calls |-> Phase(k)] EXCEPT ![c] = Phase(c)']
OBVIOUS

\* The cell of a caller that waits, before a step.
LEMMA PhaseWaiting ==
    ASSUME NEW k \in Calls, CallerOk(k), caller[k] \in Submitted
    PROVE  Phase(k) = IF slot[k] \in {"value", "panic"} THEN "produced" ELSE "open"
<1>1. got[k] = "none" /\ (slot[k] = "pending" => task[k] \in {"running", "cancelled"})
  BY DEF CallerOk, Submitted
<1> QED BY <1>1, MappedPhase, WaitingPhase

\* The cell of a caller that waits, after a step.
LEMMA PhaseWaitingNext ==
    ASSUME NEW k \in Calls, CallerOk(k)', caller'[k] \in Submitted
    PROVE  Phase(k)' = IF slot'[k] \in {"value", "panic"} THEN "produced" ELSE "open"
<1>1. got'[k] = "none" /\ (slot'[k] = "pending" => task'[k] \in {"running", "cancelled"})
  BY DEF CallerOk, Submitted
<1> QED BY <1>1, MappedPhase, WaitingPhase

\* What the invariant of the calls says of one caller.
LEMMA InvOk == CallsInv => \A k \in Calls : CallerOk(k)
BY DEF CallsInv, CallerInv

\* The phase of a call that nobody waits for does not depend on slot and task.
LEMMA NotWaiting ==
    ASSUME CallsInv, NEW k \in Calls, caller[k] \notin Submitted, caller'[k] = caller[k], got'[k] = got[k]
    PROVE  Phase(k)' = Phase(k)
<1>1. CallerOk(k)
  BY InvOk
<1>2. caller[k] \in {"none", "refused", "holding", "waiting", "retiring", "releasing",
                     "closing", "aborting", "returned"}
  BY TypeParts DEF CallsInv, Typed_caller
<1>3. got[k] \in {"none", "value", "panic", "closed", "given up"}
  BY TypeParts DEF CallsInv, Typed_got
<1>4. CASE caller[k] \in {"none", "refused"}
  <2>1. got[k] = "none"
    BY <1>1, <1>4 DEF CallerOk
  <2> QED BY <1>4, <2>1, MappedPhase, NewPhase
<1>5. CASE caller[k] \in {"releasing", "closing", "aborting"} \/ got[k] = "given up"
  <2>1. got[k] \in {"none", "given up"} /\ caller[k] \notin {"none", "refused"}
    BY <1>1, <1>5 DEF CallerOk
  <2>2. Phase(k) = "abandoned"
    BY <1>5, <2>1, MappedPhase DEF PhaseOf
  <2>3. Phase(k)' = "abandoned"
    BY <1>5, <2>1, MappedPhase DEF PhaseOf
  <2> QED BY <2>2, <2>3
<1>6. CASE caller[k] \in {"retiring", "returned"} /\ got[k] # "given up"
  <2>1. got[k] \in {"value", "panic", "closed"}
    BY <1>1, <1>3, <1>6 DEF CallerOk
  <2> DEFINE Told == IF got[k] = "closed" THEN "closed" ELSE "answered"
  <2>2. PhaseOf(caller[k], got[k], slot[k], task[k]) = Told
    BY <1>6, <2>1 DEF PhaseOf
  <2>3. PhaseOf(caller[k], got[k], slot'[k], task'[k]) = Told
    BY <1>6, <2>1 DEF PhaseOf
  <2> QED BY <2>2, <2>3, MappedPhase
<1> QED BY <1>2, <1>4, <1>5, <1>6 DEF Submitted

\* A call whose caller and result stay as they are, and whose slot neither
\* gets nor loses an outcome.
LEMMA Undisturbed ==
    ASSUME CallsInv, CallsInv', NEW k \in Calls, caller'[k] = caller[k], got'[k] = got[k],
           slot'[k] \in {"value", "panic"} <=> slot[k] \in {"value", "panic"}
    PROVE  Phase(k)' = Phase(k)
<1>1. CallerOk(k) /\ CallerOk(k)'
  BY DEF CallsInv, CallerInv
<1>2. CASE caller[k] \in Submitted
  BY <1>1, <1>2, PhaseWaiting, PhaseWaitingNext
<1>3. CASE caller[k] \notin Submitted
  BY <1>3, NotWaiting
<1> QED BY <1>2, <1>3

\* A refusal, or a caller that begins to wait, does not touch the cells.
LEMMA Unnoticed ==
    ASSUME CallsInv, CallsInv', UNCHANGED <<registered, got>>,
           \A k \in Calls : \/ caller'[k] = caller[k]
                            \/ caller[k] = "none" /\ caller'[k] = "refused"
                            \/ {caller[k], caller'[k]} \subseteq Submitted,
           \A k \in Calls : slot'[k] \in {"value", "panic"} <=> slot[k] \in {"value", "panic"}
    PROVE  UNCHANGED Cells!vars
<1>1. ASSUME NEW k \in Calls PROVE Phase(k)' = Phase(k)
  <2>1. CallerOk(k) /\ CallerOk(k)'
    BY DEF CallsInv, CallerInv
  <2>2. CASE caller'[k] = caller[k]
    BY <2>2, Undisturbed
  <2>3. CASE caller[k] = "none" /\ caller'[k] = "refused"
    <3>1. got[k] = "none" /\ got'[k] = "none"
      BY <2>1, <2>3 DEF CallerOk
    <3> QED BY <2>3, <3>1, MappedPhase, NewPhase
  <2>4. CASE {caller[k], caller'[k]} \subseteq Submitted
    BY <2>1, <2>4, PhaseWaiting, PhaseWaitingNext
  <2> QED BY <2>2, <2>3, <2>4
<1>2. \A k \in Calls : caller'[k] \in Submitted <=> caller[k] \in Submitted
  BY DEF Submitted
<1>3. Doomed' = Doomed
  BY <1>2 DEF Doomed
<1> QED BY <1>1, <1>3, Quiet

\* A step that moves one cell and leaves the others.
LEMMA Moves ==
    ASSUME NEW c \in Calls, NEW from, NEW to, Phase(c) \in from, Phase(c)' = to,
           \A k \in Calls \ {c} : Phase(k)' = Phase(k)
    PROVE  Cells!Becomes(c, from, to)
BY Change DEF Cells!Becomes

\* A step of the task or the caller of one call.
LEMMA Others ==
    ASSUME CallsInv, CallsInv', NEW c \in Calls,
           \A k \in Calls \ {c} : caller'[k] = caller[k] /\ got'[k] = got[k] /\ slot'[k] = slot[k]
    PROVE  \A k \in Calls \ {c} : Phase(k)' = Phase(k)
BY Undisturbed

\* An admission opens a cell; a refusal does not.
LEMMA SubmitStep ==
    ASSUME CallsInv, CallsInv', NEW o \in Owners, NEW c \in Calls, Admit(o, c)
    PROVE  Cells!Submit(c) \/ UNCHANGED Cells!vars
<1>1. c \in Calls /\ caller[c] = "none"
  BY DEF CallsInv, AdmitInv, Admit
<1>2. Shape
  BY Shapes DEF CallsInv
<1>3. CASE Refused(c, o) /\ UNCHANGED <<registered, slot>>
  <2>1. \A k \in Calls : caller'[k] = caller[k] \/ (caller[k] = "none" /\ caller'[k] = "refused")
    BY <1>1, <1>2, <1>3 DEF Refused, Shape
  <2> QED BY <1>3, <2>1, Unnoticed DEF Admit
<1>4. ASSUME NEW scopes, register(o, c, scopes)
      PROVE  Cells!Submit(c)
  <2>1. /\ caller'[c] = "holding" /\ slot'[c] = "pending" /\ registered' = registered \cup {c}
        /\ \A k \in Calls \ {c} : caller'[k] = caller[k] /\ got'[k] = got[k] /\ slot'[k] = slot[k]
    BY <1>1, <1>2, <1>4 DEF register, Shape, Admit
  <2>2. \A k \in Calls \ {c} : Phase(k)' = Phase(k)
    BY <2>1, Others
  <2>3. got[c] = "none"
    BY <1>1 DEF CallsInv, CallerInv, CallerOk
  <2>4. Phase(c) = "new"
    BY <1>1, <2>3, MappedPhase DEF PhaseOf
  <2>5. CallerOk(c)'
    BY DEF CallsInv, CallerInv
  <2>6. Phase(c)' = "open"
    BY <2>1, <2>5, PhaseWaitingNext DEF Submitted
  <2>7. Cells!Becomes(c, {"new"}, "open")
    BY <2>2, <2>4, <2>6, Moves
  <2>8. Doomed' = Doomed
    BY <1>1, <2>1 DEF Doomed, Submitted
  <2> QED BY <2>7, <2>8 DEF Cells!Submit, Doomed, Submitted
<1> QED BY <1>3, <1>4 DEF Admit

\* The release of an owner dooms the cells of its calls.
LEMMA ShutdownStep ==
    ASSUME CallsInv, CallsInv', NEW o \in Owners, release_owner(o)
    PROVE  Cells!Shutdown(o)
<1>1. UNCHANGED <<caller, got, slot, task>> /\ registered' = registered \ Of(o)
  BY DEF release_owner, remove
<1>2. \A k \in Calls : Phase(k)' = Phase(k)
  BY <1>1, Undisturbed
<1>3. \A k \in Calls : Phase(k) \in {"open", "produced"} <=> caller[k] \in Submitted
  BY WaitingIsOpen
<1>4. Doomed' = Doomed \cup {k \in Calls : owner[k] = o /\ Phase(k) \in {"open", "produced"}}
  BY <1>1, <1>3 DEF Doomed, Of
<1>5. [k \in Calls |-> Phase(k)]' = [k \in Calls |-> Phase(k)]
  BY <1>2
<1> QED BY <1>4, <1>5 DEF Cells!Shutdown, Doomed, Submitted

\* The steps of the owners implement steps of the cells.
LEMMA OwnersRefine ==
    ASSUME CallsInv, CallsInv', NEW o \in Owners, OwnerStep(o)
    PROVE  [Cells!Next]_(Cells!vars)
<1>1. Shape
  BY Shapes DEF CallsInv
<1>2. ASSUME NEW c \in Of(o), submit_client_call(c) PROVE UNCHANGED Cells!vars
  <2>1. c \in Calls
    BY DEF Of
  <2>2. UNCHANGED <<registered, got, slot>>
    BY <1>2 DEF submit_client_call
  <2>3. caller' = caller \/ (caller[c] = "none" /\ caller' = [caller EXCEPT ![c] = "refused"])
    BY <1>2 DEF submit_client_call, IsNext, Refused
  <2>4. \A k \in Calls : caller'[k] = caller[k] \/ (caller[k] = "none" /\ caller'[k] = "refused")
    BY <1>1, <2>1, <2>3 DEF Shape
  <2> QED BY <2>2, <2>4, Unnoticed
<1>3. ASSUME NEW c \in Calls, Admit(o, c) PROVE [Cells!Next]_(Cells!vars)
  BY <1>3, SubmitStep DEF Cells!Next
<1>4. CASE release_owner(o)
  BY <1>4, ShutdownStep DEF Cells!Next
<1>5. ASSUME NEW c \in Calls, CloseReleased(o, c) PROVE UNCHANGED Cells!vars
  <2>1. UNCHANGED <<registered, got, caller>>
    BY <1>5 DEF CloseReleased
  <2>2. \A k \in Calls : slot'[k] \in {"value", "panic"} <=> slot[k] \in {"value", "panic"}
    BY <1>1, <1>5 DEF CloseReleased, close, Shape
  <2> QED BY <2>1, <2>2, Unnoticed
<1>6. CASE connect_client(o) \/ abort_pending_calls(o) \/ disconnect_client(o)
  <2>1. UNCHANGED <<registered, got, caller, slot>>
    BY <1>6 DEF connect_client, abort_pending_calls, disconnect_client
  <2> QED BY <2>1, Unnoticed
<1> QED BY <1>2, <1>3, <1>4, <1>5, <1>6 DEF OwnerStep, Shutdown

\* The steps of the tasks implement steps of the cells.
LEMMA TasksRefine ==
    ASSUME CallsInv, CallsInv', NEW c \in Calls, TaskStep(c)
    PROVE  [Cells!Next]_(Cells!vars)
<1>1. Shape
  BY Shapes DEF CallsInv
<1>2. UNCHANGED <<registered, caller, got>>
  BY DEF TaskStep, TaskCompletes, TaskPanics, TaskIsDropped, TaskFinishes, Ends
<1>3. \A k \in Calls \ {c} : slot'[k] = slot[k]
  BY <1>1 DEF TaskStep, TaskCompletes, TaskPanics, TaskIsDropped, TaskFinishes, Ends, complete, Shape
<1>4. slot'[c] = slot[c] \/ (slot[c] = "pending" /\ slot'[c] \in {"value", "panic", "aborted"})
  BY <1>1 DEF TaskStep, TaskCompletes, TaskPanics, TaskIsDropped, TaskFinishes, Ends, complete, Shape
<1>5. \A k \in Calls \ {c} : Phase(k)' = Phase(k)
  BY <1>2, <1>3, Others
<1>6. Doomed' = Doomed
  BY <1>2 DEF Doomed
<1>7. CASE slot'[c] = slot[c] \/ slot'[c] = "aborted"
  <2>1. slot'[c] \in {"value", "panic"} <=> slot[c] \in {"value", "panic"}
    BY <1>4, <1>7
  <2>2. Phase(c)' = Phase(c)
    BY <1>2, <2>1, Undisturbed
  <2> QED BY <1>5, <1>6, <2>2, Quiet
<1>8. CASE caller[c] \notin Submitted
  <2>1. Phase(c)' = Phase(c)
    BY <1>2, <1>8, NotWaiting
  <2> QED BY <1>5, <1>6, <2>1, Quiet
<1>9. CASE caller[c] \in Submitted /\ slot[c] = "pending" /\ slot'[c] \in {"value", "panic"}
  <2>1. CallerOk(c) /\ CallerOk(c)'
    BY DEF CallsInv, CallerInv
  <2>2. Phase(c) = "open"
    BY <1>9, <2>1, PhaseWaiting
  <2>3. Phase(c)' = "produced"
    BY <1>2, <1>9, <2>1, PhaseWaitingNext
  <2>4. Cells!Becomes(c, {"open"}, "produced")
    BY <1>5, <2>2, <2>3, Moves
  <2>5. Cells!Produce(c)
    BY <1>6, <2>4 DEF Cells!Produce, Doomed, Submitted
  <2> QED BY <2>5 DEF Cells!Next
<1> QED BY <1>4, <1>7, <1>8, <1>9

\* A caller that leaves is not doomed any more.
LEMMA LeavingStep ==
    ASSUME CallsInv, CallsInv', NEW c \in Calls, caller[c] \in Submitted, UNCHANGED registered,
           caller'[c] \notin Submitted, \A k \in Calls \ {c} : caller'[k] = caller[k]
    PROVE  Doomed' = Doomed \ {c} /\ Phase(c) \in {"open", "produced"}
<1>1. Phase(c) \in {"open", "produced"}
  BY WaitingIsOpen
<1>2. Doomed' = Doomed \ {c}
  BY DEF Doomed
<1> QED BY <1>1, <1>2

\* The caller of an unregistered call, or of a closed slot, is told so.
LEMMA CloseStep ==
    ASSUME CallsInv, CallsInv', NEW c \in Calls, c \notin registered, UNCHANGED registered,
           caller[c] \in Submitted, caller'[c] \in {"retiring", "returned"}, got'[c] = "closed",
           \A k \in Calls \ {c} : caller'[k] = caller[k] /\ got'[k] = got[k] /\ slot'[k] = slot[k]
    PROVE  Cells!Close(c)
<1>1. Doomed' = Doomed \ {c} /\ Phase(c) \in {"open", "produced"}
  BY LeavingStep DEF Submitted
<1>2. \A k \in Calls \ {c} : Phase(k)' = Phase(k)
  BY Others
<1>3. Phase(c)' = "closed"
  BY MappedPhase DEF PhaseOf
<1>4. Cells!Becomes(c, {"open", "produced"}, "closed")
  BY <1>1, <1>2, <1>3, Moves
<1>5. c \in Doomed
  BY DEF Doomed
<1> QED BY <1>1, <1>4, <1>5 DEF Cells!Close, Doomed, Submitted

\* A caller that gives up abandons its cell.
LEMMA AbandonStep ==
    ASSUME CallsInv, CallsInv', NEW c \in Calls, UNCHANGED <<registered, got, slot>>,
           caller[c] \in Submitted, caller' = [caller EXCEPT ![c] = "releasing"]
    PROVE  Cells!Abandon(c)
<1>1. caller'[c] = "releasing" /\ \A k \in Calls \ {c} : caller'[k] = caller[k]
  BY Shapes DEF CallsInv, Shape
<1>2. Doomed' = Doomed \ {c} /\ Phase(c) \in {"open", "produced"}
  BY <1>1, LeavingStep DEF Submitted
<1>3. \A k \in Calls \ {c} : Phase(k)' = Phase(k)
  BY <1>1, Others
<1>4. got[c] = "none"
  BY DEF CallsInv, CallerInv, CallerOk, Submitted
<1>5. Phase(c)' = "abandoned"
  BY <1>1, <1>4, MappedPhase DEF PhaseOf
<1>6. Cells!Becomes(c, {"open", "produced"}, "abandoned")
  BY <1>2, <1>3, <1>5, Moves
<1> QED BY <1>2, <1>6 DEF Cells!Abandon, Doomed, Submitted

\* A read of the slot answers the cell or closes it.
LEMMA ReadsRefine ==
    ASSUME CallsInv, CallsInv', NEW c \in Calls, Reads(c)
    PROVE  Cells!Answer(c) \/ Cells!Close(c)
<1>1. Shape
  BY Shapes DEF CallsInv
<1>2. /\ caller[c] \in Submitted /\ slot[c] # "pending" /\ UNCHANGED registered
      /\ caller'[c] = "retiring"
      /\ got'[c] = IF slot[c] \in {"value", "panic"} THEN slot[c] ELSE "closed"
  BY <1>1 DEF Reads, CallerUnchanged, Shape, Submitted
<1>3. \A k \in Calls \ {c} : caller'[k] = caller[k] /\ got'[k] = got[k] /\ slot'[k] = slot[k]
  BY <1>1 DEF Reads, Shape
<1>4. CASE slot[c] \in {"value", "panic"}
  <2>1. CallerOk(c)
    BY DEF CallsInv, CallerInv
  <2>2. Phase(c) = "produced"
    BY <1>2, <1>4, <2>1, PhaseWaiting
  <2>3. Phase(c)' = "answered"
    BY <1>2, <1>4, MappedPhase DEF PhaseOf
  <2>4. \A k \in Calls \ {c} : Phase(k)' = Phase(k)
    BY <1>3, Others
  <2>5. Cells!Becomes(c, {"produced"}, "answered")
    BY <2>2, <2>3, <2>4, Moves
  <2>6. Doomed' = Doomed \ {c}
    BY <1>2, <1>3, LeavingStep DEF Submitted
  <2> QED BY <2>5, <2>6 DEF Cells!Answer, Doomed, Submitted
<1>5. CASE slot[c] \notin {"value", "panic"}
  <2>1. c \notin registered
    BY <1>2, <1>5 DEF CallsInv, RegisterInv, Submitted
  <2> QED BY <1>2, <1>3, <1>5, <2>1, CloseStep
<1> QED BY <1>4, <1>5

\* What a caller does after it has left the loop is not visible.
LEMMA AfterwardsQuiet ==
    ASSUME CallsInv, CallsInv', NEW c \in Calls, Retires(c) \/ Releases(c)
    PROVE  UNCHANGED Cells!vars
<1>1. Shape
  BY Shapes DEF CallsInv
<1>2. \A k \in Calls \ {c} : caller'[k] = caller[k] /\ got'[k] = got[k] /\ slot'[k] = slot[k]
  BY <1>1 DEF Retires, Releases, release_call, ReleaseCloses, ReleaseAborts, close, Shape
<1>3. \A k \in Calls \ {c} : Phase(k)' = Phase(k)
  BY <1>2, Others
<1>4. caller[c] \notin Submitted /\ caller'[c] \notin Submitted
  BY <1>1 DEF Retires, Releases, release_call, ReleaseCloses, ReleaseAborts, Shape, Submitted
<1>5. registered' = registered \/ registered' = registered \ {c}
  BY DEF Retires, Releases, release_call, ReleaseCloses, ReleaseAborts, remove, CallerUnchanged
<1>6. Doomed' = Doomed
  BY <1>2, <1>4, <1>5 DEF Doomed
<1>7. CallerOk(c) /\ CallerOk(c)'
  BY DEF CallsInv, CallerInv
<1>8. CASE Retires(c)
  <2>1. /\ caller[c] = "retiring" /\ caller'[c] = "returned" /\ got'[c] = got[c]
        /\ got[c] \in {"value", "panic", "closed"}
    BY <1>1, <1>7, <1>8 DEF Retires, Shape, CallerOk
  <2> DEFINE Told == IF got[c] = "closed" THEN "closed" ELSE "answered"
  <2>2. PhaseOf(caller[c], got[c], slot[c], task[c]) = Told
    BY <2>1 DEF PhaseOf
  <2>3. PhaseOf(caller'[c], got'[c], slot'[c], task'[c]) = Told
    BY <2>1 DEF PhaseOf
  <2>4. Phase(c)' = Phase(c)
    BY <2>2, <2>3, MappedPhase
  <2> QED BY <1>3, <1>6, <2>4, Quiet
<1>9. CASE Releases(c)
  <2>1. /\ caller[c] \in {"releasing", "closing", "aborting"}
        /\ caller'[c] \in {"closing", "aborting", "returned"}
        /\ got[c] \in {"none", "given up"} /\ got'[c] = "given up"
    BY <1>1, <1>7, <1>9 DEF Releases, release_call, ReleaseCloses, ReleaseAborts, Shape, CallerOk
  <2>2. Phase(c) = "abandoned"
    BY <2>1, MappedPhase DEF PhaseOf
  <2>3. Phase(c)' = "abandoned"
    BY <2>1, MappedPhase DEF PhaseOf
  <2> QED BY <1>3, <1>6, <2>2, <2>3, Quiet
<1> QED BY <1>8, <1>9

\* The steps of the callers implement steps of the cells.
LEMMA CallersRefine ==
    ASSUME CallsInv, CallsInv', NEW c \in Calls, CallerStep(c)
    PROVE  [Cells!Next]_(Cells!vars)
<1>1. Shape
  BY Shapes DEF CallsInv
<1>2. CASE LooksUp(c)
  <2>1. caller[c] \in Submitted /\ UNCHANGED <<slot, registered>>
    BY <1>2 DEF LooksUp, CallerUnchanged, Submitted
  <2>2. CASE c \in registered
    <3>1. UNCHANGED got /\ \A k \in Calls : caller'[k] = caller[k] \/ {caller[k], caller'[k]} \subseteq Submitted
      BY <1>1, <1>2, <2>2 DEF LooksUp, Shape, Submitted
    <3>2. UNCHANGED Cells!vars
      BY <2>1, <3>1, Unnoticed
    <3> QED BY <3>2
  <2>3. CASE c \notin registered
    <3>1. /\ caller'[c] = "returned" /\ got'[c] = "closed"
          /\ \A k \in Calls \ {c} : caller'[k] = caller[k] /\ got'[k] = got[k]
      BY <1>1, <1>2, <2>3 DEF LooksUp, Shape
    <3>2. Cells!Close(c)
      BY <2>1, <2>3, <3>1, CloseStep
    <3> QED BY <3>2 DEF Cells!Next
  <2> QED BY <2>2, <2>3
<1>3. CASE Reads(c)
  BY <1>3, ReadsRefine DEF Cells!Next
<1>4. CASE NotReady(c)
  <2>1. caller[c] \in Submitted /\ UNCHANGED <<slot, got, registered>>
    BY <1>4 DEF NotReady, CallerUnchanged, Submitted
  <2>2. CASE c \in last
    <3>1. Cells!Abandon(c)
      BY <1>4, <2>1, <2>2, AbandonStep DEF NotReady
    <3> QED BY <3>1 DEF Cells!Next
  <2>3. CASE c \notin last
    <3>1. \A k \in Calls : caller'[k] = caller[k] \/ {caller[k], caller'[k]} \subseteq Submitted
      BY <1>1, <1>4, <2>3 DEF NotReady, Shape, Submitted
    <3>2. UNCHANGED Cells!vars
      BY <2>1, <3>1, Unnoticed
    <3> QED BY <3>2
  <2> QED BY <2>2, <2>3
<1>5. CASE DeadlinePasses(c)
  <2>1. UNCHANGED <<registered, got, caller, slot>>
    BY <1>5 DEF DeadlinePasses, CallerUnchanged
  <2>2. UNCHANGED Cells!vars
    BY <2>1, Unnoticed
  <2> QED BY <2>2
<1>6. CASE Interrupted(c)
  <2>1. caller[c] \in Submitted /\ UNCHANGED <<slot, got, registered>>
    BY <1>6 DEF Interrupted, CallerUnchanged, Submitted
  <2>2. Cells!Abandon(c)
    BY <1>6, <2>1, AbandonStep DEF Interrupted
  <2> QED BY <2>2 DEF Cells!Next
<1>7. CASE Retires(c) \/ Releases(c)
  BY <1>7, AfterwardsQuiet
<1> QED BY <1>2, <1>3, <1>4, <1>5, <1>6, <1>7 DEF CallerStep, Awaits

\* The completion cells of client_calls.rs, with admission, shutdown, release
\* and the awaiting loop around them, never show a caller anything but the
\* life that OneShotCalls allows: one answer, from its own task, closed only by
\* a shutdown after the submission.
THEOREM CellsAreOneShot == CallsSpec => Cells!Init /\ [][Cells!Next]_(Cells!vars)
<1>1. CallsInit => CallsInv
  BY InitCallsInv
<1>2. CallsInv /\ [CallsNext]_callVars => CallsInv'
  BY NextKeepsCallsInv
<1>3. CallsInit => Cells!Init
  <2> SUFFICES ASSUME CallsInit PROVE Cells!Init
    OBVIOUS
  <2>1. \A k \in Calls : Phase(k) = "new"
    BY MappedPhase, NewPhase DEF CallsInit
  <2>2. Doomed = {}
    BY DEF CallsInit, Doomed, Submitted
  <2> QED BY <2>1, <2>2 DEF Cells!Init, Doomed, Submitted
<1>4. CallsInv /\ CallsInv' /\ [CallsNext]_callVars => [Cells!Next]_(Cells!vars)
  <2> SUFFICES ASSUME CallsInv, CallsInv', [CallsNext]_callVars PROVE [Cells!Next]_(Cells!vars)
    OBVIOUS
  <2>1. CASE UNCHANGED callVars
    <3>1. UNCHANGED <<registered, got, caller, slot>>
      BY <2>1 DEF callVars
    <3>2. UNCHANGED Cells!vars
      BY <3>1, Unnoticed
    <3> QED BY <3>2
  <2> QED BY <2>1, OwnersRefine, TasksRefine, CallersRefine DEF CallsNext
<1> QED BY <1>1, <1>2, <1>3, <1>4, PTL DEF CallsSpec
=============================================================================
