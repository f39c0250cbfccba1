-------------------------- MODULE ClientCallsProofs --------------------------
(***************************************************************************)
(* Proofs about ClientCalls for every finite set of calls, every set of    *)
(* graphs and all limits: the registry and the handles are accounted for,  *)
(* and every step of the cells, the registry, the tasks, the graphs and    *)
(* the callers is a step of OneShotCalls or changes nothing there.         *)
(***************************************************************************)
EXTENDS ClientCalls, FiniteSetTheorems, TLAPS

\* A graph admits one call of its own that nobody has yet.
AdmitInv ==
    \A o \in Owners : doing[o] = "admitting" =>
        \E c \in Of(o) : work[o] = {c} /\ caller[c] = "none"

\* A registered call was admitted and nobody has aborted or closed it.
RegisterInv ==
    \A c \in registered :
        /\ caller[c] \notin {"none", "refused", "closing", "aborting"}
        /\ task[c] # "cancelled" /\ slot[c] # "aborted" /\ pending[c] # "released"
        /\ caller[c] \in {"holding", "waiting"} => slot[c] \in {"pending", "value", "panic"}

\* A graph that shuts down has no registered call.
ShutdownInv ==
    \A o \in Owners : doing[o] \in {"closing", "joining"} =>
        registered \cap Of(o) = {} /\ work[o] \subseteq Of(o)

\* A pending slot has a task that will settle it; a call that was not admitted
\* has neither; and a caller has received something exactly when it says so.
CallerOk(c) ==
    /\ slot[c] = "pending" => task[c] \in {"running", "cancelled"}
    /\ caller[c] \in {"none", "refused"} => slot[c] = "none" /\ task[c] = "none"
    /\ caller[c] \in {"holding", "waiting"} => slot[c] # "none"
    /\ caller[c] \in {"none", "refused", "holding", "waiting", "releasing"} => got[c] = "none"
    /\ caller[c] = "retiring" => got[c] \in {"value", "panic", "closed"}
    /\ caller[c] \in {"closing", "aborting"} => got[c] = "given up"
    /\ caller[c] = "returned" => got[c] # "none"

CallerInv == \A c \in Calls : CallerOk(c)

CallsInv == TypeOK /\ AdmitInv /\ RegisterInv /\ ShutdownInv /\ CallerInv

USE DEF Outcomes

\* The assumptions on the constants, in the form the steps use them.
LEMMA Given ==
    /\ IsFiniteSet(Calls)
    /\ owner \in [Calls -> Owners]
    /\ in_flight_calls \in [Owners -> Nat]
BY CallsAssumption

\* The type invariant in parts, and the shape of the state that most of the
\* steps below need of it.
Typed_per_owner == per_owner \in [Owners -> Nat]
Typed_slot == slot \in [Calls -> {"none", "pending", "closed"} \cup Outcomes]
Typed_task == task \in [Calls -> {"none", "running", "cancelled", "ending", "finished"}]
Typed_pending == pending \in [Calls -> {"none", "start", "wait", "bounded", "released"}]
Typed_doing == doing \in [Owners -> {"nothing", "admitting", "closing", "joining"}]
Typed_work == work \in [Owners -> SUBSET Calls]
Typed_caller == caller \in [Calls -> {"none", "refused", "holding", "waiting", "retiring", "releasing",
                                   "closing", "aborting", "returned"}]
Typed_got == got \in [Calls -> {"none", "value", "panic", "closed", "given up"}]
Typed_rest == /\ request \in Workloads /\ connected \subseteq Owners
              /\ registered \subseteq Calls /\ last \subseteq Calls

\* The type invariant, variable by variable.
LEMMA TypeParts ==
    TypeOK <=> /\ Typed_rest
               /\ Typed_per_owner
               /\ Typed_slot
               /\ Typed_task
               /\ Typed_pending
               /\ Typed_doing
               /\ Typed_work
               /\ Typed_caller
               /\ Typed_got
BY DEF TypeOK, Typed_rest, Typed_per_owner, Typed_slot, Typed_task, Typed_pending, Typed_doing, Typed_work, Typed_caller, Typed_got

Shape ==
    /\ DOMAIN slot = Calls /\ DOMAIN task = Calls /\ DOMAIN pending = Calls
    /\ DOMAIN caller = Calls /\ DOMAIN got = Calls
    /\ DOMAIN doing = Owners /\ work \in [Owners -> SUBSET Calls]
    /\ registered \subseteq Calls

\* What the type invariant says of the domains.
LEMMA Shapes == TypeOK => Shape
<1> SUFFICES ASSUME TypeOK PROVE Shape
  OBVIOUS
<1>1. DOMAIN slot = Calls
  BY TypeParts DEF Typed_slot
<1>2. DOMAIN task = Calls
  BY TypeParts DEF Typed_task
<1>3. DOMAIN pending = Calls
  BY TypeParts DEF Typed_pending
<1>4. DOMAIN caller = Calls
  BY TypeParts DEF Typed_caller
<1>5. DOMAIN got = Calls
  BY TypeParts DEF Typed_got
<1>6. DOMAIN doing = Owners
  BY TypeParts DEF Typed_doing
<1>7. work \in [Owners -> SUBSET Calls] /\ registered \subseteq Calls
  BY TypeParts DEF Typed_work, Typed_rest
<1> QED BY <1>1, <1>2, <1>3, <1>4, <1>5, <1>6, <1>7 DEF Shape

\* The inductive invariant holds before the first call.
LEMMA InitCallsInv == CallsInit => CallsInv
BY DEF CallsInit, CallsInv, TypeOK, AdmitInv, RegisterInv, ShutdownInv, CallerInv, CallerOk, Of

\* The counts are natural numbers after a removal from the registry.
LEMMA RemovedCounts ==
    ASSUME TypeOK, NEW o \in Owners, NEW calls \in SUBSET Calls, remove(calls, o)
    PROVE  Typed_per_owner' /\ registered' = registered \ calls
<1>1. IsFiniteSet(registered \cap calls)
  BY Given, FS_Subset, TypeParts DEF Typed_rest
<1>2. Cardinality(registered \cap calls) \in Nat
  BY <1>1, FS_CardinalityType
<1> QED BY <1>2, TypeParts DEF remove, Saturating, Typed_per_owner

\* The steps of the owners: connect, submit, shutdown and release.
LEMMA OwnersKeepCallsInv ==
    ASSUME CallsInv, NEW o \in Owners, OwnerStep(o) PROVE CallsInv'
<1>1. CASE connect_client(o)
  <2>1. TypeOK'
    <3>1. Typed_per_owner' /\ Typed_slot' /\ Typed_task' /\ Typed_pending' /\ Typed_doing' /\ Typed_work' /\ Typed_caller' /\ Typed_got' /\ Typed_rest'
      BY <1>1, TypeParts DEF CallsInv, Typed_per_owner, Typed_slot, Typed_task, Typed_pending, Typed_doing, Typed_work, Typed_caller, Typed_got, Typed_rest, connect_client
    <3> QED BY <3>1 DEF TypeOK, Typed_rest, Typed_per_owner, Typed_slot, Typed_task, Typed_pending, Typed_doing, Typed_work, Typed_caller, Typed_got
  <2>2. AdmitInv'
    BY <1>1, Shapes DEF connect_client, CallsInv, Shape, AdmitInv
  <2>3. RegisterInv'
    BY <1>1, Shapes DEF connect_client, CallsInv, Shape, RegisterInv, CallerInv
  <2>4. ShutdownInv'
    BY <1>1, Shapes DEF connect_client, CallsInv, Shape, ShutdownInv
  <2>5. CallerInv'
    BY <1>1, Shapes DEF connect_client, CallsInv, Shape, CallerInv, CallerOk
  <2> QED BY <2>1, <2>2, <2>3, <2>4, <2>5 DEF CallsInv
<1>2. ASSUME NEW c \in Of(o), submit_client_call(c) PROVE CallsInv'
  <2>0. owner[c] = o /\ c \in Calls
    BY DEF Of
  <2>1. caller[c] = "none" /\ doing[o] = "nothing"
    BY <1>2, <2>0 DEF submit_client_call, IsNext
  <2>2. /\ UNCHANGED <<request, connected, registered, per_owner, slot, last, got>>
        /\ \/ Refused(c, o)
           \/ /\ doing' = [doing EXCEPT ![o] = "admitting"] /\ work' = [work EXCEPT ![o] = {c}]
              /\ UNCHANGED caller
    BY <1>2, <2>0 DEF submit_client_call
  <2>3. Typed_pending' /\ Typed_task'
        /\ \A k \in Calls : /\ pending'[k] = "released" => k \notin registered
                            /\ \/ task'[k] = task[k]
                               \/ task[k] = "running" /\ task'[k] = "cancelled" /\ k \notin registered
    <3>1. CASE o \notin connected
      BY <1>2, <2>0, <3>1, TypeParts DEF submit_client_call, CallsInv, RegisterInv, Typed_pending, Typed_task
    <3>2. CASE o \in connected
      <4>1. pending' = swept(o) /\ abort({k \in Of(o) : swept(o)[k] = "released"})
        BY <1>2, <2>0, <3>2 DEF submit_client_call
      <4>2. swept(o) \in [Calls -> {"none", "start", "wait", "bounded", "released"}]
        BY TypeParts DEF swept, CallsInv, Typed_pending
      <4>3. \A k \in Calls : swept(o)[k] = "released" => k \notin registered
        BY DEF swept, Kept, CallsInv, RegisterInv
      <4>4. Typed_task'
        BY <4>1, TypeParts DEF abort, CallsInv, Typed_task
      <4> QED BY <4>1, <4>2, <4>3, <4>4 DEF abort, Typed_pending
    <3> QED BY <3>1, <3>2
  <2>4. TypeOK'
    <3>1. Typed_caller'
      BY <2>0, <2>2, TypeParts DEF CallsInv, Typed_caller, Refused
    <3>2. Typed_doing'
      BY <2>2, TypeParts DEF CallsInv, Typed_doing, Refused
    <3>3. Typed_work'
      BY <2>0, <2>2, TypeParts DEF CallsInv, Typed_work, Refused
    <3>4. Typed_slot' /\ Typed_got' /\ Typed_per_owner' /\ Typed_rest'
      BY <2>2, TypeParts DEF CallsInv, Typed_rest, Typed_slot, Typed_got, Typed_per_owner
    <3> QED BY <2>3, <3>1, <3>2, <3>3, <3>4 DEF TypeOK, Typed_rest, Typed_per_owner, Typed_slot, Typed_task, Typed_pending, Typed_doing, Typed_work, Typed_caller, Typed_got
  <2>5. AdmitInv'
    <3> SUFFICES ASSUME NEW q \in Owners, doing'[q] = "admitting"
                 PROVE  \E k \in Of(q) : work'[q] = {k} /\ caller'[k] = "none"
      BY DEF AdmitInv
    <3>1. CASE q = o
      BY <2>0, <2>1, <2>2, <3>1, Shapes DEF Refused, CallsInv, Shape
    <3>2. CASE q # o
      <4>1. PICK k \in Of(q) : work[q] = {k} /\ caller[k] = "none"
        BY <2>2, <3>2, Shapes DEF Refused, CallsInv, Shape, AdmitInv
      <4>2. k # c /\ k \in Calls
        BY <2>0, <3>2 DEF Of
      <4> QED BY <2>2, <3>2, <4>1, <4>2, Shapes DEF Refused, CallsInv, Shape
    <3> QED BY <3>1, <3>2
  <2>6. RegisterInv'
    BY <2>0, <2>1, <2>2, <2>3, Shapes DEF Refused, CallsInv, Shape, RegisterInv
  <2>7. ShutdownInv'
    BY <2>1, <2>2, Shapes DEF Refused, CallsInv, Shape, ShutdownInv
  <2>8. CallerInv'
    <3> SUFFICES ASSUME NEW k \in Calls PROVE CallerOk(k)'
      BY DEF CallerInv
    <3>1. CallerOk(k) /\ CallerOk(c)
      BY <2>0 DEF CallsInv, CallerInv
    <3>2. UNCHANGED <<slot, got>>
      BY <2>2
    <3>3. caller'[k] = caller[k] \/ (k = c /\ caller'[k] = "refused")
      BY <2>0, <2>2, Shapes DEF Refused, CallsInv, Shape
    <3>4. task'[k] = task[k] \/ (task[k] = "running" /\ task'[k] = "cancelled")
      BY <2>3
    <3> QED BY <2>1, <3>1, <3>2, <3>3, <3>4 DEF CallerOk
  <2> QED BY <2>4, <2>5, <2>6, <2>7, <2>8 DEF CallsInv
<1>3. ASSUME NEW c \in Calls, Admit(o, c) PROVE CallsInv'
  <2>1. owner[c] = o /\ caller[c] = "none" /\ doing[o] = "admitting" /\ work[o] = {c}
    BY <1>3 DEF Admit, CallsInv, AdmitInv, Of
  <2>2. scope(c) \in {"start", "wait", "bounded"}
    BY DEF scope
  <2>3. PICK scopes \in [Calls -> {"none", "start", "wait", "bounded", "released"}] :
          /\ \A k \in Calls : scopes[k] \in {"none", pending[k]}
          /\ \/ register(o, c, scopes)
             \/ /\ Refused(c, o) /\ pending' = scopes
                /\ UNCHANGED <<registered, per_owner, slot, task>>
    <3> DEFINE full    == Cardinality(Kept(o)) >= in_flight_calls[o]
               reaped  == {k \in Kept(o) : full /\ pending[k] = "released"}
               scopes  == [k \in Calls |-> IF k \in reaped THEN "none" ELSE pending[k]]
    <3>1. \/ register(o, c, scopes)
          \/ /\ Refused(c, o) /\ pending' = scopes
             /\ UNCHANGED <<registered, per_owner, slot, task>>
      BY <1>3 DEF Admit
    <3> HIDE DEF reaped
    <3>2. /\ scopes \in [Calls -> {"none", "start", "wait", "bounded", "released"}]
          /\ \A k \in Calls : scopes[k] \in {"none", pending[k]}
      BY TypeParts DEF CallsInv, Typed_pending
    <3> QED BY <3>1, <3>2
  <2>4. UNCHANGED <<request, connected, last, got>>
    BY <1>3 DEF Admit
  <2>5. TypeOK'
    <3>1. Typed_slot'
      BY <2>3, TypeParts DEF CallsInv, Typed_slot, register
    <3>2. Typed_task'
      BY <2>3, TypeParts DEF CallsInv, Typed_task, register
    <3>3. Typed_pending'
      BY <2>2, <2>3 DEF Typed_pending, register
    <3>4. Typed_caller'
      BY <2>3, TypeParts DEF CallsInv, Typed_caller, register, Refused
    <3>5. Typed_doing' /\ Typed_work'
      BY <2>3, TypeParts DEF CallsInv, Typed_doing, Typed_work, register, Refused
    <3>6. Typed_per_owner'
      BY <2>3, TypeParts DEF CallsInv, Typed_per_owner, register
    <3>7. Typed_got' /\ Typed_rest'
      BY <2>3, <2>4, TypeParts DEF CallsInv, Typed_got, Typed_rest, register
    <3> QED BY <3>1, <3>2, <3>3, <3>4, <3>5, <3>6, <3>7 DEF TypeOK, Typed_rest, Typed_per_owner, Typed_slot, Typed_task, Typed_pending, Typed_doing, Typed_work, Typed_caller, Typed_got
  <2>6. AdmitInv'
    <3> SUFFICES ASSUME NEW q \in Owners, doing'[q] = "admitting"
                 PROVE  \E k \in Of(q) : work'[q] = {k} /\ caller'[k] = "none"
      BY DEF AdmitInv
    <3>1. q # o
      BY <2>3, Shapes DEF register, Refused, CallsInv, Shape
    <3>2. PICK k \in Of(q) : work[q] = {k} /\ caller[k] = "none"
      BY <2>3, <3>1, Shapes DEF register, Refused, CallsInv, Shape, AdmitInv
    <3>3. k # c /\ k \in Calls
      BY <2>1, <3>1 DEF Of
    <3> QED BY <2>3, <3>1, <3>2, <3>3, Shapes DEF register, Refused, CallsInv, Shape
  <2>7. RegisterInv'
    BY <2>1, <2>2, <2>3, <2>4, Shapes DEF register, Refused, CallsInv, Shape, RegisterInv
  <2>8. ShutdownInv'
    BY <2>1, <2>3, Shapes DEF register, Refused, CallsInv, Shape, ShutdownInv, Of
  <2>9. CallerInv'
    <3> SUFFICES ASSUME NEW k \in Calls PROVE CallerOk(k)'
      BY DEF CallerInv
    <3>1. CallerOk(k) /\ CallerOk(c)
      BY DEF CallsInv, CallerInv
    <3>2. CASE register(o, c, scopes)
      BY <2>1, <2>4, <3>1, <3>2, Shapes DEF register, CallsInv, Shape, CallerOk
    <3>3. CASE Refused(c, o) /\ UNCHANGED <<slot, task>>
      BY <2>1, <2>4, <3>1, <3>3, Shapes DEF Refused, CallsInv, Shape, CallerOk
    <3> QED BY <2>3, <3>2, <3>3
  <2> QED BY <2>5, <2>6, <2>7, <2>8, <2>9 DEF CallsInv
<1>4. CASE release_owner(o)
  <2>0. Typed_per_owner' /\ registered' = registered \ Of(o) /\ Of(o) \subseteq Calls
    BY <1>4, RemovedCounts DEF release_owner, CallsInv, Of
  <2>1. TypeOK'
    <3>1. Typed_per_owner'
      BY <1>4, <2>0, TypeParts DEF CallsInv, Typed_per_owner, release_owner
    <3>2. Typed_doing'
      BY <1>4, <2>0, TypeParts DEF CallsInv, Typed_doing, release_owner
    <3>3. Typed_work'
      BY <1>4, <2>0, TypeParts DEF CallsInv, Typed_work, release_owner
    <3>4. Typed_slot' /\ Typed_task' /\ Typed_pending' /\ Typed_caller' /\ Typed_got' /\ Typed_rest'
      BY <1>4, <2>0, TypeParts DEF CallsInv, Typed_slot, Typed_task, Typed_pending, Typed_caller, Typed_got, Typed_rest, release_owner
    <3> QED BY <3>1, <3>2, <3>3, <3>4 DEF TypeOK, Typed_rest, Typed_per_owner, Typed_slot, Typed_task, Typed_pending, Typed_doing, Typed_work, Typed_caller, Typed_got
  <2>2. AdmitInv'
    BY <1>4, <2>0, Shapes DEF release_owner, CallsInv, Shape, AdmitInv
  <2>3. RegisterInv'
    BY <1>4, <2>0, Shapes DEF release_owner, CallsInv, Shape, RegisterInv, CallerInv
  <2>4. ShutdownInv'
    BY <1>4, <2>0, Shapes DEF release_owner, CallsInv, Shape, ShutdownInv
  <2>5. CallerInv'
    BY <1>4, <2>0, Shapes DEF release_owner, CallsInv, Shape, CallerInv, CallerOk
  <2> QED BY <2>1, <2>2, <2>3, <2>4, <2>5 DEF CallsInv
<1>5. ASSUME NEW c \in Calls, CloseReleased(o, c) PROVE CallsInv'
  <2>0. c \notin registered
    BY <1>5 DEF CloseReleased, CallsInv, ShutdownInv
  <2>1. TypeOK'
    <3>1. Typed_slot'
      BY <1>5, <2>0, TypeParts DEF CallsInv, Typed_slot, CloseReleased, close
    <3>2. Typed_work'
      BY <1>5, <2>0, TypeParts DEF CallsInv, Typed_work, CloseReleased, close
    <3>3. Typed_per_owner' /\ Typed_task' /\ Typed_pending' /\ Typed_doing' /\ Typed_caller' /\ Typed_got' /\ Typed_rest'
      BY <1>5, <2>0, TypeParts DEF CallsInv, Typed_per_owner, Typed_task, Typed_pending, Typed_doing, Typed_caller, Typed_got, Typed_rest, CloseReleased, close
    <3> QED BY <3>1, <3>2, <3>3 DEF TypeOK, Typed_rest, Typed_per_owner, Typed_slot, Typed_task, Typed_pending, Typed_doing, Typed_work, Typed_caller, Typed_got
  <2>2. AdmitInv'
    BY <1>5, <2>0, Shapes DEF CloseReleased, close, CallsInv, Shape, AdmitInv
  <2>3. RegisterInv'
    BY <1>5, <2>0, Shapes DEF CloseReleased, close, CallsInv, Shape, RegisterInv, CallerInv
  <2>4. ShutdownInv'
    BY <1>5, <2>0, Shapes DEF CloseReleased, close, CallsInv, Shape, ShutdownInv
  <2>5. CallerInv'
    BY <1>5, <2>0, Shapes DEF CloseReleased, close, CallsInv, Shape, CallerInv, CallerOk
  <2> QED BY <2>1, <2>2, <2>3, <2>4, <2>5 DEF CallsInv
<1>6. CASE abort_pending_calls(o)
  <2>0. Kept(o) \subseteq Of(o) /\ Kept(o) \subseteq Calls /\ \A k \in Kept(o) : k \notin registered
    BY <1>6 DEF abort_pending_calls, CallsInv, ShutdownInv, Kept, Of
  <2>1. TypeOK'
    <3>1. Typed_task'
      BY <1>6, <2>0, TypeParts DEF CallsInv, Typed_task, abort_pending_calls, abort
    <3>2. Typed_pending'
      BY <1>6, <2>0, TypeParts DEF CallsInv, Typed_pending, abort_pending_calls, abort
    <3>3. Typed_doing'
      BY <1>6, <2>0, TypeParts DEF CallsInv, Typed_doing, abort_pending_calls, abort
    <3>4. Typed_work'
      BY <1>6, <2>0, TypeParts DEF CallsInv, Typed_work, abort_pending_calls, abort
    <3>5. Typed_per_owner' /\ Typed_slot' /\ Typed_caller' /\ Typed_got' /\ Typed_rest'
      BY <1>6, <2>0, TypeParts DEF CallsInv, Typed_per_owner, Typed_slot, Typed_caller, Typed_got, Typed_rest, abort_pending_calls, abort
    <3> QED BY <3>1, <3>2, <3>3, <3>4, <3>5 DEF TypeOK, Typed_rest, Typed_per_owner, Typed_slot, Typed_task, Typed_pending, Typed_doing, Typed_work, Typed_caller, Typed_got
  <2>2. AdmitInv'
    BY <1>6, <2>0, Shapes DEF abort_pending_calls, abort, CallsInv, Shape, AdmitInv
  <2>3. RegisterInv'
    BY <1>6, <2>0, Shapes DEF abort_pending_calls, abort, CallsInv, Shape, RegisterInv, CallerInv
  <2>4. ShutdownInv'
    BY <1>6, <2>0, Shapes DEF abort_pending_calls, abort, CallsInv, Shape, ShutdownInv
  <2>5. CallerInv'
    BY <1>6, <2>0, Shapes DEF abort_pending_calls, abort, CallsInv, Shape, CallerInv, CallerOk
  <2> QED BY <2>1, <2>2, <2>3, <2>4, <2>5 DEF CallsInv
<1>7. CASE disconnect_client(o)
  <2>1. TypeOK'
    <3>1. Typed_doing'
      BY <1>7, TypeParts DEF CallsInv, Typed_doing, disconnect_client
    <3>2. Typed_work'
      BY <1>7, TypeParts DEF CallsInv, Typed_work, disconnect_client
    <3>3. Typed_per_owner' /\ Typed_slot' /\ Typed_task' /\ Typed_pending' /\ Typed_caller' /\ Typed_got' /\ Typed_rest'
      BY <1>7, TypeParts DEF CallsInv, Typed_per_owner, Typed_slot, Typed_task, Typed_pending, Typed_caller, Typed_got, Typed_rest, disconnect_client
    <3> QED BY <3>1, <3>2, <3>3 DEF TypeOK, Typed_rest, Typed_per_owner, Typed_slot, Typed_task, Typed_pending, Typed_doing, Typed_work, Typed_caller, Typed_got
  <2>2. AdmitInv'
    BY <1>7, Shapes DEF disconnect_client, CallsInv, Shape, AdmitInv
  <2>3. RegisterInv'
    BY <1>7, Shapes DEF disconnect_client, CallsInv, Shape, RegisterInv, CallerInv
  <2>4. ShutdownInv'
    BY <1>7, Shapes DEF disconnect_client, CallsInv, Shape, ShutdownInv
  <2>5. CallerInv'
    BY <1>7, Shapes DEF disconnect_client, CallsInv, Shape, CallerInv, CallerOk
  <2> QED BY <2>1, <2>2, <2>3, <2>4, <2>5 DEF CallsInv
<1> QED BY <1>1, <1>2, <1>3, <1>4, <1>5, <1>6, <1>7 DEF OwnerStep, Shutdown

\* The steps of the call tasks.
LEMMA TasksKeepCallsInv ==
    ASSUME CallsInv, NEW c \in Calls, TaskStep(c) PROVE CallsInv'
<1>1. ASSUME NEW outcome \in Outcomes, task[c] \in {"running", "cancelled"}, Ends(c, outcome),
             outcome = "aborted" => task[c] = "cancelled"
      PROVE  CallsInv'
  <2>1. TypeOK'
    <3>1. Typed_slot'
      BY <1>1, TypeParts DEF CallsInv, Typed_slot, Ends, complete
    <3>2. Typed_task'
      BY <1>1, TypeParts DEF CallsInv, Typed_task, Ends, complete
    <3>3. Typed_per_owner' /\ Typed_pending' /\ Typed_doing' /\ Typed_work' /\ Typed_caller' /\ Typed_got' /\ Typed_rest'
      BY <1>1, TypeParts DEF CallsInv, Typed_per_owner, Typed_pending, Typed_doing, Typed_work, Typed_caller, Typed_got, Typed_rest, Ends, complete
    <3> QED BY <3>1, <3>2, <3>3 DEF TypeOK, Typed_rest, Typed_per_owner, Typed_slot, Typed_task, Typed_pending, Typed_doing, Typed_work, Typed_caller, Typed_got
  <2>2. AdmitInv'
    BY <1>1, Shapes DEF Ends, complete, CallsInv, Shape, AdmitInv
  <2>3. RegisterInv'
    BY <1>1, Shapes DEF Ends, complete, CallsInv, Shape, RegisterInv, CallerInv
  <2>4. ShutdownInv'
    BY <1>1, Shapes DEF Ends, complete, CallsInv, Shape, ShutdownInv
  <2>5. CallerInv'
    BY <1>1, Shapes DEF Ends, complete, CallsInv, Shape, CallerInv, CallerOk
  <2> QED BY <2>1, <2>2, <2>3, <2>4, <2>5 DEF CallsInv
<1>2. CASE TaskFinishes(c)
  <2>1. TypeOK'
    <3>1. Typed_task'
      BY <1>2, TypeParts DEF CallsInv, Typed_task, TaskFinishes
    <3>2. Typed_per_owner' /\ Typed_slot' /\ Typed_pending' /\ Typed_doing' /\ Typed_work' /\ Typed_caller' /\ Typed_got' /\ Typed_rest'
      BY <1>2, TypeParts DEF CallsInv, Typed_per_owner, Typed_slot, Typed_pending, Typed_doing, Typed_work, Typed_caller, Typed_got, Typed_rest, TaskFinishes
    <3> QED BY <3>1, <3>2 DEF TypeOK, Typed_rest, Typed_per_owner, Typed_slot, Typed_task, Typed_pending, Typed_doing, Typed_work, Typed_caller, Typed_got
  <2>2. AdmitInv'
    BY <1>2, Shapes DEF TaskFinishes, CallsInv, Shape, AdmitInv
  <2>3. RegisterInv'
    BY <1>2, Shapes DEF TaskFinishes, CallsInv, Shape, RegisterInv, CallerInv
  <2>4. ShutdownInv'
    BY <1>2, Shapes DEF TaskFinishes, CallsInv, Shape, ShutdownInv
  <2>5. CallerInv'
    BY <1>2, Shapes DEF TaskFinishes, CallsInv, Shape, CallerInv, CallerOk
  <2> QED BY <2>1, <2>2, <2>3, <2>4, <2>5 DEF CallsInv
<1> QED BY <1>1, <1>2 DEF TaskStep, TaskCompletes, TaskPanics, TaskIsDropped

\* The steps of the callers: wait, read, abandon and leave.
LEMMA CallersKeepCallsInv ==
    ASSUME CallsInv, NEW c \in Calls, CallerStep(c) PROVE CallsInv'
<1> USE DEF CallerUnchanged
<1>1. CASE LooksUp(c)
  <2>1. TypeOK'
    <3>1. Typed_caller'
      BY <1>1, TypeParts DEF CallsInv, Typed_caller, LooksUp
    <3>2. Typed_got'
      BY <1>1, TypeParts DEF CallsInv, Typed_got, LooksUp
    <3>3. Typed_per_owner' /\ Typed_slot' /\ Typed_task' /\ Typed_pending' /\ Typed_doing' /\ Typed_work' /\ Typed_rest'
      BY <1>1, TypeParts DEF CallsInv, Typed_per_owner, Typed_slot, Typed_task, Typed_pending, Typed_doing, Typed_work, Typed_rest, LooksUp
    <3> QED BY <3>1, <3>2, <3>3 DEF TypeOK, Typed_rest, Typed_per_owner, Typed_slot, Typed_task, Typed_pending, Typed_doing, Typed_work, Typed_caller, Typed_got
  <2>2. AdmitInv'
    BY <1>1, Shapes DEF LooksUp, CallsInv, Shape, AdmitInv
  <2>3. RegisterInv'
    BY <1>1, Shapes DEF LooksUp, CallsInv, Shape, RegisterInv, CallerInv
  <2>4. ShutdownInv'
    BY <1>1, Shapes DEF LooksUp, CallsInv, Shape, ShutdownInv
  <2>5. CallerInv'
    <3> SUFFICES ASSUME NEW k \in Calls PROVE CallerOk(k)'
      BY DEF CallerInv
    <3>1. CallerOk(k) /\ CallerOk(c)
      BY DEF CallsInv, CallerInv
    <3> QED BY <1>1, <3>1, Shapes DEF LooksUp, CallsInv, Shape, CallerOk
  <2> QED BY <2>1, <2>2, <2>3, <2>4, <2>5 DEF CallsInv
<1>2. CASE Reads(c)
  <2>1. TypeOK'
    <3>1. Typed_slot'
      BY <1>2, TypeParts DEF CallsInv, Typed_slot, Reads
    <3>2. Typed_caller'
      BY <1>2, TypeParts DEF CallsInv, Typed_caller, Reads
    <3>3. Typed_got'
      BY <1>2, TypeParts DEF CallsInv, Typed_got, Reads
    <3>4. Typed_per_owner' /\ Typed_task' /\ Typed_pending' /\ Typed_doing' /\ Typed_work' /\ Typed_rest'
      BY <1>2, TypeParts DEF CallsInv, Typed_per_owner, Typed_task, Typed_pending, Typed_doing, Typed_work, Typed_rest, Reads
    <3> QED BY <3>1, <3>2, <3>3, <3>4 DEF TypeOK, Typed_rest, Typed_per_owner, Typed_slot, Typed_task, Typed_pending, Typed_doing, Typed_work, Typed_caller, Typed_got
  <2>2. AdmitInv'
    BY <1>2, Shapes DEF Reads, CallsInv, Shape, AdmitInv
  <2>3. RegisterInv'
    BY <1>2, Shapes DEF Reads, CallsInv, Shape, RegisterInv, CallerInv
  <2>4. ShutdownInv'
    BY <1>2, Shapes DEF Reads, CallsInv, Shape, ShutdownInv
  <2>5. CallerInv'
    <3> SUFFICES ASSUME NEW k \in Calls PROVE CallerOk(k)'
      BY DEF CallerInv
    <3>1. CallerOk(k) /\ CallerOk(c)
      BY DEF CallsInv, CallerInv
    <3> QED BY <1>2, <3>1, Shapes DEF Reads, CallsInv, Shape, CallerOk
  <2> QED BY <2>1, <2>2, <2>3, <2>4, <2>5 DEF CallsInv
<1>3. CASE Retires(c)
  <2>0. Typed_per_owner' /\ registered' = registered \ {c}
    BY <1>3, Given, RemovedCounts DEF Retires, CallsInv
  <2>1. TypeOK'
    <3>1. Typed_per_owner'
      BY <1>3, <2>0, TypeParts DEF CallsInv, Typed_per_owner, Retires
    <3>2. Typed_caller'
      BY <1>3, <2>0, TypeParts DEF CallsInv, Typed_caller, Retires
    <3>3. Typed_slot' /\ Typed_task' /\ Typed_pending' /\ Typed_doing' /\ Typed_work' /\ Typed_got' /\ Typed_rest'
      BY <1>3, <2>0, TypeParts DEF CallsInv, Typed_slot, Typed_task, Typed_pending, Typed_doing, Typed_work, Typed_got, Typed_rest, Retires
    <3> QED BY <3>1, <3>2, <3>3 DEF TypeOK, Typed_rest, Typed_per_owner, Typed_slot, Typed_task, Typed_pending, Typed_doing, Typed_work, Typed_caller, Typed_got
  <2>2. AdmitInv'
    BY <1>3, <2>0, Shapes DEF Retires, CallsInv, Shape, AdmitInv
  <2>3. RegisterInv'
    BY <1>3, <2>0, Shapes DEF Retires, CallsInv, Shape, RegisterInv, CallerInv
  <2>4. ShutdownInv'
    BY <1>3, <2>0, Shapes DEF Retires, CallsInv, Shape, ShutdownInv
  <2>5. CallerInv'
    <3> SUFFICES ASSUME NEW k \in Calls PROVE CallerOk(k)'
      BY DEF CallerInv
    <3>1. CallerOk(k) /\ CallerOk(c)
      BY DEF CallsInv, CallerInv
    <3> QED BY <1>3, <2>0, <3>1, Shapes DEF Retires, CallsInv, Shape, CallerOk
  <2> QED BY <2>1, <2>2, <2>3, <2>4, <2>5 DEF CallsInv
<1>4. CASE NotReady(c)
  <2>1. TypeOK'
    <3>1. Typed_caller'
      BY <1>4, TypeParts DEF CallsInv, Typed_caller, NotReady
    <3>2. Typed_per_owner' /\ Typed_slot' /\ Typed_task' /\ Typed_pending' /\ Typed_doing' /\ Typed_work' /\ Typed_got' /\ Typed_rest'
      BY <1>4, TypeParts DEF CallsInv, Typed_per_owner, Typed_slot, Typed_task, Typed_pending, Typed_doing, Typed_work, Typed_got, Typed_rest, NotReady
    <3> QED BY <3>1, <3>2 DEF TypeOK, Typed_rest, Typed_per_owner, Typed_slot, Typed_task, Typed_pending, Typed_doing, Typed_work, Typed_caller, Typed_got
  <2>2. AdmitInv'
    BY <1>4, Shapes DEF NotReady, CallsInv, Shape, AdmitInv
  <2>3. RegisterInv'
    BY <1>4, Shapes DEF NotReady, CallsInv, Shape, RegisterInv, CallerInv
  <2>4. ShutdownInv'
    BY <1>4, Shapes DEF NotReady, CallsInv, Shape, ShutdownInv
  <2>5. CallerInv'
    <3> SUFFICES ASSUME NEW k \in Calls PROVE CallerOk(k)'
      BY DEF CallerInv
    <3>1. CallerOk(k) /\ CallerOk(c)
      BY DEF CallsInv, CallerInv
    <3> QED BY <1>4, <3>1, Shapes DEF NotReady, CallsInv, Shape, CallerOk
  <2> QED BY <2>1, <2>2, <2>3, <2>4, <2>5 DEF CallsInv
<1>5. CASE DeadlinePasses(c)
  <2>1. TypeOK'
    <3>1. Typed_per_owner' /\ Typed_slot' /\ Typed_task' /\ Typed_pending' /\ Typed_doing' /\ Typed_work' /\ Typed_caller' /\ Typed_got' /\ Typed_rest'
      BY <1>5, TypeParts DEF CallsInv, Typed_per_owner, Typed_slot, Typed_task, Typed_pending, Typed_doing, Typed_work, Typed_caller, Typed_got, Typed_rest, DeadlinePasses
    <3> QED BY <3>1 DEF TypeOK, Typed_rest, Typed_per_owner, Typed_slot, Typed_task, Typed_pending, Typed_doing, Typed_work, Typed_caller, Typed_got
  <2>2. AdmitInv'
    BY <1>5, Shapes DEF DeadlinePasses, CallsInv, Shape, AdmitInv
  <2>3. RegisterInv'
    BY <1>5, Shapes DEF DeadlinePasses, CallsInv, Shape, RegisterInv, CallerInv
  <2>4. ShutdownInv'
    BY <1>5, Shapes DEF DeadlinePasses, CallsInv, Shape, ShutdownInv
  <2>5. CallerInv'
    <3> SUFFICES ASSUME NEW k \in Calls PROVE CallerOk(k)'
      BY DEF CallerInv
    <3>1. CallerOk(k) /\ CallerOk(c)
      BY DEF CallsInv, CallerInv
    <3> QED BY <1>5, <3>1, Shapes DEF DeadlinePasses, CallsInv, Shape, CallerOk
  <2> QED BY <2>1, <2>2, <2>3, <2>4, <2>5 DEF CallsInv
<1>6. CASE Interrupted(c)
  <2>1. TypeOK'
    <3>1. Typed_caller'
      BY <1>6, TypeParts DEF CallsInv, Typed_caller, Interrupted
    <3>2. Typed_per_owner' /\ Typed_slot' /\ Typed_task' /\ Typed_pending' /\ Typed_doing' /\ Typed_work' /\ Typed_got' /\ Typed_rest'
      BY <1>6, TypeParts DEF CallsInv, Typed_per_owner, Typed_slot, Typed_task, Typed_pending, Typed_doing, Typed_work, Typed_got, Typed_rest, Interrupted
    <3> QED BY <3>1, <3>2 DEF TypeOK, Typed_rest, Typed_per_owner, Typed_slot, Typed_task, Typed_pending, Typed_doing, Typed_work, Typed_caller, Typed_got
  <2>2. AdmitInv'
    BY <1>6, Shapes DEF Interrupted, CallsInv, Shape, AdmitInv
  <2>3. RegisterInv'
    BY <1>6, Shapes DEF Interrupted, CallsInv, Shape, RegisterInv, CallerInv
  <2>4. ShutdownInv'
    BY <1>6, Shapes DEF Interrupted, CallsInv, Shape, ShutdownInv
  <2>5. CallerInv'
    <3> SUFFICES ASSUME NEW k \in Calls PROVE CallerOk(k)'
      BY DEF CallerInv
    <3>1. CallerOk(k) /\ CallerOk(c)
      BY DEF CallsInv, CallerInv
    <3> QED BY <1>6, <3>1, Shapes DEF Interrupted, CallsInv, Shape, CallerOk
  <2> QED BY <2>1, <2>2, <2>3, <2>4, <2>5 DEF CallsInv
<1>7. CASE release_call(c)
  <2>0. Typed_per_owner' /\ registered' = registered \ {c}
    BY <1>7, Given, RemovedCounts DEF release_call, CallsInv
  <2>1. TypeOK'
    <3>1. Typed_per_owner'
      BY <1>7, <2>0, TypeParts DEF CallsInv, Typed_per_owner, release_call
    <3>2. Typed_caller'
      BY <1>7, <2>0, TypeParts DEF CallsInv, Typed_caller, release_call
    <3>3. Typed_got'
      BY <1>7, <2>0, TypeParts DEF CallsInv, Typed_got, release_call
    <3>4. Typed_slot' /\ Typed_task' /\ Typed_pending' /\ Typed_doing' /\ Typed_work' /\ Typed_rest'
      BY <1>7, <2>0, TypeParts DEF CallsInv, Typed_slot, Typed_task, Typed_pending, Typed_doing, Typed_work, Typed_rest, release_call
    <3> QED BY <3>1, <3>2, <3>3, <3>4 DEF TypeOK, Typed_rest, Typed_per_owner, Typed_slot, Typed_task, Typed_pending, Typed_doing, Typed_work, Typed_caller, Typed_got
  <2>2. AdmitInv'
    BY <1>7, <2>0, Shapes DEF release_call, CallsInv, Shape, AdmitInv
  <2>3. RegisterInv'
    BY <1>7, <2>0, Shapes DEF release_call, CallsInv, Shape, RegisterInv, CallerInv
  <2>4. ShutdownInv'
    BY <1>7, <2>0, Shapes DEF release_call, CallsInv, Shape, ShutdownInv
  <2>5. CallerInv'
    <3> SUFFICES ASSUME NEW k \in Calls PROVE CallerOk(k)'
      BY DEF CallerInv
    <3>1. CallerOk(k) /\ CallerOk(c)
      BY DEF CallsInv, CallerInv
    <3> QED BY <1>7, <2>0, <3>1, Shapes DEF release_call, CallsInv, Shape, CallerOk
  <2> QED BY <2>1, <2>2, <2>3, <2>4, <2>5 DEF CallsInv
<1>8. CASE ReleaseCloses(c)
  <2>1. TypeOK'
    <3>1. Typed_slot'
      BY <1>8, TypeParts DEF CallsInv, Typed_slot, ReleaseCloses, close
    <3>2. Typed_caller'
      BY <1>8, TypeParts DEF CallsInv, Typed_caller, ReleaseCloses, close
    <3>3. Typed_per_owner' /\ Typed_task' /\ Typed_pending' /\ Typed_doing' /\ Typed_work' /\ Typed_got' /\ Typed_rest'
      BY <1>8, TypeParts DEF CallsInv, Typed_per_owner, Typed_task, Typed_pending, Typed_doing, Typed_work, Typed_got, Typed_rest, ReleaseCloses, close
    <3> QED BY <3>1, <3>2, <3>3 DEF TypeOK, Typed_rest, Typed_per_owner, Typed_slot, Typed_task, Typed_pending, Typed_doing, Typed_work, Typed_caller, Typed_got
  <2>2. AdmitInv'
    BY <1>8, Shapes DEF ReleaseCloses, close, CallsInv, Shape, AdmitInv
  <2>3. RegisterInv'
    BY <1>8, Shapes DEF ReleaseCloses, close, CallsInv, Shape, RegisterInv, CallerInv
  <2>4. ShutdownInv'
    BY <1>8, Shapes DEF ReleaseCloses, close, CallsInv, Shape, ShutdownInv
  <2>5. CallerInv'
    <3> SUFFICES ASSUME NEW k \in Calls PROVE CallerOk(k)'
      BY DEF CallerInv
    <3>1. CallerOk(k) /\ CallerOk(c)
      BY DEF CallsInv, CallerInv
    <3> QED BY <1>8, <3>1, Shapes DEF ReleaseCloses, close, CallsInv, Shape, CallerOk
  <2> QED BY <2>1, <2>2, <2>3, <2>4, <2>5 DEF CallsInv
<1>9. CASE ReleaseAborts(c)
  <2>1. TypeOK'
    <3>1. Typed_task'
      BY <1>9, TypeParts DEF CallsInv, Typed_task, ReleaseAborts, abort
    <3>2. Typed_caller'
      BY <1>9, TypeParts DEF CallsInv, Typed_caller, ReleaseAborts, abort
    <3>3. Typed_per_owner' /\ Typed_slot' /\ Typed_pending' /\ Typed_doing' /\ Typed_work' /\ Typed_got' /\ Typed_rest'
      BY <1>9, TypeParts DEF CallsInv, Typed_per_owner, Typed_slot, Typed_pending, Typed_doing, Typed_work, Typed_got, Typed_rest, ReleaseAborts, abort
    <3> QED BY <3>1, <3>2, <3>3 DEF TypeOK, Typed_rest, Typed_per_owner, Typed_slot, Typed_task, Typed_pending, Typed_doing, Typed_work, Typed_caller, Typed_got
  <2>2. AdmitInv'
    BY <1>9, Shapes DEF ReleaseAborts, abort, CallsInv, Shape, AdmitInv
  <2>3. RegisterInv'
    BY <1>9, Shapes DEF ReleaseAborts, abort, CallsInv, Shape, RegisterInv, CallerInv
  <2>4. ShutdownInv'
    BY <1>9, Shapes DEF ReleaseAborts, abort, CallsInv, Shape, ShutdownInv
  <2>5. CallerInv'
    <3> SUFFICES ASSUME NEW k \in Calls PROVE CallerOk(k)'
      BY DEF CallerInv
    <3>1. CallerOk(k) /\ CallerOk(c)
      BY DEF CallsInv, CallerInv
    <3> QED BY <1>9, <3>1, Shapes DEF ReleaseAborts, abort, CallsInv, Shape, CallerOk
  <2> QED BY <2>1, <2>2, <2>3, <2>4, <2>5 DEF CallsInv
<1> QED BY <1>1, <1>2, <1>3, <1>4, <1>5, <1>6, <1>7, <1>8, <1>9 DEF CallerStep, Awaits, Releases

\* The inductive invariant is preserved by every step.
LEMMA NextKeepsCallsInv == CallsInv /\ [CallsNext]_callVars => CallsInv'
<1> SUFFICES ASSUME CallsInv, [CallsNext]_callVars PROVE CallsInv'
  OBVIOUS
<1>1. CASE UNCHANGED callVars
  <2>1. TypeOK'
    <3>1. Typed_per_owner' /\ Typed_slot' /\ Typed_task' /\ Typed_pending' /\ Typed_doing' /\ Typed_work' /\ Typed_caller' /\ Typed_got' /\ Typed_rest'
      BY <1>1, TypeParts DEF CallsInv, Typed_per_owner, Typed_slot, Typed_task, Typed_pending, Typed_doing, Typed_work, Typed_caller, Typed_got, Typed_rest, callVars
    <3> QED BY <3>1 DEF TypeOK, Typed_rest, Typed_per_owner, Typed_slot, Typed_task, Typed_pending, Typed_doing, Typed_work, Typed_caller, Typed_got
  <2>2. AdmitInv'
    BY <1>1, Shapes DEF callVars, CallsInv, Shape, AdmitInv
  <2>3. RegisterInv'
    BY <1>1, Shapes DEF callVars, CallsInv, Shape, RegisterInv, CallerInv
  <2>4. ShutdownInv'
    BY <1>1, Shapes DEF callVars, CallsInv, Shape, ShutdownInv
  <2>5. CallerInv'
    BY <1>1, Shapes DEF callVars, CallsInv, Shape, CallerInv, CallerOk
  <2> QED BY <2>1, <2>2, <2>3, <2>4, <2>5 DEF CallsInv
<1>2. CASE CallsNext
  BY <1>2, OwnersKeepCallsInv, TasksKeepCallsInv, CallersKeepCallsInv DEF CallsNext
<1> QED BY <1>1, <1>2

(***************************************************************************)
(* The accounts.                                                           *)
(***************************************************************************)
LEMMA FiniteCalls ==
    \A S \in SUBSET Calls : IsFiniteSet(S) /\ Cardinality(S) \in Nat
BY Given, FS_Subset, FS_CardinalityType

\* Calls that leave the registry leave the count of their graph with it.
LEMMA Removing ==
    ASSUME CallsInv, Accounted, NEW o \in Owners, NEW calls \in SUBSET Of(o), remove(calls, o),
           UNCHANGED pending
    PROVE  Accounted'
<1> DEFINE A == registered \cap Of(o)
           B == registered \cap calls
<1>1. /\ A \subseteq Calls /\ B \subseteq A /\ A \cap B = B /\ A \ B = registered' \cap Of(o)
  BY DEF remove, Of
<1>2. /\ IsFiniteSet(A) /\ IsFiniteSet(B) /\ Cardinality(A) \in Nat /\ Cardinality(B) \in Nat
  BY <1>1, FiniteCalls
<1>3. Cardinality(A \ B) = Cardinality(A) - Cardinality(B)
  <2>1. Cardinality(A \ B) = Cardinality(A) - Cardinality(A \cap B)
    BY <1>2, FS_Difference
  <2> QED BY <1>1, <2>1
<1>4. Cardinality(B) <= Cardinality(A)
  BY <1>1, <1>2, FS_Subset
<1>5. per_owner[o] = Cardinality(A)
  BY DEF Accounted
<1>6. DOMAIN per_owner = Owners
  BY TypeParts DEF CallsInv, Typed_per_owner
<1>7. per_owner'[o] = Cardinality(A) - Cardinality(B)
  <2>1. per_owner'[o] = Saturating(per_owner[o], Cardinality(B))
    BY <1>6 DEF remove
  <2> HIDE DEF A, B
  <2> QED BY <2>1, <1>2, <1>4, <1>5 DEF Saturating
<1> SUFFICES ASSUME NEW q \in Owners
             PROVE  /\ per_owner'[q] = Cardinality(registered' \cap Of(q))
                    /\ per_owner'[q] <= in_flight_calls[q]
                    /\ Cardinality(Kept(q)') <= in_flight_calls[q]
  BY DEF Accounted, Of
<1>8. Kept(q)' = Kept(q)
  BY DEF Kept, Of
<1>9. CASE q = o
  <2>1. per_owner'[o] = Cardinality(registered' \cap Of(o))
    BY <1>1, <1>3, <1>7
  <2>2. Cardinality(A) <= in_flight_calls[o] /\ in_flight_calls[o] \in Nat
    BY <1>5, Given DEF Accounted
  <2> HIDE DEF A, B
  <2>3. per_owner'[o] <= in_flight_calls[o]
    BY <2>2, <1>2, <1>7
  <2> QED BY <1>8, <1>9, <2>1, <2>3 DEF Accounted
<1>10. CASE q # o
  <2>1. per_owner'[q] = per_owner[q]
    BY <1>6, <1>10 DEF remove
  <2>2. registered' \cap Of(q) = registered \cap Of(q)
    BY <1>10 DEF remove, Of
  <2> QED BY <1>8, <2>1, <2>2 DEF Accounted
<1> QED BY <1>9, <1>10

\* A graph that keeps fewer handles is within its ceiling as before.
LEMMA KeepingLess ==
    ASSUME CallsInv, Accounted, UNCHANGED <<registered, per_owner>>,
           \A k \in Calls : pending'[k] # "none" => pending[k] # "none"
    PROVE  Accounted'
<1> SUFFICES ASSUME NEW q \in Owners PROVE Cardinality(Kept(q)') <= in_flight_calls[q]
  BY DEF Accounted, Of
<1>1. Kept(q)' \subseteq Kept(q) /\ Kept(q) \subseteq Calls
  BY DEF Kept, Of
<1>2. Cardinality(Kept(q)') <= Cardinality(Kept(q))
  BY <1>1, FiniteCalls, FS_Subset
<1>3. Cardinality(Kept(q)) \in Nat /\ Cardinality(Kept(q)') \in Nat /\ in_flight_calls[q] \in Nat
  BY <1>1, FiniteCalls, Given
<1>4. Cardinality(Kept(q)) <= in_flight_calls[q]
  BY DEF Accounted
<1> QED BY <1>2, <1>3, <1>4

\* Admission counts the call that it registers.
LEMMA AdmitKeepsAccounts ==
    ASSUME CallsInv, Accounted, NEW o \in Owners, NEW c \in Calls, Admit(o, c) PROVE Accounted'
<1> DEFINE full    == Cardinality(Kept(o)) >= in_flight_calls[o]
           reaped  == {k \in Kept(o) : full /\ pending[k] = "released"}
           scopes  == [k \in Calls |-> IF k \in reaped THEN "none" ELSE pending[k]]
           live    == {k \in Of(o) : scopes[k] \notin {"none", "released"}}
<1>1. owner[c] = o /\ caller[c] = "none" /\ c \notin registered
  <2>1. doing[o] = "admitting" /\ work[o] = {c}
    BY DEF Admit
  <2>2. PICK k \in Of(o) : work[o] = {k} /\ caller[k] = "none"
    BY <2>1 DEF CallsInv, AdmitInv
  <2>3. k = c
    BY <2>1, <2>2
  <2>4. \A r \in registered : caller[r] # "none"
    BY DEF CallsInv, RegisterInv
  <2> QED BY <2>2, <2>3, <2>4 DEF Of
<1>2. \/ /\ register(o, c, scopes)
         /\ ~(Cardinality(live) >= in_flight_calls[o]) /\ ~(per_owner[o] >= in_flight_calls[o])
      \/ pending' = scopes /\ UNCHANGED <<registered, per_owner>>
  BY DEF Admit, in_flight
<1>3. CASE pending' = scopes /\ UNCHANGED <<registered, per_owner>>
  BY <1>3, KeepingLess
<1>4. CASE /\ register(o, c, scopes)
           /\ ~(Cardinality(live) >= in_flight_calls[o]) /\ ~(per_owner[o] >= in_flight_calls[o])
  <2>1. /\ registered' = registered \cup {c}
        /\ per_owner' = [per_owner EXCEPT ![o] = @ + 1]
        /\ \A k \in Calls : pending'[k] = IF k = c THEN scope(c) ELSE scopes[k]
    BY <1>4 DEF register
  <2>2. per_owner \in [Owners -> Nat] /\ in_flight_calls \in [Owners -> Nat]
    BY Given, TypeParts DEF CallsInv, Typed_per_owner
  <2>3. ASSUME NEW q \in Owners
        PROVE  per_owner'[q] = Cardinality(registered' \cap Of(q)) /\ per_owner'[q] <= in_flight_calls[q]
    <3>1. CASE q = o
      <4>1. registered' \cap Of(o) = (registered \cap Of(o)) \cup {c}
        BY <1>1, <2>1 DEF Of
      <4>2. registered \cap Of(o) \subseteq Calls /\ c \notin registered \cap Of(o)
        BY <1>1 DEF Of
      <4>3. Cardinality(registered' \cap Of(o)) = Cardinality(registered \cap Of(o)) + 1
        BY <4>1, <4>2, FiniteCalls, FS_AddElement
      <4>4. per_owner[o] = Cardinality(registered \cap Of(o))
        BY DEF Accounted
      <4>5. per_owner'[o] = per_owner[o] + 1 /\ per_owner[o] < in_flight_calls[o]
        <5>1. per_owner'[o] = per_owner[o] + 1
          BY <2>1, <2>2
        <5>2. per_owner[o] \in Nat /\ in_flight_calls[o] \in Nat
          BY <2>2
        <5>3. ~(per_owner[o] >= in_flight_calls[o])
          BY <1>4
        <5>4. per_owner[o] < in_flight_calls[o]
          BY <5>2, <5>3
        <5> QED BY <5>1, <5>4
      <4> QED BY <2>2, <3>1, <4>3, <4>4, <4>5
    <3>2. CASE q # o
      <4>1. registered' \cap Of(q) = registered \cap Of(q)
        BY <1>1, <2>1, <3>2 DEF Of
      <4>2. per_owner'[q] = per_owner[q]
        BY <2>1, <2>2, <3>2
      <4> QED BY <4>1, <4>2 DEF Accounted
    <3> QED BY <3>1, <3>2
  <2>4. ASSUME NEW q \in Owners PROVE Cardinality(Kept(q)') <= in_flight_calls[q]
    <3>1. CASE q # o
      <4>1. Kept(q)' \subseteq Kept(q) /\ Kept(q) \subseteq Calls
        BY <1>1, <2>1, <3>1 DEF Kept, Of
      <4>2. Cardinality(Kept(q)') <= Cardinality(Kept(q))
        BY <4>1, FiniteCalls, FS_Subset
      <4>3. Cardinality(Kept(q)) \in Nat /\ Cardinality(Kept(q)') \in Nat
        BY <4>1, FiniteCalls
      <4>4. Cardinality(Kept(q)) <= in_flight_calls[q]
        BY DEF Accounted
      <4> QED BY <2>2, <4>2, <4>3, <4>4
    <3>2. CASE q = o
      <4>1. PICK S \in SUBSET Calls : Kept(o)' \subseteq S \cup {c} /\ Cardinality(S) < in_flight_calls[o]
        <5>1. live \subseteq Calls /\ Kept(o) \subseteq Calls
          BY DEF Kept, Of
        <5>2. Cardinality(live) \in Nat /\ Cardinality(Kept(o)) \in Nat
          BY <5>1, FiniteCalls
        <5>3. CASE full
          <6>1. Kept(o)' \subseteq live \cup {c}
            BY <2>1, <5>3 DEF Kept, Of
          <6>2. Cardinality(live) < in_flight_calls[o]
            <7> HIDE DEF live
            <7> QED BY <1>4, <2>2, <5>2
          <6> QED BY <5>1, <6>1, <6>2
        <5>4. CASE ~full
          <6>1. Kept(o)' \subseteq Kept(o) \cup {c}
            BY <2>1 DEF Kept, Of
          <6>2. Cardinality(Kept(o)) < in_flight_calls[o]
            BY <2>2, <5>2, <5>4
          <6> QED BY <5>1, <6>1, <6>2
        <5> QED BY <5>3, <5>4
      <4>2. /\ IsFiniteSet(S \cup {c}) /\ Cardinality(S) \in Nat
            /\ Cardinality(S \cup {c}) <= Cardinality(S) + 1
        BY FiniteCalls, FS_AddElement
      <4>3. Cardinality(Kept(o)') <= Cardinality(S \cup {c}) /\ Cardinality(Kept(o)') \in Nat
        BY <4>1, <4>2, FS_Subset, FS_CardinalityType
      <4>4. Cardinality(S \cup {c}) \in Nat
        BY <4>2, FS_CardinalityType
      <4> QED BY <2>2, <3>2, <4>1, <4>2, <4>3, <4>4
    <3> QED BY <3>1, <3>2
  <2> QED BY <2>3, <2>4 DEF Accounted, Of
<1> QED BY <1>2, <1>3, <1>4

\* The accounts stay exact in every step.
LEMMA NextKeepsAccounts ==
    ASSUME CallsInv, Accounted, [CallsNext]_callVars PROVE Accounted'
<1>1. ASSUME UNCHANGED <<registered, per_owner, pending>> PROVE Accounted'
  BY <1>1, KeepingLess
<1>2. ASSUME NEW o \in Owners, OwnerStep(o) PROVE Accounted'
  <2>1. ASSUME NEW c \in Of(o), submit_client_call(c) PROVE Accounted'
    <3>1. owner[c] = o /\ c \in Calls
      BY DEF Of
    <3>2. \A k \in Calls : pending'[k] # "none" => pending[k] # "none"
      BY <2>1, <3>1 DEF submit_client_call, swept, Kept
    <3> QED BY <2>1, <3>2, KeepingLess DEF submit_client_call
  <2>2. CASE release_owner(o)
    BY <2>2, Removing DEF release_owner
  <2>3. CASE abort_pending_calls(o)
    BY <2>3, KeepingLess DEF abort_pending_calls
  <2> QED BY <1>1, <1>2, <2>1, <2>2, <2>3, AdmitKeepsAccounts
          DEF OwnerStep, Shutdown, connect_client, CloseReleased, disconnect_client
<1>3. ASSUME NEW c \in Calls, TaskStep(c) PROVE Accounted'
  BY <1>1, <1>3 DEF TaskStep, TaskCompletes, TaskPanics, TaskIsDropped, TaskFinishes, Ends
<1>4. ASSUME NEW c \in Calls, CallerStep(c) PROVE Accounted'
  <2>1. owner[c] \in Owners /\ {c} \in SUBSET Of(owner[c])
    BY Given DEF Of
  <2>2. CASE Retires(c) \/ release_call(c)
    BY <2>1, <2>2, Removing DEF Retires, release_call
  <2> QED BY <1>1, <1>4, <2>2 DEF CallerStep, Awaits, Releases, LooksUp, Reads, NotReady,
          DeadlinePasses, Interrupted, ReleaseCloses, ReleaseAborts, CallerUnchanged
<1> QED BY <1>1, <1>2, <1>3, <1>4 DEF CallsNext, callVars

\* The accounts are exact before the first call.
LEMMA InitAccounts == CallsInit => Accounted
<1> SUFFICES ASSUME CallsInit, NEW o \in Owners
             PROVE  /\ per_owner[o] = Cardinality(registered \cap Of(o))
                    /\ per_owner[o] <= in_flight_calls[o]
                    /\ Cardinality(Kept(o)) <= in_flight_calls[o]
  BY DEF Accounted
<1>1. registered \cap Of(o) = {} /\ Kept(o) = {} /\ per_owner[o] = 0
  BY DEF CallsInit, Kept, Of
<1> QED BY <1>1, FS_EmptySet, Given

\* The registry's count per graph is exact and within its ceiling, and so are
\* the handles that a graph keeps, however calls are submitted, read, released
\* and shut down, for every number of calls and graphs.
THEOREM CallsAreAccounted == CallsSpec => []Accounted
<1>1. CallsInit => CallsInv /\ Accounted
  BY InitCallsInv, InitAccounts
<1>2. CallsInv /\ Accounted /\ [CallsNext]_callVars => CallsInv' /\ Accounted'
  BY NextKeepsCallsInv, NextKeepsAccounts
<1> QED BY <1>1, <1>2, PTL DEF CallsSpec
=============================================================================
