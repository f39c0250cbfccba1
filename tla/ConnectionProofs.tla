-------------------------- MODULE ConnectionProofs --------------------------
(***************************************************************************)
(* The calls of a connection are those of ClientCalls: what is proved of   *)
(* them holds beside the heartbeat throttle and the asynchronous requests. *)
(***************************************************************************)
EXTENDS ClientConnection, OneShotProofs

\* The initial states of a connection are initial states of its calls.
LEMMA InitIsCallsInit == Init => CallsInit
BY DEF Init

\* What the owner of a connection does to the calls.
LEMMA OwnerActsOnCalls ==
    ASSUME NEW o \in Owners, OwnerActs(o) PROVE OwnerStep(o) \/ UNCHANGED callVars
<1>1. CASE Connects(o)
  BY <1>1 DEF Connects, OwnerStep
<1>2. CASE \E r \in Requests : Spawn(r)
  BY <1>2 DEF Spawn
<1>3. CASE AbortsCalls(o)
  BY <1>3 DEF AbortsCalls, OwnerStep, Shutdown
<1>4. CASE abort_heartbeat_drivers
  BY <1>4 DEF abort_heartbeat_drivers
<1>5. CASE Disconnects(o)
  BY <1>5 DEF Disconnects, OwnerStep, Shutdown
<1>6. CASE \/ \E c \in Of(o) : submit_client_call(c)
           \/ \E c \in Calls : Admit(o, c) \/ CloseReleased(o, c)
           \/ release_owner(o)
  BY <1>6 DEF OwnerStep, Shutdown
<1> QED BY <1>1, <1>2, <1>3, <1>4, <1>5, <1>6 DEF OwnerActs

\* Every step of a connection is a step of the calls, or leaves them alone.
LEMMA NextActsOnCalls == [Next]_vars => [CallsNext]_callVars
<1> SUFFICES ASSUME [Next]_vars PROVE [CallsNext]_callVars
  OBVIOUS
<1>1. CASE UNCHANGED vars
  BY <1>1 DEF vars
<1>2. ASSUME NEW o \in Owners, OwnerActs(o) PROVE [CallsNext]_callVars
  BY <1>2, OwnerActsOnCalls DEF CallsNext
<1>3. ASSUME NEW c \in Calls, CallTask(c) \/ Caller(c) PROVE [CallsNext]_callVars
  BY <1>3 DEF CallTask, Caller, CallsNext
<1>4. ASSUME NEW r \in Requests, AsyncStep(r) \/ Released(r) PROVE UNCHANGED callVars
  BY <1>4 DEF AsyncStep, HeartbeatTask, HeartbeatIsSent, Evicts, AbortsDriver, Flushed,
              Responded, Dropped, Released
<1>5. ASSUME NEW d \in Drivers, Driver(d) PROVE UNCHANGED callVars
  BY <1>5 DEF Driver
<1> QED BY <1>1, <1>2, <1>3, <1>4, <1>5 DEF Next

\* So a connection is a behaviour of the calls.
LEMMA ConnectionCalls == Spec => CallsSpec
<1>1. Init => CallsInit
  BY InitIsCallsInit
<1>2. [Next]_vars => [CallsNext]_callVars
  BY NextActsOnCalls
<1> QED BY <1>1, <1>2, PTL DEF Spec, CallsSpec

\* On every connection the count of submit_client_call is the number of the
\* registered calls, and neither they nor the kept task handles exceed the
\* ceiling of the graph, for every number of graphs and calls and all limits.
THEOREM ConnectionIsAccounted == Spec => []Accounted
BY ConnectionCalls, CallsAreAccounted, PTL

\* On every connection each caller of client_calls.rs sees one answer, from its
\* own task, and a closed call only after a shutdown.
THEOREM ConnectionIsOneShot == Spec => Cells!Init /\ [][Cells!Next]_(Cells!vars)
BY ConnectionCalls, CellsAreOneShot, PTL
=============================================================================
