------------------------ MODULE ClawciergeAgentProofs ------------------------
(***************************************************************************)
(* Proofs about ClawciergeAgent, for any number of attempts and of calls   *)
(* of disconnect.                                                          *)
(***************************************************************************)
EXTENDS ClawciergeAgent, TLAPS

\* A loop that is in a session has a socket, and so has a call that closes one.
HasSocket ==
    /\ loop \in {"receiving", "handling", "stopping"} => current \in Sessions
    /\ \A c \in Calls : call[c] = "closing" => target[c] \in Sessions

\* After a late session nothing but the end of the loop comes.
LateIsLast ==
    late # {} => ~running /\ loop \in {"receiving", "handling", "stopping", "ended"}

IndInv ==
    /\ TypeOK
    /\ HasSocket
    /\ OneHeartbeat
    /\ SurvivorWasLate
    /\ LateIsLast
    /\ OneLateSession

\* The initial state.
LEMMA InitInv == Init => IndInv
  <1> SUFFICES ASSUME Init PROVE IndInv
    OBVIOUS
  <1>1. TypeOK
    BY DEF Init, TypeOK, Delay
  <1>2. HasSocket /\ OneHeartbeat
    BY DEF Init, HasSocket, OneHeartbeat
  <1>3. SurvivorWasLate /\ LateIsLast /\ OneLateSession
    BY DEF Init, SurvivorWasLate, Survives, LateIsLast, OneLateSession
  <1> QED
    BY <1>1, <1>2, <1>3 DEF IndInv

\* A doubled delay that is capped is one of the delays.
LEMMA Doubled ==
    ASSUME NEW d \in Delay
    PROVE  (IF d * 2 <= 30 THEN d * 2 ELSE 30) \in Delay
  BY DEF Delay

\* Every step keeps the types: in particular the delay stays within bounds.
LEMMA TypeStep == TypeOK /\ HasSocket /\ [Next]_vars => TypeOK'
  <1> SUFFICES ASSUME TypeOK, HasSocket, [Next]_vars PROVE TypeOK'
    OBVIOUS
  <1> USE DEF TypeOK
  <1>1. CASE Connect
    BY <1>1 DEF Connect
  <1>2. ASSUME NEW s \in Sessions, Accepted(s) PROVE TypeOK'
    <2>1. late' \in SUBSET Sessions
      BY <1>2 DEF Accepted
    <2> QED
      BY <1>2, <2>1 DEF Accepted, Delay
  <1>3. CASE Refused
    BY <1>3 DEF Refused, Retry
  <1>4. CASE Wake
    BY <1>4, Doubled DEF Wake
  <1>5. CASE Handled
    BY <1>5 DEF Handled
  <1>6. CASE EndSession
    BY <1>6 DEF EndSession
  <1>7. CASE Stopped
    BY <1>7 DEF Stopped, Retry
  <1>8. CASE Receive
    BY <1>8 DEF Receive
  <1>9. ASSUME NEW s \in Sessions, BeatEnds(s) PROVE TypeOK'
    BY <1>9 DEF BeatEnds
  <1>10. ASSUME NEW c \in Calls, Disconnect(c) PROVE TypeOK'
    BY <1>10 DEF Disconnect
  <1>11. ASSUME NEW c \in Calls, Closed(c) PROVE TypeOK'
    BY <1>11 DEF Closed
  <1>12. ASSUME NEW s \in Sessions, PeerCloses(s) PROVE TypeOK'
    BY <1>12 DEF PeerCloses
  <1>13. CASE UNCHANGED vars
    BY <1>13 DEF vars
  <1> QED
    BY <1>1, <1>2, <1>3, <1>4, <1>5, <1>6, <1>7, <1>8, <1>9, <1>10, <1>11, <1>12, <1>13
       DEF Next, LoopStep, BeatStep

\* Every step keeps the rest of the invariant.
LEMMA SessionStep ==
    IndInv /\ [Next]_vars =>
      HasSocket' /\ OneHeartbeat' /\ SurvivorWasLate' /\ LateIsLast' /\ OneLateSession'
  <1> DEFINE Rest == HasSocket /\ OneHeartbeat /\ SurvivorWasLate /\ LateIsLast /\ OneLateSession
  <1> SUFFICES ASSUME IndInv, [Next]_vars PROVE Rest'
    OBVIOUS
  <1> USE NoSessionAssumption DEF IndInv, TypeOK, HasSocket, OneHeartbeat, SurvivorWasLate,
          Survives, LateIsLast, OneLateSession
  <1>1. CASE Connect
    BY <1>1 DEF Connect
  <1>2. ASSUME NEW s \in Sessions, Accepted(s) PROVE Rest'
    <2>1. late = {}
      BY <1>2 DEF Accepted
    <2> QED
      BY <1>2, <2>1 DEF Accepted
  <1>3. CASE Refused
    BY <1>3 DEF Refused, Retry
  <1>4. CASE Wake
    BY <1>4 DEF Wake
  <1>5. CASE Handled
    BY <1>5 DEF Handled
  <1>6. CASE EndSession
    BY <1>6 DEF EndSession
  <1>7. CASE Stopped
    BY <1>7 DEF Stopped, Retry
  <1>8. CASE Receive
    BY <1>8 DEF Receive
  <1>9. ASSUME NEW s \in Sessions, BeatEnds(s) PROVE Rest'
    BY <1>9 DEF BeatEnds
  <1>10. ASSUME NEW c \in Calls, Disconnect(c) PROVE Rest'
    BY <1>10 DEF Disconnect
  <1>11. ASSUME NEW c \in Calls, Closed(c) PROVE Rest'
    BY <1>11 DEF Closed
  <1>12. ASSUME NEW s \in Sessions, PeerCloses(s) PROVE Rest'
    BY <1>12 DEF PeerCloses
  <1>13. CASE UNCHANGED vars
    BY <1>13 DEF vars
  <1> QED
    BY <1>1, <1>2, <1>3, <1>4, <1>5, <1>6, <1>7, <1>8, <1>9, <1>10, <1>11, <1>12, <1>13
       DEF Next, LoopStep, BeatStep

\* The inductive invariant holds.
LEMMA Inductive == Spec => []IndInv
  <1>1. IndInv /\ [Next]_vars => IndInv'
    BY TypeStep, SessionStep DEF IndInv
  <1> QED
    BY InitInv, <1>1, PTL DEF Spec

\* Every variable keeps its type, and the delay its bounds.
THEOREM TypeCorrect == Spec => []TypeOK
  <1>1. IndInv => TypeOK
    BY DEF IndInv
  <1> QED
    BY Inductive, <1>1, PTL

\* A heartbeat task never outlives its session.
THEOREM HeartbeatsEnd == Spec => []OneHeartbeat
  <1>1. IndInv => OneHeartbeat
    BY DEF IndInv
  <1> QED
    BY Inductive, <1>1, PTL

\* A session that goes on after disconnect was opened after it.
THEOREM SurvivorsAreLate == Spec => []SurvivorWasLate
  <1>1. IndInv => SurvivorWasLate
    BY DEF IndInv
  <1> QED
    BY Inductive, <1>1, PTL

\* At most one session is opened after disconnect.
THEOREM AtMostOneLateSession == Spec => []OneLateSession
  <1>1. IndInv => OneLateSession
    BY DEF IndInv
  <1> QED
    BY Inductive, <1>1, PTL

-----------------------------------------------------------------------------
(* The heartbeat that a session waits for.                                 *)

\* A session that goes on has started its heartbeat, and one that ends waits only
\* for a task that has ended, or was told to end while it was alive: connect never
\* sits in `await self._heartbeat_task` for a task that goes on.  It is the
\* safety half of DisconnectEndsLoop and of ComesBack.
AwaitsEndingTask ==
    /\ loop \in {"receiving", "handling"} => beat[current] \in {"alive", "ended"}
    /\ loop = "stopping" => beat[current] \in {"cancelled", "ended"}

LEMMA AwaitStep == IndInv /\ AwaitsEndingTask /\ [Next]_vars => AwaitsEndingTask'
  <1> SUFFICES ASSUME IndInv, AwaitsEndingTask, [Next]_vars PROVE AwaitsEndingTask'
    OBVIOUS
  <1> USE DEF IndInv, TypeOK, HasSocket, OneHeartbeat, AwaitsEndingTask
  <1>1. CASE Connect
    BY <1>1 DEF Connect
  <1>2. ASSUME NEW s \in Sessions, Accepted(s) PROVE AwaitsEndingTask'
    BY <1>2 DEF Accepted
  <1>3. CASE Refused \/ Stopped
    BY <1>3 DEF Refused, Stopped, Retry
  <1>4. CASE Wake \/ Handled \/ Receive
    BY <1>4 DEF Wake, Handled, Receive
  <1>5. CASE EndSession
    BY <1>5 DEF EndSession
  <1>6. ASSUME NEW s \in Sessions, BeatEnds(s) PROVE AwaitsEndingTask'
    BY <1>6 DEF BeatEnds
  <1>7. ASSUME NEW c \in Calls, Disconnect(c) \/ Closed(c) PROVE AwaitsEndingTask'
    BY <1>7 DEF Disconnect, Closed
  <1>8. ASSUME NEW s \in Sessions, PeerCloses(s) PROVE AwaitsEndingTask'
    BY <1>8 DEF PeerCloses
  <1>9. CASE UNCHANGED vars
    BY <1>9 DEF vars
  <1> QED
    BY <1>1, <1>2, <1>3, <1>4, <1>5, <1>6, <1>7, <1>8, <1>9 DEF Next, LoopStep, BeatStep

\* The end of a session waits for a heartbeat task that ends by itself.
THEOREM HeartbeatIsAwaited == Spec => []AwaitsEndingTask
  <1>1. Init => AwaitsEndingTask
    BY DEF Init, AwaitsEndingTask
  <1>2. IndInv /\ AwaitsEndingTask /\ [Next]_vars => AwaitsEndingTask'
    BY AwaitStep
  <1> QED
    BY Inductive, <1>1, <1>2, PTL DEF Spec
=============================================================================
