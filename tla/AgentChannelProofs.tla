------------------------- MODULE AgentChannelProofs -------------------------
(***************************************************************************)
(* Proofs about AgentChannel, for any number of agents, sockets and        *)
(* senders, with or without faults.                                        *)
(*                                                                         *)
(* Each section below shows that one conjunct of IndInv is preserved by    *)
(* every step, from the conjuncts it depends on; the last one concludes.   *)
(***************************************************************************)
EXTENDS AgentChannel, TLAPS

-----------------------------------------------------------------------------
(* Type correctness.                                                       *)

\* The owner of the lock is a task, and releasing leaves a queue of tasks.
LEMMA ReleaseType ==
    ASSUME lockQueue \in Seq(Tasks), NEW t, Holds(t), Release
    PROVE  lockQueue' \in Seq(Tasks)
  BY DEF Holds, Release

\* An UPDATE of agents.status leaves every status one of the three.
LEMMA SetStatusType ==
    ASSUME status \in [Agents -> AgentStatus], NEW a, NEW v \in AgentStatus,
           SetStatus(a, v)
    PROVE  status' \in [Agents -> AgentStatus]
  BY DEF SetStatus

LEMMA TypeStep == TypeOK /\ [Next]_vars => TypeOK'
  <1> SUFFICES ASSUME TypeOK, [Next]_vars PROVE TypeOK'
    OBVIOUS
  <1> USE AgentOfAssumption DEF TypeOK
  <1>1. ASSUME NEW s \in Sockets, Connect(s) PROVE TypeOK'
    BY <1>1 DEF Connect, Goto, Join, HandlerState, Tasks, WireState
  <1>2. ASSUME NEW s \in Sockets, Refuse(s) PROVE TypeOK'
    BY <1>2 DEF Refuse, Goto, Close, HandlerState, WireState
  <1>3. ASSUME NEW s \in Sockets, RegisterFresh(s) PROVE TypeOK'
    <2>1. lockQueue' \in Seq(Tasks)
      BY <1>3, ReleaseType DEF RegisterFresh
    <2> QED
      BY <1>3, <2>1 DEF RegisterFresh, Enter, Goto, HandlerState
  <1>4. ASSUME NEW s \in Sockets, RegisterReplace(s) PROVE TypeOK'
    BY <1>4 DEF RegisterReplace, Goto, Close, HandlerState, WireState
  <1>5. ASSUME NEW s \in Sockets, FinishRegister(s) PROVE TypeOK'
    <2>1. lockQueue' \in Seq(Tasks)
      BY <1>5, ReleaseType DEF FinishRegister
    <2> QED
      BY <1>5, <2>1 DEF FinishRegister, Enter, Goto, HandlerState
  <1>6. ASSUME NEW s \in Sockets, Activate(s) PROVE TypeOK'
    <2>1. status' \in [Agents -> AgentStatus]
      <3>1. "active" \in AgentStatus
        BY DEF AgentStatus
      <3> QED
        BY <1>6, <3>1, SetStatusType DEF Activate
    <2> QED
      BY <1>6, <2>1 DEF Activate, Goto, HandlerState
  <1>7. ASSUME NEW s \in Sockets, ActivateFails(s) PROVE TypeOK'
    BY <1>7 DEF ActivateFails, Goto, Close, HandlerState, WireState
  <1>8. ASSUME NEW s \in Sockets, Disconnect(s) PROVE TypeOK'
    BY <1>8 DEF Disconnect, Goto, Join, HandlerState, Tasks
  <1>9. ASSUME NEW s \in Sockets, LoopError(s) PROVE TypeOK'
    BY <1>9 DEF LoopError, Goto, Join, HandlerState, Tasks
  <1>10. ASSUME NEW s \in Sockets, RemoveSelf(s) PROVE TypeOK'
    <2>1. lockQueue' \in Seq(Tasks)
      BY <1>10, ReleaseType DEF RemoveSelf
    <2> QED
      BY <1>10, <2>1 DEF RemoveSelf, Goto, Pop, Enter, HandlerState
  <1>11. ASSUME NEW s \in Sockets, Deactivate(s) PROVE TypeOK'
    <2>1. status' \in [Agents -> AgentStatus]
      <3>1. "inactive" \in AgentStatus
        BY DEF AgentStatus
      <3> QED
        BY <1>11, <3>1, SetStatusType DEF Deactivate
    <2> QED
      BY <1>11, <2>1 DEF Deactivate, Goto, HandlerState
  <1>12. ASSUME NEW s \in Sockets, DeactivateFails(s) PROVE TypeOK'
    BY <1>12 DEF DeactivateFails, Goto, HandlerState
  <1>13. ASSUME NEW s \in Sockets, PeerLeaves(s) PROVE TypeOK'
    BY <1>13 DEF PeerLeaves, WireState
  <1>14. ASSUME NEW x \in Senders, StartSend(x) PROVE TypeOK'
    BY <1>14 DEF StartSend, SenderState
  <1>15. ASSUME NEW x \in Senders, SendOk(x) PROVE TypeOK'
    BY <1>15 DEF SendOk, SenderState
  <1>16. ASSUME NEW x \in Senders, SendFails(x) PROVE TypeOK'
    BY <1>16 DEF SendFails, Join, Tasks, SenderState
  <1>17. ASSUME NEW x \in Senders, Purge(x) PROVE TypeOK'
    <2>1. lockQueue' \in Seq(Tasks)
      BY <1>17, ReleaseType DEF Purge
    <2> QED
      BY <1>17, <2>1 DEF Purge, Pop, Enter, SenderState
  <1>18. ASSUME NEW a \in Agents, DeleteConnected(a) PROVE TypeOK'
    BY <1>18 DEF DeleteConnected, Close, WireState, AdminState
  <1>19. ASSUME NEW a \in Agents, DeleteOffline(a) PROVE TypeOK'
    BY <1>19 DEF DeleteOffline, AdminState
  <1>20. ASSUME NEW a \in Agents, DeleteClosed(a) PROVE TypeOK'
    BY <1>20 DEF DeleteClosed, Join, Tasks, AdminState
  <1>21. ASSUME NEW a \in Agents, AdminRemove(a) PROVE TypeOK'
    <2>1. lockQueue' \in Seq(Tasks)
      BY <1>21, ReleaseType DEF AdminRemove
    <2> QED
      BY <1>21, <2>1 DEF AdminRemove, Pop, Enter, AdminState
  <1>22. ASSUME NEW a \in Agents, CommitDelete(a) PROVE TypeOK'
    BY <1>22 DEF CommitDelete, AdminState, AgentStatus
  <1>23. ASSUME NEW a \in Agents, DeleteFails(a) PROVE TypeOK'
    BY <1>23 DEF DeleteFails, AdminState
  <1>24. ASSUME NEW s \in Sockets, Heartbeat(s) PROVE TypeOK'
    BY <1>24 DEF Heartbeat
  <1>25. ASSUME Restart PROVE TypeOK'
    BY <1>25 DEF Restart, HandlerState, WireState, SenderState, AdminState
  <1>26. CASE UNCHANGED vars
    BY <1>26 DEF vars
  <1>27. QED
    BY <1>1, <1>2, <1>3, <1>4, <1>5, <1>6, <1>7, <1>8, <1>9, <1>10, <1>11, <1>12, <1>13,
       <1>14, <1>15, <1>16, <1>17, <1>18, <1>19, <1>20, <1>21, <1>22, <1>23, <1>24, <1>25,
       <1>26
    DEF Next, HandlerStep, Request, SenderStep, AdminStep

-----------------------------------------------------------------------------
(* The lock.                                                               *)

\* Joining the queue adds a task that was not in it, at the end.
LEMMA JoinQueued ==
    ASSUME lockQueue \in Seq(Tasks), QueuedOnce,
           NEW t \in Tasks, t \notin Queued, Join(t)
    PROVE  Queued' = Queued \cup {t} /\ QueuedOnce'
  <1>1. /\ Len(lockQueue') = Len(lockQueue) + 1
        /\ Len(lockQueue) \in Nat
        /\ lockQueue'[Len(lockQueue) + 1] = t
        /\ \A i \in 1 .. Len(lockQueue) : lockQueue'[i] = lockQueue[i]
    BY DEF Join
  <1>2. 1 .. Len(lockQueue') = (1 .. Len(lockQueue)) \cup {Len(lockQueue) + 1}
    BY <1>1
  <1>3. Queued' = Queued \cup {t}
    BY <1>1, <1>2 DEF Queued
  <1>4. QueuedOnce'
    BY <1>1, <1>2 DEF Queued, QueuedOnce
  <1> QED
    BY <1>3, <1>4

\* Releasing the lock takes its owner, and nobody else, out of the queue.
LEMMA ReleaseQueued ==
    ASSUME lockQueue \in Seq(Tasks), QueuedOnce, NEW t, Holds(t), Release
    PROVE  Queued' = Queued \ {t} /\ QueuedOnce'
  <1>1. /\ lockQueue[1] = t
        /\ Len(lockQueue) \in Nat \ {0}
        /\ Len(lockQueue') = Len(lockQueue) - 1
        /\ \A i \in 1 .. Len(lockQueue) - 1 : lockQueue'[i] = lockQueue[i + 1]
    BY DEF Holds, Release
  <1>2. QueuedOnce'
    BY <1>1 DEF QueuedOnce
  <1>3. ASSUME NEW q \in Queued, q # t PROVE q \in Queued'
    <2>1. PICK i \in 1 .. Len(lockQueue) : q = lockQueue[i]
      BY DEF Queued
    <2>2. i # 1 /\ i - 1 \in 1 .. Len(lockQueue') /\ lockQueue'[i - 1] = q
      BY <1>1, <1>3, <2>1
    <2> QED
      BY <2>2 DEF Queued
  <1>4. ASSUME NEW q \in Queued' PROVE q \in Queued /\ q # t
    <2>1. PICK i \in 1 .. Len(lockQueue') : q = lockQueue'[i]
      BY <1>4 DEF Queued
    <2>2. i + 1 \in 1 .. Len(lockQueue) /\ lockQueue[i + 1] = q /\ i + 1 # 1
      BY <1>1, <2>1
    <2>3. q # lockQueue[1]
      BY <1>1, <2>2 DEF QueuedOnce
    <2> QED
      BY <1>1, <2>2, <2>3 DEF Queued
  <1> QED
    BY <1>2, <1>3, <1>4

\* Every step that makes a task a locking one puts it in the queue, and only
\* the owner stops being one.
LEMMA LockStep ==
    TypeOK /\ Queued = Locking /\ QueuedOnce /\ [Next]_vars
      => Queued' = Locking' /\ QueuedOnce'
  <1> SUFFICES ASSUME TypeOK, Queued = Locking, QueuedOnce, [Next]_vars
               PROVE  Queued' = Locking' /\ QueuedOnce'
    OBVIOUS
  <1> USE TasksDisjoint DEF TypeOK
  \* The three things a step may do to the lock.
  <1>1. ASSUME NEW t \in Tasks, t \notin Locking, Join(t), Locking' = Locking \cup {t}
        PROVE  Queued' = Locking' /\ QueuedOnce'
    BY <1>1, JoinQueued
  <1>2. ASSUME NEW t \in Tasks, Holds(t), Release, Locking' = Locking \ {t}
        PROVE  Queued' = Locking' /\ QueuedOnce'
    BY <1>2, ReleaseQueued
  <1>3. CASE UNCHANGED lockQueue /\ Locking' = Locking
    BY <1>3 DEF Queued, QueuedOnce
  <1>4. ASSUME NEW s \in Sockets, Connect(s) \/ Disconnect(s) \/ LoopError(s)
        PROVE  Queued' = Locking' /\ QueuedOnce'
    <2>1. s \notin Locking /\ Locking' = Locking \cup {s}
      BY <1>4 DEF Connect, Disconnect, LoopError, Locking, Goto
    <2> QED
      BY <1>1, <1>4, <2>1 DEF Connect, Disconnect, LoopError, Tasks
  <1>5. ASSUME NEW s \in Sockets,
               RegisterFresh(s) \/ FinishRegister(s) \/ RemoveSelf(s)
        PROVE  Queued' = Locking' /\ QueuedOnce'
    <2>1. Locking' = Locking \ {s}
      BY <1>5 DEF RegisterFresh, FinishRegister, RemoveSelf, Locking, Goto
    <2> QED
      BY <1>2, <1>5, <2>1 DEF RegisterFresh, FinishRegister, RemoveSelf, Tasks
  <1>6. ASSUME NEW s \in Sockets,
               Refuse(s) \/ RegisterReplace(s) \/ Activate(s) \/ ActivateFails(s)
                 \/ Deactivate(s) \/ DeactivateFails(s) \/ Heartbeat(s)
                 \/ PeerLeaves(s)
        PROVE  Queued' = Locking' /\ QueuedOnce'
    <2>1. UNCHANGED lockQueue /\ Locking' = Locking
      BY <1>6 DEF Refuse, RegisterReplace, Activate, ActivateFails, Deactivate,
                  DeactivateFails, Heartbeat, PeerLeaves, Locking, Goto
    <2> QED
      BY <1>3, <2>1
  <1>7. ASSUME NEW x \in Senders, SendFails(x)
        PROVE  Queued' = Locking' /\ QueuedOnce'
    <2>1. x \notin Locking /\ Locking' = Locking \cup {x}
      BY <1>7 DEF SendFails, Locking
    <2> QED
      BY <1>1, <1>7, <2>1 DEF SendFails, Tasks
  <1>8. ASSUME NEW x \in Senders, Purge(x)
        PROVE  Queued' = Locking' /\ QueuedOnce'
    <2>1. Locking' = Locking \ {x}
      BY <1>8 DEF Purge, Locking
    <2> QED
      BY <1>2, <1>8, <2>1 DEF Purge, Tasks
  <1>9. ASSUME NEW x \in Senders, StartSend(x) \/ SendOk(x)
        PROVE  Queued' = Locking' /\ QueuedOnce'
    <2>1. UNCHANGED lockQueue /\ Locking' = Locking
      BY <1>9 DEF StartSend, SendOk, Locking
    <2> QED
      BY <1>3, <2>1
  <1>10. ASSUME NEW a \in Agents, DeleteClosed(a)
         PROVE  Queued' = Locking' /\ QueuedOnce'
    <2>1. a \notin Locking /\ Locking' = Locking \cup {a}
      BY <1>10 DEF DeleteClosed, Locking
    <2> QED
      BY <1>1, <1>10, <2>1 DEF DeleteClosed, Tasks
  <1>11. ASSUME NEW a \in Agents, AdminRemove(a)
         PROVE  Queued' = Locking' /\ QueuedOnce'
    <2>1. Locking' = Locking \ {a}
      BY <1>11 DEF AdminRemove, Locking
    <2> QED
      BY <1>2, <1>11, <2>1 DEF AdminRemove, Tasks
  <1>12. ASSUME NEW a \in Agents,
                DeleteConnected(a) \/ DeleteOffline(a) \/ CommitDelete(a)
                  \/ DeleteFails(a)
         PROVE  Queued' = Locking' /\ QueuedOnce'
    <2>1. UNCHANGED lockQueue /\ Locking' = Locking
      BY <1>12 DEF DeleteConnected, DeleteOffline, CommitDelete, DeleteFails,
                   Locking
    <2> QED
      BY <1>3, <2>1
  <1>13. CASE Restart
    <2>1. Locking' = {}
      BY <1>13 DEF Restart, Locking, Ended
    <2> QED
      BY <1>13, <2>1 DEF Restart, Queued, QueuedOnce
  <1>14. CASE UNCHANGED vars
    BY <1>3, <1>14 DEF vars, Locking
  <1>15. QED
    BY <1>4, <1>5, <1>6, <1>7, <1>8, <1>9, <1>10, <1>11, <1>12, <1>13, <1>14
    DEF Next, HandlerStep, Request, SenderStep, AdminStep

-----------------------------------------------------------------------------
(* Every entry of _connections has a handler that will remove it.          *)

\* Only the two ends of register write an entry, for a socket of the agent; its
\* handler leaves the four states only in RemoveSelf, which removes the entry.
LEMMA EntryStep ==
    TypeOK /\ EntryHasHandler /\ [Next]_vars => EntryHasHandler'
  <1> SUFFICES ASSUME TypeOK, EntryHasHandler, [Next]_vars
               PROVE  EntryHasHandler'
    OBVIOUS
  <1> USE AgentOfAssumption, NoSocketAssumption DEF TypeOK, EntryHasHandler, Goto, Pop, Enter
  <1>1. ASSUME NEW s \in Sockets,
               Connect(s) \/ Refuse(s) \/ RegisterReplace(s) \/ Activate(s)
                 \/ ActivateFails(s) \/ Disconnect(s) \/ LoopError(s)
        PROVE  EntryHasHandler'
    BY <1>1 DEF Connect, Refuse, RegisterReplace, Activate, ActivateFails,
                Disconnect, LoopError
  <1>2. ASSUME NEW s \in Sockets, RegisterFresh(s) \/ FinishRegister(s)
        PROVE  EntryHasHandler'
    BY <1>2 DEF RegisterFresh, FinishRegister
  <1>3. ASSUME NEW s \in Sockets, RemoveSelf(s) PROVE EntryHasHandler'
    BY <1>3 DEF RemoveSelf
  <1>4. ASSUME NEW s \in Sockets, Deactivate(s) \/ DeactivateFails(s)
        PROVE  EntryHasHandler'
    BY <1>4 DEF Deactivate, DeactivateFails
  <1>5. ASSUME NEW x \in Senders, Purge(x) PROVE EntryHasHandler'
    BY <1>5 DEF Purge
  <1>6. ASSUME NEW a \in Agents, AdminRemove(a) PROVE EntryHasHandler'
    BY <1>6 DEF AdminRemove
  <1>7. CASE Restart
    BY <1>7 DEF Restart
  <1>8. CASE UNCHANGED <<connections, handler>>
    BY <1>8
  <1>9. QED
    BY <1>1, <1>2, <1>3, <1>4, <1>5, <1>6, <1>7, <1>8
    DEF Next, HandlerStep, Request, SenderStep, AdminStep, Heartbeat, PeerLeaves,
        StartSend, SendOk, SendFails, DeleteConnected, DeleteOffline,
        DeleteClosed, CommitDelete, DeleteFails, vars

-----------------------------------------------------------------------------
(* Every status 'active' has a handler that answers for it.                *)

\* The handler that wrote 'active' is itself the witness, until it writes
\* 'inactive'.
LEMMA StatusStep ==
    TypeOK /\ StatusHasHandler /\ [Next]_vars => StatusHasHandler'
  <1> SUFFICES ASSUME TypeOK, StatusHasHandler, [Next]_vars
               PROVE  StatusHasHandler'
    OBVIOUS
  <1> USE AgentOfAssumption DEF TypeOK, StatusHasHandler, Goto, SetStatus
  <1>1. ASSUME NEW s \in Sockets,
               Connect(s) \/ Refuse(s) \/ RegisterFresh(s) \/ RegisterReplace(s)
                 \/ FinishRegister(s) \/ ActivateFails(s) \/ Disconnect(s)
                 \/ LoopError(s) \/ RemoveSelf(s) \/ DeactivateFails(s)
        PROVE  StatusHasHandler'
    BY <1>1 DEF Connect, Refuse, RegisterFresh, RegisterReplace, FinishRegister,
                ActivateFails, Disconnect, LoopError, RemoveSelf, DeactivateFails
  <1>2. ASSUME NEW s \in Sockets, Activate(s) PROVE StatusHasHandler'
    BY <1>2 DEF Activate
  <1>3. ASSUME NEW s \in Sockets, Deactivate(s) PROVE StatusHasHandler'
    BY <1>3 DEF Deactivate
  <1>4. ASSUME NEW a \in Agents, CommitDelete(a) PROVE StatusHasHandler'
    BY <1>4 DEF CommitDelete
  <1>5. CASE Restart
    BY <1>5 DEF Restart, Ended
  <1>6. CASE UNCHANGED <<handler, status>>
    BY <1>6
  <1>7. QED
    BY <1>1, <1>2, <1>3, <1>4, <1>5, <1>6
    DEF Next, HandlerStep, Request, SenderStep, AdminStep, Heartbeat, PeerLeaves,
        StartSend, SendOk, SendFails, Purge, DeleteConnected, DeleteOffline,
        DeleteClosed, AdminRemove, DeleteFails, vars

-----------------------------------------------------------------------------
(* A registered socket is replaced only when it is closed.                 *)

\* A task that joins the queue never takes the lock from its owner.
LEMMA JoinKeepsOwner ==
    ASSUME lockQueue \in Seq(Tasks), NEW t \in Tasks, NEW o, Holds(o), Join(t)
    PROVE  Holds(o)'
  BY DEF Holds, Join

\* A task inside register is the owner of the lock, so no other one writes the
\* entry; and no step reopens a socket.
LEMMA ReplacingStep ==
    TypeOK /\ EntryHasHandler /\ ReplacingClosed /\ [Next]_vars
      => ReplacingClosed'
  <1> SUFFICES ASSUME TypeOK, EntryHasHandler, ReplacingClosed, [Next]_vars
               PROVE  ReplacingClosed'
    OBVIOUS
  <1> USE AgentOfAssumption, NoSocketAssumption, TasksDisjoint
      DEF TypeOK, ReplacingClosed, Holds, Tasks, Goto, Enter
  <1>1. ASSUME NEW s \in Sockets, RegisterReplace(s) PROVE ReplacingClosed'
    BY <1>1 DEF RegisterReplace, Close
  <1>2. ASSUME NEW s \in Sockets,
               RegisterFresh(s) \/ FinishRegister(s) \/ RemoveSelf(s)
        PROVE  ReplacingClosed'
    <2>1. \A o \in Sockets : o # s => handler[o] # "closing"
      BY <1>2 DEF RegisterFresh, FinishRegister, RemoveSelf
    <2> QED
      BY <1>2, <2>1 DEF RegisterFresh, FinishRegister, RemoveSelf
  <1>3. ASSUME NEW x \in Senders, Purge(x) PROVE ReplacingClosed'
    BY <1>3 DEF Purge
  <1>4. ASSUME NEW a \in Agents, AdminRemove(a) PROVE ReplacingClosed'
    BY <1>4 DEF AdminRemove
  <1>5. ASSUME NEW s \in Sockets, Connect(s) \/ Disconnect(s) \/ LoopError(s)
        PROVE  ReplacingClosed'
    <2>1. \A o \in Sockets :
            handler'[o] = "closing" => handler[o] = "closing" /\ o # s
      BY <1>5 DEF Connect, Disconnect, LoopError
    <2>2. Join(s)
      BY <1>5 DEF Connect, Disconnect, LoopError
    <2>3. ASSUME NEW o \in Sockets, Holds(o) PROVE Holds(o)'
      <3> HIDE DEF Holds
      <3> QED
        BY <2>2, <2>3, JoinKeepsOwner
    <2>4. /\ UNCHANGED connections
          /\ \A e \in Sockets : wire[e] = "closed" /\ handler[e] # "idle"
                                  => wire'[e] = "closed"
      BY <1>5 DEF Connect, Disconnect, LoopError
    <2>5. \A a \in Agents : connections[a] # NoSocket => handler[connections[a]] # "idle"
      BY DEF EntryHasHandler
    <2> QED
      BY <2>1, <2>3, <2>4, <2>5
  <1>6. ASSUME NEW s \in Sockets,
               Refuse(s) \/ Activate(s) \/ ActivateFails(s) \/ Deactivate(s)
                 \/ DeactivateFails(s) \/ PeerLeaves(s)
        PROVE  ReplacingClosed'
    BY <1>6 DEF Refuse, Activate, ActivateFails, Deactivate, DeactivateFails,
                PeerLeaves, Close
  <1>7. ASSUME NEW x \in Senders, SendFails(x) PROVE ReplacingClosed'
    BY <1>7 DEF SendFails, Join
  <1>8. ASSUME NEW a \in Agents, DeleteClosed(a) PROVE ReplacingClosed'
    BY <1>8 DEF DeleteClosed, Join
  <1>9. ASSUME NEW a \in Agents, DeleteConnected(a) PROVE ReplacingClosed'
    BY <1>9 DEF DeleteConnected, Close
  <1>10. CASE Restart
    BY <1>10 DEF Restart, Ended
  <1>11. CASE UNCHANGED <<connections, lockQueue, wire, handler>>
    BY <1>11
  <1>12. QED
    BY <1>1, <1>2, <1>3, <1>4, <1>5, <1>6, <1>7, <1>8, <1>9, <1>10, <1>11
    DEF Next, HandlerStep, Request, SenderStep, AdminStep, StartSend, SendOk,
        DeleteOffline, CommitDelete, DeleteFails, Heartbeat, vars

\* What the theorem says of one step: only the two ends of register write an
\* entry, one when there is none, the other when ReplacingClosed holds.
LEMMA ReplaceStep ==
    ASSUME TypeOK, ReplacingClosed, [Next]_vars, NEW a \in Agents,
           connections[a] # NoSocket,
           connections'[a] \notin {NoSocket, connections[a]}
    PROVE  wire[connections[a]] = "closed"
  <1> USE AgentOfAssumption DEF TypeOK
  <1>1. ASSUME NEW s \in Sockets, RegisterFresh(s)
        PROVE  wire[connections[a]] = "closed"
    BY <1>1 DEF RegisterFresh, Enter
  <1>2. ASSUME NEW s \in Sockets, FinishRegister(s)
        PROVE  wire[connections[a]] = "closed"
    BY <1>2 DEF FinishRegister, Enter, ReplacingClosed
  <1>3. ASSUME NEW s \in Sockets, RemoveSelf(s)
        PROVE  wire[connections[a]] = "closed"
    BY <1>3 DEF RemoveSelf, Pop, Enter
  <1>4. ASSUME NEW x \in Senders, Purge(x)
        PROVE  wire[connections[a]] = "closed"
    BY <1>4 DEF Purge, Pop, Enter
  <1>5. ASSUME NEW b \in Agents, AdminRemove(b)
        PROVE  wire[connections[a]] = "closed"
    BY <1>5 DEF AdminRemove, Pop, Enter
  <1>6. CASE Restart
    BY <1>6 DEF Restart
  <1>7. ~UNCHANGED connections
    OBVIOUS
  <1>8. QED
    BY <1>1, <1>2, <1>3, <1>4, <1>5, <1>6, <1>7
    DEF Next, HandlerStep, Request, SenderStep, AdminStep, vars,
        Connect, Refuse, RegisterReplace, Activate, ActivateFails, Disconnect,
        LoopError, Deactivate, DeactivateFails, Heartbeat, PeerLeaves, StartSend,
        SendOk, SendFails, DeleteConnected, DeleteOffline, DeleteClosed, CommitDelete,
        DeleteFails

-----------------------------------------------------------------------------
(* Only a second socket can unregister an agent's socket.                  *)

\* No socket that has been through register comes back to it, or opens again.
LEMMA JustifiedStep ==
    TypeOK /\ EntryHasHandler /\ RemovalJustified /\ [Next]_vars
      => RemovalJustified'
  <1> SUFFICES ASSUME TypeOK, EntryHasHandler, RemovalJustified, [Next]_vars
               PROVE  RemovalJustified'
    OBVIOUS
  <1> USE AgentOfAssumption, NoSocketAssumption DEF TypeOK, RemovalJustified, PastRegister
  <1>1. CASE /\ UNCHANGED <<sender, conn, admin>>
             /\ \A s \in Sockets : PastRegister(s) =>
                  /\ PastRegister(s)'
                  /\ wire[s] # "open" => wire'[s] # "open"
                  /\ wire[s] = "closed" => wire'[s] = "closed"
    BY <1>1
  <1>2. ASSUME NEW s \in Sockets, HandlerStep(s) \/ Request(s)
        PROVE  RemovalJustified'
    <2>1. UNCHANGED <<sender, conn, admin>>
      BY <1>2 DEF HandlerStep, Request, Connect, Refuse, RegisterFresh,
                  RegisterReplace, FinishRegister, Activate, ActivateFails,
                  Disconnect, LoopError, RemoveSelf, Deactivate,
                  DeactivateFails, Heartbeat, PeerLeaves
    <2>2. \A o \in Sockets : PastRegister(o) =>
                  /\ PastRegister(o)'
                  /\ wire[o] # "open" => wire'[o] # "open"
                  /\ wire[o] = "closed" => wire'[o] = "closed"
      BY <1>2 DEF HandlerStep, Request, Connect, Refuse, RegisterFresh,
                  RegisterReplace, FinishRegister, Activate, ActivateFails,
                  Disconnect, LoopError, RemoveSelf, Deactivate,
                  DeactivateFails, Heartbeat, PeerLeaves, Goto, Close
    <2> QED
      BY <1>1, <2>1, <2>2
  <1>3. ASSUME NEW x \in Senders, StartSend(x) \/ SenderStep(x)
        PROVE  RemovalJustified'
    <2>1. CASE StartSend(x)
      BY <2>1 DEF StartSend, EntryHasHandler
    <2>2. CASE SendOk(x)
      BY <2>2 DEF SendOk
    <2>3. CASE SendFails(x)
      BY <2>3 DEF SendFails
    <2>4. CASE Purge(x)
      BY <2>4 DEF Purge
    <2> QED
      BY <1>3, <2>1, <2>2, <2>3, <2>4 DEF SenderStep
  <1>4. ASSUME NEW a \in Agents, DeleteConnected(a) PROVE RemovalJustified'
    BY <1>4 DEF DeleteConnected, Close, EntryHasHandler
  <1>5. ASSUME NEW a \in Agents, DeleteOffline(a) \/ AdminStep(a)
        PROVE  RemovalJustified'
    BY <1>5 DEF DeleteOffline, AdminStep, DeleteClosed, AdminRemove,
                CommitDelete, DeleteFails
  <1>6. CASE Restart
    BY <1>6 DEF Restart
  <1>7. CASE UNCHANGED vars
    BY <1>7 DEF vars
  <1>8. QED
    BY <1>2, <1>3, <1>4, <1>5, <1>6, <1>7 DEF Next

\* A removal is caused by a socket of the agent that is not open any more: it
\* is not the only socket of the agent, if that one is open.
LEMMA SoleStep ==
    ASSUME TypeOK, EntryHasHandler, RemovalJustified, SoleSocketIsRegistered,
           [Next]_vars
    PROVE  SoleSocketIsRegistered'
  <1> USE AgentOfAssumption, NoSocketAssumption
      DEF TypeOK, SoleSocketIsRegistered, Served
  <1>1. ASSUME NEW s \in Sockets,
               RegisterFresh(s) \/ FinishRegister(s) \/ RemoveSelf(s)
        PROVE  SoleSocketIsRegistered'
    BY <1>1 DEF RegisterFresh, FinishRegister, RemoveSelf, Goto, Pop, Enter
  <1>2. ASSUME NEW s \in Sockets,
               Connect(s) \/ Refuse(s) \/ RegisterReplace(s) \/ Activate(s)
                 \/ ActivateFails(s) \/ Disconnect(s) \/ LoopError(s)
                 \/ Deactivate(s) \/ DeactivateFails(s) \/ PeerLeaves(s)
        PROVE  SoleSocketIsRegistered'
    BY <1>2 DEF Connect, Refuse, RegisterReplace, Activate, ActivateFails,
                Disconnect, LoopError, Deactivate, DeactivateFails, PeerLeaves,
                Goto, Close
  <1>3. ASSUME NEW x \in Senders, Purge(x) PROVE SoleSocketIsRegistered'
    <2>1. /\ conn[x] \in Sockets
          /\ handler[conn[x]] # "idle"
          /\ wire[conn[x]] # "open"
      BY <1>3 DEF Purge, RemovalJustified, PastRegister
    <2> QED
      BY <1>3, <2>1 DEF Purge, Pop, Enter
  <1>4. ASSUME NEW a \in Agents, AdminRemove(a) PROVE SoleSocketIsRegistered'
    <2>1. PICK s \in Sockets : /\ AgentOf[s] = a
                               /\ handler[s] # "idle"
                               /\ wire[s] = "closed"
      BY <1>4 DEF AdminRemove, RemovalJustified, PastRegister
    <2> QED
      BY <1>4, <2>1 DEF AdminRemove, Pop, Enter
  <1>5. ASSUME NEW a \in Agents, DeleteConnected(a) PROVE SoleSocketIsRegistered'
    BY <1>5 DEF DeleteConnected, Close
  <1>6. CASE Restart
    BY <1>6 DEF Restart, Ended
  <1>7. CASE UNCHANGED <<connections, wire, handler>>
    BY <1>7
  <1>8. QED
    BY <1>1, <1>2, <1>3, <1>4, <1>5, <1>6, <1>7
    DEF Next, HandlerStep, Request, SenderStep, AdminStep, StartSend, SendOk,
        SendFails, DeleteOffline, DeleteClosed, CommitDelete, DeleteFails,
        Heartbeat, vars

-----------------------------------------------------------------------------
(* An open and served socket is unregistered by others of its agent only.  *)

\* A socket never comes back to register.
LEMMA PastStays ==
    ASSUME TypeOK, [Next]_vars, NEW s \in Sockets, PastRegister(s)
    PROVE  PastRegister(s)'
  <1> USE DEF TypeOK, PastRegister, Goto
  <1>1. ASSUME NEW o \in Sockets, HandlerStep(o) \/ Request(o)
        PROVE  PastRegister(s)'
    BY <1>1 DEF HandlerStep, Request, Connect, Refuse, RegisterFresh, RegisterReplace,
                FinishRegister, Activate, ActivateFails, Disconnect, LoopError, RemoveSelf,
                Deactivate, DeactivateFails, Heartbeat, PeerLeaves
  <1>2. CASE Restart
    BY <1>2 DEF Restart, Ended
  <1>3. CASE UNCHANGED handler
    BY <1>3
  <1> QED
    BY <1>1, <1>2, <1>3
    DEF Next, SenderStep, AdminStep, StartSend, SendOk, SendFails, Purge, DeleteConnected,
        DeleteOffline, DeleteClosed, AdminRemove, CommitDelete, DeleteFails, vars

\* A socket is served from its registration on, and never again once it is not.
LEMMA ServedSince ==
    ASSUME TypeOK, [Next]_vars, NEW s \in Sockets, Served(s)', ~Served(s)
    PROVE  RegisterFresh(s) \/ FinishRegister(s)
  <1> USE DEF TypeOK, Served, Goto
  <1>1. ASSUME NEW o \in Sockets, HandlerStep(o) \/ Request(o)
        PROVE  RegisterFresh(s) \/ FinishRegister(s)
    <2>1. CASE RegisterFresh(o) \/ FinishRegister(o)
      BY <2>1 DEF RegisterFresh, FinishRegister
    <2>2. CASE ~(RegisterFresh(o) \/ FinishRegister(o))
      BY <1>1, <2>2
      DEF HandlerStep, Request, Connect, Refuse, RegisterReplace, Activate, ActivateFails,
          Disconnect, LoopError, RemoveSelf, Deactivate, DeactivateFails, Heartbeat,
          PeerLeaves, Close
    <2> QED
      BY <2>1, <2>2
  <1>2. CASE Restart
    BY <1>2 DEF Restart, Ended
  <1>3. ASSUME NEW b \in Agents, DeleteConnected(b) PROVE FALSE
    BY <1>3 DEF DeleteConnected, Close
  <1>4. ASSUME UNCHANGED <<wire, handler>> PROVE FALSE
    BY <1>4
  <1> QED
    BY <1>1, <1>2, <1>3, <1>4
    DEF Next, SenderStep, AdminStep, StartSend, SendOk, SendFails, Purge, DeleteOffline,
        DeleteClosed, AdminRemove, CommitDelete, DeleteFails, vars

\* The two ends of register find the entry gone, or its socket closed; a removal
\* is caused by a socket that is not served.
LEMMA UnregisteredStep ==
    ASSUME TypeOK, EntryHasHandler, ReplacingClosed, RemovalJustified,
           UnregisteredHasCause, [Next]_vars
    PROVE  UnregisteredHasCause'
  <1> SUFFICES ASSUME NEW s \in Sockets, Served(s)', connections'[AgentOf[s]] # s
               PROVE  \E o \in Sockets \ {s} : /\ AgentOf[o] = AgentOf[s]
                                               /\ PastRegister(o)'
                                               /\ connections'[AgentOf[s]] # o
    BY DEF UnregisteredHasCause
  <1> DEFINE a == AgentOf[s]
  <1> USE AgentOfAssumption, NoSocketAssumption DEF TypeOK
  <1>1. Served(s)
    <2>1. RegisterFresh(s) \/ FinishRegister(s) => connections'[a] = s
      BY DEF RegisterFresh, FinishRegister, Enter
    <2> QED
      BY <2>1, ServedSince
  <1>2. CASE connections'[a] = connections[a]
    <2>1. PICK o \in Sockets \ {s} : /\ AgentOf[o] = a
                                     /\ PastRegister(o)
                                     /\ connections[a] # o
      BY <1>1, <1>2 DEF UnregisteredHasCause
    <2> QED
      BY <1>2, <2>1, PastStays
  <1>3. ASSUME NEW k \in Sockets, RegisterFresh(k) \/ FinishRegister(k), AgentOf[k] = a
        PROVE  \E o \in Sockets \ {s} : /\ AgentOf[o] = a
                                        /\ PastRegister(o)'
                                        /\ connections'[a] # o
    <2>1. connections'[a] = k /\ ~PastRegister(k)
      BY <1>3 DEF RegisterFresh, FinishRegister, Enter, PastRegister
    <2>2. connections[a] # s
      BY <1>1, <1>3 DEF RegisterFresh, FinishRegister, ReplacingClosed, Served
    <2>3. PICK o \in Sockets \ {s} : AgentOf[o] = a /\ PastRegister(o)
      BY <1>1, <2>2 DEF UnregisteredHasCause
    <2> QED
      BY <2>1, <2>3, PastStays
  <1>4. ASSUME NEW o \in Sockets, AgentOf[o] = a, PastRegister(o), ~Served(o),
               connections'[a] = NoSocket
        PROVE  \E p \in Sockets \ {s} : /\ AgentOf[p] = a
                                        /\ PastRegister(p)'
                                        /\ connections'[a] # p
    BY <1>1, <1>4, PastStays
  <1>5. ASSUME NEW o \in Sockets, RemoveSelf(o), AgentOf[o] = a
        PROVE  PastRegister(o) /\ ~Served(o) /\ connections'[a] = NoSocket
    BY <1>5 DEF RemoveSelf, Pop, Enter, PastRegister, Served
  <1>6. ASSUME NEW x \in Senders, Purge(x), AgentOf[conn[x]] = a
        PROVE  /\ conn[x] \in Sockets
               /\ PastRegister(conn[x]) /\ ~Served(conn[x]) /\ connections'[a] = NoSocket
    <2>1. conn[x] \in Sockets /\ PastRegister(conn[x]) /\ wire[conn[x]] # "open"
      BY <1>6 DEF Purge, RemovalJustified
    <2> QED
      BY <1>6, <2>1 DEF Purge, Pop, Enter, Served
  <1>7. ASSUME AdminRemove(a)
        PROVE  \E o \in Sockets : /\ AgentOf[o] = a /\ PastRegister(o) /\ ~Served(o)
                                  /\ connections'[a] = NoSocket
    BY <1>7 DEF AdminRemove, Pop, Enter, RemovalJustified, Served
  <1>8. CASE Restart
    BY <1>8 DEF Restart, Ended, Served
  <1>9. ASSUME NEW k \in Sockets, HandlerStep(k) \/ Request(k)
        PROVE  \/ connections'[a] = connections[a]
               \/ AgentOf[k] = a /\ (RegisterFresh(k) \/ FinishRegister(k) \/ RemoveSelf(k))
    BY <1>9 DEF HandlerStep, Request, Connect, Refuse, RegisterFresh, RegisterReplace,
                FinishRegister, Activate, ActivateFails, Disconnect, LoopError, RemoveSelf,
                Deactivate, DeactivateFails, Heartbeat, PeerLeaves, Pop, Enter
  <1>10. ASSUME NEW x \in Senders, StartSend(x) \/ SenderStep(x)
         PROVE  \/ connections'[a] = connections[a]
                \/ Purge(x) /\ AgentOf[conn[x]] = a
    BY <1>10 DEF SenderStep, StartSend, SendOk, SendFails, Purge, Pop, Enter
  <1>11. ASSUME NEW b \in Agents, DeleteConnected(b) \/ DeleteOffline(b) \/ AdminStep(b)
         PROVE  \/ connections'[a] = connections[a]
                \/ AdminRemove(b) /\ b = a
    BY <1>11 DEF AdminStep, DeleteConnected, DeleteOffline, DeleteClosed, AdminRemove,
                 CommitDelete, DeleteFails, Pop, Enter
  <1>12. CASE UNCHANGED vars
    BY <1>2, <1>12 DEF vars
  <1>13. QED
    BY <1>2, <1>3, <1>4, <1>5, <1>6, <1>7, <1>8, <1>9, <1>10, <1>11, <1>12 DEF Next

\* A heartbeat is credited to an entry that is there; an entry that changes
\* loses its heartbeat.
LEMMA HeartbeatStep ==
    ASSUME TypeOK, UnregisteredHasCause, HeartbeatIsOwn, [Next]_vars
    PROVE  HeartbeatIsOwn'
  <1> SUFFICES ASSUME NEW a \in Agents, heartbeat'[a] # NoSocket
               PROVE  /\ connections'[a] # NoSocket
                      /\ AgentOf[heartbeat'[a]] = a
                      /\ (heartbeat'[a] # connections'[a] /\ Served(heartbeat[a])') =>
                           \E s \in Sockets \ {heartbeat'[a], connections'[a]} :
                              AgentOf[s] = a /\ PastRegister(s)'
    BY DEF HeartbeatIsOwn
  <1> USE AgentOfAssumption, NoSocketAssumption DEF TypeOK
  <1>1. CASE heartbeat'[a] = heartbeat[a] /\ connections'[a] = connections[a]
    <2>1. PICK h \in Sockets : h = heartbeat[a] /\ AgentOf[h] = a
      BY <1>1 DEF HeartbeatIsOwn
    <2>2. ASSUME h # connections[a], Served(h)'
          PROVE  \E s \in Sockets \ {h, connections[a]} :
                     AgentOf[s] = a /\ PastRegister(s)'
      <3>1. Served(h)
        <4>1. ~RegisterFresh(h) /\ ~FinishRegister(h)
          BY <1>1, <2>1, <2>2 DEF RegisterFresh, FinishRegister, Enter
        <4> QED
          BY <2>1, <2>2, <4>1, ServedSince
      <3>2. PICK s \in Sockets \ {h, connections[a]} : AgentOf[s] = a /\ PastRegister(s)
        BY <1>1, <2>1, <2>2, <3>1 DEF HeartbeatIsOwn
      <3> QED
        BY <3>2, PastStays
    <2>3. connections[a] # NoSocket
      BY <1>1 DEF HeartbeatIsOwn
    <2> QED
      BY <1>1, <2>1, <2>2, <2>3 DEF Served
  <1>2. ASSUME NEW s \in Sockets, Heartbeat(s), AgentOf[s] = a
        PROVE  /\ connections'[a] # NoSocket
               /\ AgentOf[heartbeat'[a]] = a
               /\ (heartbeat'[a] # connections'[a] /\ Served(heartbeat[a])') =>
                    \E o \in Sockets \ {heartbeat'[a], connections'[a]} :
                       AgentOf[o] = a /\ PastRegister(o)'
    <2>1. /\ heartbeat'[a] = s /\ connections'[a] = connections[a]
          /\ connections[a] # NoSocket /\ UNCHANGED <<wire, handler>>
      BY <1>2 DEF Heartbeat
    <2>2. ASSUME s # connections[a], Served(s)
          PROVE  \E o \in Sockets \ {s, connections[a]} :
                    AgentOf[o] = a /\ PastRegister(o)
      BY <1>2, <2>2 DEF UnregisteredHasCause
    <2> QED
      BY <1>2, <2>1, <2>2, PastStays DEF Served
  <1>3. \A b \in Agents, e \in Sockets \cup {NoSocket} :
          Enter(b, e) => \/ heartbeat'[a] = NoSocket
                         \/ heartbeat'[a] = heartbeat[a] /\ connections'[a] = connections[a]
    BY DEF Enter
  <1>4. ASSUME NEW s \in Sockets, HandlerStep(s) \/ Request(s)
        PROVE  \/ Heartbeat(s) /\ AgentOf[s] = a
               \/ heartbeat'[a] = heartbeat[a] /\ connections'[a] = connections[a]
    <2>1. CASE RegisterFresh(s) \/ FinishRegister(s)
      BY <1>3, <2>1 DEF RegisterFresh, FinishRegister
    <2>2. CASE RemoveSelf(s)
      BY <1>3, <2>2 DEF RemoveSelf, Pop
    <2>3. CASE Heartbeat(s)
      BY <2>3 DEF Heartbeat
    <2>4. CASE UNCHANGED <<connections, heartbeat>>
      BY <2>4
    <2> QED
      BY <1>4, <2>1, <2>2, <2>3, <2>4
      DEF HandlerStep, Request, Connect, Refuse, RegisterReplace, Activate, ActivateFails,
          Disconnect, LoopError, Deactivate, DeactivateFails, PeerLeaves
  <1>5. ASSUME NEW x \in Senders, StartSend(x) \/ SenderStep(x)
        PROVE  heartbeat'[a] = heartbeat[a] /\ connections'[a] = connections[a]
    <2>1. CASE Purge(x)
      BY <2>1 DEF Purge, Pop, Enter
    <2>2. CASE UNCHANGED <<connections, heartbeat>>
      BY <2>2
    <2> QED
      BY <1>5, <2>1, <2>2 DEF SenderStep, StartSend, SendOk, SendFails
  <1>6. ASSUME NEW b \in Agents, DeleteConnected(b) \/ DeleteOffline(b) \/ AdminStep(b)
        PROVE  heartbeat'[a] = heartbeat[a] /\ connections'[a] = connections[a]
    <2>1. CASE AdminRemove(b)
      BY <1>3, <2>1 DEF AdminRemove, Pop
    <2>2. CASE UNCHANGED <<connections, heartbeat>>
      BY <2>2
    <2> QED
      BY <1>6, <2>1, <2>2
      DEF AdminStep, DeleteConnected, DeleteOffline, DeleteClosed, CommitDelete, DeleteFails
  <1>7. ~Restart
    BY DEF Restart
  <1>8. CASE UNCHANGED vars
    BY <1>1, <1>8 DEF vars
  <1>9. QED
    BY <1>1, <1>2, <1>4, <1>5, <1>6, <1>7, <1>8 DEF Next

-----------------------------------------------------------------------------
(* The inductive invariant and what follows from it.                       *)

IndInv ==
    /\ TypeOK
    /\ Queued = Locking
    /\ QueuedOnce
    /\ EntryHasHandler
    /\ StatusHasHandler
    /\ ReplacingClosed
    /\ RemovalJustified
    /\ SoleSocketIsRegistered
    /\ UnregisteredHasCause
    /\ HeartbeatIsOwn

LEMMA IndInvInit == Init => IndInv
  <1> SUFFICES ASSUME Init PROVE IndInv
    OBVIOUS
  <1> USE NoSocketAssumption DEF Init
  <1>1. TypeOK
    BY DEF TypeOK, HandlerState, SenderState, AdminState, WireState, AgentStatus
  <1>2. Queued = Locking /\ QueuedOnce
    BY DEF Queued, QueuedOnce, Locking
  <1>3. EntryHasHandler /\ ReplacingClosed /\ SoleSocketIsRegistered
    BY DEF EntryHasHandler, ReplacingClosed, SoleSocketIsRegistered, Served
  <1>4. StatusHasHandler /\ RemovalJustified
    BY DEF StatusHasHandler, RemovalJustified
  <1>5. UnregisteredHasCause /\ HeartbeatIsOwn
    BY DEF UnregisteredHasCause, HeartbeatIsOwn, Served
  <1> QED
    BY <1>1, <1>2, <1>3, <1>4, <1>5 DEF IndInv

LEMMA IndInvStep == IndInv /\ [Next]_vars => IndInv'
  BY TypeStep, LockStep, EntryStep, StatusStep, ReplacingStep, JustifiedStep,
     SoleStep, UnregisteredStep, HeartbeatStep DEF IndInv

LEMMA IndInvHolds == Spec => []IndInv
  BY IndInvInit, IndInvStep, PTL DEF Spec

\* Every variable keeps its type.
THEOREM TypeCorrect == Spec => []TypeOK
  <1>1. IndInv => TypeOK
    BY DEF IndInv
  <1> QED
    BY <1>1, IndInvHolds, PTL

\* ConnectionManager._lock is held by exactly the operation at the head of the
\* queue, and every operation that wants it is queued once.
THEOREM LockIsDisciplined == Spec => []LockDiscipline
  <1>1. IndInv => LockDiscipline
    BY DEF IndInv, LockDiscipline, ReplacingClosed
  <1> QED
    BY <1>1, IndInvHolds, PTL

\* A registration outlives its handler only when the status write before the
\* try of agent_websocket raised.
THEOREM EntriesHaveHandlers == Spec => []EntryHasHandler
  <1>1. IndInv => EntryHasHandler
    BY DEF IndInv
  <1> QED
    BY <1>1, IndInvHolds, PTL

\* An agent is shown active only while one of its handlers has still to write
\* 'inactive', failed to, or died with the process.
THEOREM ActiveHasHandler == Spec => []StatusHasHandler
  <1>1. IndInv => StatusHasHandler
    BY DEF IndInv
  <1> QED
    BY <1>1, IndInvHolds, PTL

\* An agent that never opens a second socket stays registered while served.
THEOREM SoleSocketStaysRegistered == Spec => []SoleSocketIsRegistered
  <1>1. IndInv => SoleSocketIsRegistered
    BY DEF IndInv
  <1> QED
    BY <1>1, IndInvHolds, PTL

\* The heartbeat of an agent is a heartbeat of its own; it is another open
\* socket's than the registered one only after a third one has interfered.
THEOREM HeartbeatsAreOwn == Spec => []HeartbeatIsOwn
  <1>1. IndInv => HeartbeatIsOwn
    BY DEF IndInv
  <1> QED
    BY <1>1, IndInvHolds, PTL

\* How far LiveSocketIsRegistered is from being kept: an open and served socket is
\* unregistered only after another socket of the same agent has passed register,
\* and that one is not registered either.
THEOREM UnregisteringHasCause == Spec => []UnregisteredHasCause
  <1>1. IndInv => UnregisteredHasCause
    BY DEF IndInv
  <1> QED
    BY <1>1, IndInvHolds, PTL

\* register closes a socket before it replaces it, whatever runs during the
\* close.
THEOREM ReplacementCloses == Spec => ReplacedOnlyAfterClose
  <1>1. IndInv /\ [Next]_vars =>
          [\A a \in Agents :
             (connections[a] # NoSocket /\ connections'[a] \notin {NoSocket, connections[a]})
               => wire[connections[a]] = "closed"]_vars
    BY ReplaceStep DEF IndInv
  <1> QED
    BY <1>1, IndInvHolds, PTL DEF Spec, ReplacedOnlyAfterClose

-----------------------------------------------------------------------------
(* AgentChannel implements Presence for every agent.                       *)

\* The step of Presence, or the stutter, that a step of AgentChannel is.
Maps(a) == [Present(a)!Next]_(Present(a)!vars)

\* A step that changes neither the entry nor a link is a stutter; one that takes
\* the entry away is a Detach.
LEMMA MapsToDetach ==
    ASSUME NEW a \in Agents,
           \A s \in SocketsOf(a) : Link(s)' = Link(s),
           connections'[a] \in {connections[a], NoSocket}
    PROVE  Maps(a)
  BY DEF Maps, Present!Next, Present!Detach, Present!vars, SocketsOf

\* A step that takes one socket down is a LinkDown, or a stutter.
LEMMA MapsToLinkDown ==
    ASSUME NEW a \in Agents, NEW k \in Sockets,
           \A s \in SocketsOf(a) : s # k => Link(s)' = Link(s),
           Link(k)' \in {Link(k), "down"},
           connections'[a] = connections[a]
    PROVE  Maps(a)
  <1>1. CASE \A s \in SocketsOf(a) : Link(s)' = Link(s)
    BY <1>1, MapsToDetach
  <1>2. CASE k \in SocketsOf(a) /\ Link(k)' # Link(k)
    BY <1>2 DEF Maps, Present!Next, Present!LinkDown, Present!vars, SocketsOf
  <1> QED
    BY <1>1, <1>2

\* The two ends of register attach the socket: there is no entry, or its socket
\* is closed.
LEMMA MapsToAttach ==
    ASSUME TypeOK, EntryHasHandler, ReplacingClosed,
           NEW a \in Agents, NEW k \in Sockets,
           RegisterFresh(k) \/ FinishRegister(k)
    PROVE  Maps(a)
  <1> USE AgentOfAssumption, NoSocketAssumption DEF TypeOK, Link, PastRegister, Goto, Enter
  <1>1. /\ \A s \in Sockets : s # k => Link(s)' = Link(s)
        /\ Link(k) = "none" /\ Link(k)' \in {"up", "down"}
        /\ connections' = [connections EXCEPT ![AgentOf[k]] = k]
    BY DEF RegisterFresh, FinishRegister
  <1>2. CASE AgentOf[k] # a
    <2>1. connections'[a] = connections[a] /\ \A s \in SocketsOf(a) : Link(s)' = Link(s)
      BY <1>1, <1>2 DEF SocketsOf
    <2> QED
      BY <2>1, MapsToDetach
  <1>3. CASE AgentOf[k] = a
    <2>1. k \in SocketsOf(a) /\ connections'[a] = k
      BY <1>1, <1>3 DEF SocketsOf
    <2>2. connections[a] # NoSocket =>
            connections[a] \in SocketsOf(a) /\ Link(connections[a]) = "down"
      BY <1>3 DEF RegisterFresh, FinishRegister, EntryHasHandler, ReplacingClosed, SocketsOf
    <2> HIDE DEF Link
    <2> QED
      BY <1>1, <2>1, <2>2
      DEF Maps, Present!Next, Present!Attach, SocketsOf
  <1> QED
    BY <1>2, <1>3

LEMMA MapsStep ==
    ASSUME TypeOK, EntryHasHandler, ReplacingClosed, [Next]_vars, NEW a \in Agents
    PROVE  Maps(a)
  <1> USE AgentOfAssumption, NoSocketAssumption DEF TypeOK, PastRegister, Goto
  <1>1. ASSUME NEW s \in Sockets,
               Connect(s) \/ Refuse(s) \/ Activate(s) \/ ActivateFails(s) \/ Heartbeat(s)
                 \/ Disconnect(s) \/ LoopError(s) \/ Deactivate(s) \/ DeactivateFails(s)
                 \/ PeerLeaves(s)
        PROVE  Maps(a)
    <2>1. /\ \A o \in Sockets : o # s => Link(o)' = Link(o)
          /\ Link(s)' \in {Link(s), "down"}
          /\ connections' = connections
      BY <1>1 DEF Connect, Refuse, Activate, ActivateFails, Heartbeat, Disconnect,
                  LoopError, Deactivate, DeactivateFails, PeerLeaves, Link, Close
    <2> QED
      BY <2>1, MapsToLinkDown DEF SocketsOf
  <1>2. ASSUME NEW b \in Agents, NEW s \in Sockets,
               connections[b] # NoSocket, Close(connections[b]), UNCHANGED connections,
               handler' = handler \/ (handler[s] = "register" /\ Goto(s, "closing"))
        PROVE  Maps(a)
    <2>1. PICK e \in Sockets : e = connections[b]
      BY <1>2
    <2>2. \A o \in Sockets : PastRegister(o)' = PastRegister(o)
      BY <1>2
    <2>3. /\ \A o \in Sockets : o # e => Link(o)' = Link(o)
          /\ Link(e)' \in {Link(e), "down"}
      BY <1>2, <2>1, <2>2 DEF Link, Close
    <2> QED
      BY <1>2, <2>3, MapsToLinkDown DEF SocketsOf
  <1>3. ASSUME NEW s \in Sockets, RegisterReplace(s) PROVE Maps(a)
    BY <1>2, <1>3 DEF RegisterReplace
  <1>4. ASSUME NEW b \in Agents, DeleteConnected(b) PROVE Maps(a)
    <2>1. PICK s \in Sockets : s = connections[b]
      BY <1>4 DEF DeleteConnected
    <2> QED
      BY <1>2, <1>4, <2>1 DEF DeleteConnected
  <1>5. ASSUME NEW s \in Sockets, RemoveSelf(s) PROVE Maps(a)
    BY <1>5, MapsToDetach DEF RemoveSelf, Pop, Enter, Link, SocketsOf
  <1>6. ASSUME NEW x \in Senders, Purge(x) PROVE Maps(a)
    BY <1>6, MapsToDetach DEF Purge, Pop, Enter, Link, SocketsOf
  <1>7. ASSUME NEW b \in Agents, AdminRemove(b) PROVE Maps(a)
    BY <1>7, MapsToDetach DEF AdminRemove, Pop, Enter, Link, SocketsOf
  <1>8. CASE Restart
    <2>1. \A s \in Sockets : IF handler[s] = "idle" THEN Link(s) = "none" /\ Link(s)' = "none"
                                                    ELSE Link(s)' = "down"
      BY <1>8 DEF Restart, Ended, Link
    <2>2. connections'[a] = NoSocket
      BY <1>8 DEF Restart
    <2> QED
      BY <2>1, <2>2 DEF Maps, Present!Next, Present!Restart, SocketsOf
  <1>9. CASE UNCHANGED <<connections, wire, handler>>
    BY <1>9, MapsToDetach DEF Link
  <1>10. QED
    BY <1>1, <1>3, <1>4, <1>5, <1>6, <1>7, <1>8, <1>9, MapsToAttach
    DEF Next, HandlerStep, Request, SenderStep, AdminStep, StartSend, SendOk, SendFails,
        DeleteOffline, DeleteClosed, CommitDelete, DeleteFails, vars

\* Whatever the lock, the close handshakes, the removals by agent id, deletions
\* and restarts do, each agent's entry and sockets behave as Presence promises.
THEOREM ChannelImplementsPresence == Spec => ImplementsPresence
  <1>1. Init => \A a \in Agents : Present(a)!Init
    <2> SUFFICES ASSUME Init, NEW a \in Agents PROVE Present(a)!Init
      OBVIOUS
    <2>1. connections[a] = NoSocket /\ \A s \in SocketsOf(a) : Link(s) = "none"
      BY DEF Init, Link, PastRegister, SocketsOf
    <2> QED
      BY <2>1 DEF Present!Init
  <1>2. IndInv /\ [Next]_vars =>
          [\A a \in Agents : [Present(a)!Next]_(Present(a)!vars)]_vars
    BY MapsStep DEF IndInv, Maps
  <1> QED
    BY <1>1, <1>2, IndInvHolds, PTL DEF Spec, ImplementsPresence

-----------------------------------------------------------------------------
(* How far StatusFollowsConnection is from being kept.                     *)

\* An agent in whose receive loop a handler stands is shown 'inactive' only when
\* another handler of the agent has run to its end: only another one can have
\* written that.
InactiveHasCause ==
    \A s \in Sockets : (handler[s] = "receive" /\ status[AgentOf[s]] = "inactive") =>
        \E o \in Sockets \ {s} : AgentOf[o] = AgentOf[s] /\ handler[o] = "done"

LEMMA InactiveStep ==
    ASSUME TypeOK, InactiveHasCause, [Next]_vars
    PROVE  InactiveHasCause'
  <1> USE AgentOfAssumption DEF TypeOK, InactiveHasCause, Goto, SetStatus
  <1>1. ASSUME NEW s \in Sockets,
               Connect(s) \/ Refuse(s) \/ RegisterFresh(s) \/ RegisterReplace(s)
                 \/ FinishRegister(s) \/ ActivateFails(s) \/ Disconnect(s)
                 \/ LoopError(s) \/ RemoveSelf(s) \/ DeactivateFails(s)
        PROVE  InactiveHasCause'
    BY <1>1 DEF Connect, Refuse, RegisterFresh, RegisterReplace, FinishRegister,
                ActivateFails, Disconnect, LoopError, RemoveSelf, DeactivateFails
  <1>2. ASSUME NEW s \in Sockets, Activate(s) PROVE InactiveHasCause'
    BY <1>2 DEF Activate
  <1>3. ASSUME NEW s \in Sockets, Deactivate(s) PROVE InactiveHasCause'
    BY <1>3 DEF Deactivate
  <1>4. ASSUME NEW a \in Agents, CommitDelete(a) PROVE InactiveHasCause'
    BY <1>4 DEF CommitDelete
  <1>5. CASE Restart
    BY <1>5 DEF Restart, Ended
  <1>6. CASE UNCHANGED <<handler, status>>
    BY <1>6
  <1>7. QED
    BY <1>1, <1>2, <1>3, <1>4, <1>5, <1>6
    DEF Next, HandlerStep, Request, SenderStep, AdminStep, Heartbeat, PeerLeaves,
        StartSend, SendOk, SendFails, Purge, DeleteConnected, DeleteOffline,
        DeleteClosed, AdminRemove, DeleteFails, vars

\* A served agent is shown 'inactive' only through the finally block of another of
\* its handlers (agent_ws.py:88-95), whatever is sent, refused, lost or deleted.
THEOREM InactivityHasCause == Spec => []InactiveHasCause
  <1>1. Init => InactiveHasCause
    BY DEF Init, InactiveHasCause
  <1>2. IndInv => TypeOK
    BY DEF IndInv
  <1> QED
    BY <1>1, <1>2, IndInvHolds, InactiveStep, PTL DEF Spec

\* What the two causes leave to an agent with one socket: while it is served it is
\* registered, and not shown 'inactive'.
SoleSocketIsSound ==
    \A s \in Sockets :
        /\ handler[s] = "receive" /\ wire[s] = "open"
        /\ \A o \in Sockets : (AgentOf[o] = AgentOf[s] /\ o # s) => handler[o] = "idle"
        => connections[AgentOf[s]] = s /\ status[AgentOf[s]] # "inactive"

\* An agent that never opens a second socket suffers neither of the two races of
\* agent_ws.py: both claims that fail for two sockets hold for one.
THEOREM OneSocketIsSound == Spec => []SoleSocketIsSound
  <1>1. IndInv /\ InactiveHasCause => SoleSocketIsSound
    BY DEF IndInv, InactiveHasCause, SoleSocketIsRegistered, Served, SoleSocketIsSound
  <1> QED
    BY <1>1, IndInvHolds, InactivityHasCause, PTL
=============================================================================
