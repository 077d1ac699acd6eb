---------------------------- MODULE AgentChannel ----------------------------
(***************************************************************************)
(* How agents are attached to the platform: the ConnectionManager of       *)
(* services/connection_manager.py, the WebSocket handler of                *)
(* routes/agent_ws.py, the callers of ConnectionManager.send, the deletion *)
(* of an agent by routes/admin.py, and the column agents.status they keep. *)
(*                                                                         *)
(* The server is one asyncio process, so a piece of code between two       *)
(* awaits is atomic, and an action below is such a piece.  A handler is a  *)
(* program counter, handler[s], one per WebSocket.                         *)
(*                                                                         *)
(* asyncio.Lock serves its waiters first come, first served: lockQueue     *)
(* lists the tasks that called a locking operation, and its head owns the  *)
(* lock.                                                                   *)
(***************************************************************************)
EXTENDS Naturals, Sequences

CONSTANTS
    Agents,     \* the agents that have an API key
    Sockets,    \* every WebSocket opened in a behaviour, each used once
    AgentOf,    \* the agent of the {agent_id} a socket was opened for
    Senders,    \* the tasks that call ConnectionManager.send
    NoSocket,   \* "not registered"
    Faults      \* may the database refuse a write, a peer send a message the
                \* loop raises on, and the process restart?

ASSUME AgentOfAssumption == AgentOf \in [Sockets -> Agents]
ASSUME NoSocketAssumption == NoSocket \notin Sockets
ASSUME TasksDisjoint == /\ Sockets \cap Senders = {}
                        /\ Sockets \cap Agents = {}
                        /\ Senders \cap Agents = {}
ASSUME FaultsAssumption == Faults \in BOOLEAN

VARIABLES
    connections,  \* ConnectionManager._connections
    heartbeat,    \* whose heartbeat the entry's last_heartbeat is: a socket, or
                  \* NoSocket for the time of the registration itself
    lockQueue,    \* ConnectionManager._lock: its owner, then its waiters
    wire,         \* the transport of each socket, as the server sees it
    handler,      \* where agent_websocket stands, for each socket
    sender,       \* where ConnectionManager.send stands, for each caller
    conn,         \* the local variable conn of that call
    admin,        \* where delete_agent stands, for each agent
    status        \* the column agents.status; "deleted": there is no row

vars == <<connections, heartbeat, lockQueue, wire, handler, sender, conn, admin,
          status>>

\* At most one deletion of an agent is in progress (a bound), so the agent
\* names the task.
Tasks == Sockets \cup Senders \cup Agents

\* The awaits at which each task may stand.
HandlerState ==
    {"idle", "register", "closing", "activate", "receive", "remove",
     "deactivate", "done", "leaked", "failed", "killed"}
SenderState == {"idle", "sending", "purge"}
AdminState == {"idle", "closing", "remove", "delete"}

WireState == {"none", "open", "lost", "closed"}
AgentStatus == {"active", "inactive", "deleted"}

TypeOK ==
    /\ connections \in [Agents -> Sockets \cup {NoSocket}]
    /\ heartbeat \in [Agents -> Sockets \cup {NoSocket}]
    /\ lockQueue \in Seq(Tasks)
    /\ wire \in [Sockets -> WireState]
    /\ handler \in [Sockets -> HandlerState]
    /\ sender \in [Senders -> SenderState]
    /\ conn \in [Senders -> Sockets \cup {NoSocket}]
    /\ admin \in [Agents -> AdminState]
    /\ status \in [Agents -> AgentStatus]

Init ==
    /\ connections = [a \in Agents |-> NoSocket]
    /\ heartbeat = [a \in Agents |-> NoSocket]
    /\ lockQueue = << >>
    /\ wire = [s \in Sockets |-> "none"]
    /\ handler = [s \in Sockets |-> "idle"]
    /\ sender = [x \in Senders |-> "idle"]
    /\ conn = [x \in Senders |-> NoSocket]
    /\ admin = [a \in Agents |-> "idle"]
    /\ status = [a \in Agents |-> "inactive"]

-----------------------------------------------------------------------------
(* The lock, and the updates that several operations share.               *)

Join(t) == lockQueue' = Append(lockQueue, t)

Holds(t) == lockQueue # << >> /\ Head(lockQueue) = t

\* Mutant: leaving "async with" without releasing.
KeepLock == UNCHANGED lockQueue

Release == lockQueue' = Tail(lockQueue)

\* self._connections[agent_id] = AgentConnection(...): a new entry, whose
\* last_heartbeat is the present.
Enter(a, s) ==
    /\ connections' = [connections EXCEPT ![a] = s]
    /\ heartbeat' = [heartbeat EXCEPT ![a] = NoSocket]

\* self._connections.pop(agent_id, None): whatever socket is registered.
Pop(a) == Enter(a, NoSocket)

\* Mutant: the UPDATE inserts the row of a deleted agent again, without a status.
UpsertStatus(a, v) ==
    status' = [status EXCEPT ![a] = IF @ = "deleted" THEN "null" ELSE v]

\* UPDATE agents SET status = v: no effect when the row is gone.
SetStatus(a, v) ==
    status' = [status EXCEPT ![a] = IF @ = "deleted" THEN @ ELSE v]

\* A close by the server: the WebSocket object refuses every later send.
Close(s) == wire' = [wire EXCEPT ![s] = "closed"]

Goto(s, pc) == handler' = [handler EXCEPT ![s] = pc]

-----------------------------------------------------------------------------
(* The WebSocket handler.                                                  *)

\* The token is the agent's own: accept, and call register.  An API key
\* outlives its agent, so the agent may have been deleted.
Connect(s) ==
    /\ handler[s] = "idle"
    /\ wire' = [wire EXCEPT ![s] = "open"]
    /\ Goto(s, "register")
    /\ Join(s)
    /\ UNCHANGED <<connections, heartbeat, sender, conn, admin, status>>

\* No token, or one of somebody else: close code 4001.
Refuse(s) ==
    /\ handler[s] = "idle"
    /\ Close(s)
    /\ Goto(s, "done")
    /\ UNCHANGED <<connections, heartbeat, lockQueue, sender, conn, admin, status>>

\* register, when the agent has no connection.
RegisterFresh(s) ==
    /\ handler[s] = "register"
    /\ Holds(s)
    /\ connections[AgentOf[s]] = NoSocket
    /\ Enter(AgentOf[s], s)
    /\ Goto(s, "activate")
    /\ Release
    /\ UNCHANGED <<wire, sender, conn, admin, status>>

\* Mutant: register overwrites the entry and closes nothing.
RegisterOver(s) ==
    /\ handler[s] = "register"
    /\ Holds(s)
    /\ connections[AgentOf[s]] # NoSocket
    /\ Enter(AgentOf[s], s)
    /\ Goto(s, "activate")
    /\ Release
    /\ UNCHANGED <<wire, sender, conn, admin, status>>

\* register, when it has one: the close is awaited with the lock held.
RegisterReplace(s) ==
    /\ handler[s] = "register"
    /\ Holds(s)
    /\ connections[AgentOf[s]] # NoSocket
    /\ Close(connections[AgentOf[s]])
    /\ Goto(s, "closing")
    /\ UNCHANGED <<connections, heartbeat, lockQueue, sender, conn, admin, status>>

\* Mutant: register also waits for the replaced socket's handler to end.
FinishRegisterLate(s) ==
    /\ handler[s] = "closing"
    /\ Holds(s)
    /\ handler[connections[AgentOf[s]]] = "done"
    /\ Enter(AgentOf[s], s)
    /\ Goto(s, "activate")
    /\ Release
    /\ UNCHANGED <<wire, sender, conn, admin, status>>

\* The close handshake has ended, or failed, which register ignores.
FinishRegister(s) ==
    /\ handler[s] = "closing"
    /\ Holds(s)
    /\ Enter(AgentOf[s], s)
    /\ Goto(s, "activate")
    /\ Release
    /\ UNCHANGED <<wire, sender, conn, admin, status>>

\* The commit of status = 'active'.
Activate(s) ==
    /\ handler[s] = "activate"
    /\ SetStatus(AgentOf[s], "active")
    /\ Goto(s, "receive")
    /\ UNCHANGED <<connections, heartbeat, lockQueue, wire, sender, conn, admin>>

\* The write raises, outside of the try: the handler ends, the server closes
\* the socket, and nothing removes the registration.
ActivateFails(s) ==
    /\ Faults
    /\ handler[s] = "activate"
    /\ Close(s)
    /\ Goto(s, "leaked")
    /\ UNCHANGED <<connections, heartbeat, lockQueue, sender, conn, admin, status>>

\* A heartbeat, perhaps one that was still buffered when the socket closed:
\* update_heartbeat(agent_id) credits the agent's entry, if there is one.
Heartbeat(s) ==
    /\ handler[s] = "receive"
    /\ connections[AgentOf[s]] # NoSocket
    /\ heartbeat' = [heartbeat EXCEPT ![AgentOf[s]] = s]
    /\ UNCHANGED <<connections, lockQueue, wire, handler, sender, conn, admin, status>>

\* receive_json raises once the socket is closed or its loss is noticed; the
\* finally block calls remove.
Disconnect(s) ==
    /\ handler[s] = "receive"
    /\ wire[s] # "open"
    /\ Goto(s, "remove")
    /\ Join(s)
    /\ UNCHANGED <<connections, heartbeat, wire, sender, conn, admin, status>>

\* The body of the loop raises: not JSON, a request_id that is no UUID, or a
\* failed update.  The same finally block runs, and the socket stays open.
LoopError(s) ==
    /\ Faults
    /\ handler[s] = "receive"
    /\ wire[s] = "open"
    /\ Goto(s, "remove")
    /\ Join(s)
    /\ UNCHANGED <<connections, heartbeat, wire, sender, conn, admin, status>>

\* Mutant: remove keeps the entry when the server itself closed the socket,
\* taking it for its successor's.
RemoveIfNotClosed(s) ==
    /\ handler[s] = "remove"
    /\ Holds(s)
    /\ IF wire[s] = "closed" THEN UNCHANGED <<connections, heartbeat>> ELSE Pop(AgentOf[s])
    /\ Goto(s, "deactivate")
    /\ Release
    /\ UNCHANGED <<wire, sender, conn, admin, status>>

\* Mutant: the handler returns when somebody else has removed it already.
RemoveOrReturn(s) ==
    /\ handler[s] = "remove"
    /\ Holds(s)
    /\ Pop(AgentOf[s])
    /\ Goto(s, IF connections[AgentOf[s]] = s THEN "deactivate" ELSE "done")
    /\ Release
    /\ UNCHANGED <<wire, sender, conn, admin, status>>

\* remove(agent_id) pops the agent's registration, whichever socket it is.
RemoveSelf(s) ==
    /\ handler[s] = "remove"
    /\ Holds(s)
    /\ Pop(AgentOf[s])
    /\ Goto(s, "deactivate")
    /\ Release
    /\ UNCHANGED <<wire, sender, conn, admin, status>>

\* Mutant: 'inactive' is not written while some socket is registered.
DeactivateIfGone(s) ==
    /\ handler[s] = "deactivate"
    /\ IF connections[AgentOf[s]] = NoSocket
         THEN SetStatus(AgentOf[s], "inactive")
         ELSE UNCHANGED status
    /\ Goto(s, "done")
    /\ UNCHANGED <<connections, heartbeat, lockQueue, wire, sender, conn, admin>>

\* The commit of status = 'inactive'.
Deactivate(s) ==
    /\ handler[s] = "deactivate"
    /\ SetStatus(AgentOf[s], "inactive")
    /\ Goto(s, "done")
    /\ UNCHANGED <<connections, heartbeat, lockQueue, wire, sender, conn, admin>>

\* The write raises; the exception is swallowed.
DeactivateFails(s) ==
    /\ Faults
    /\ handler[s] = "deactivate"
    /\ Goto(s, "failed")
    /\ UNCHANGED <<connections, heartbeat, lockQueue, wire, sender, conn, admin, status>>

-----------------------------------------------------------------------------
(* ConnectionManager.send.                                                 *)

\* Look the connection up, without the lock, and write the frame to it.
StartSend(x) ==
    /\ sender[x] = "idle"
    /\ \E a \in Agents :
         /\ connections[a] # NoSocket
         /\ conn' = [conn EXCEPT ![x] = connections[a]]
    /\ sender' = [sender EXCEPT ![x] = "sending"]
    /\ UNCHANGED <<connections, heartbeat, lockQueue, wire, handler, admin, status>>

\* send_json returns; a peer that was lost may not have been noticed yet.
SendOk(x) ==
    /\ sender[x] = "sending"
    /\ wire[conn[x]] # "closed"
    /\ sender' = [sender EXCEPT ![x] = "idle"]
    /\ conn' = [conn EXCEPT ![x] = NoSocket]
    /\ UNCHANGED <<connections, heartbeat, lockQueue, wire, handler, admin, status>>

\* send_json raises, and send calls remove.
SendFails(x) ==
    /\ sender[x] = "sending"
    /\ wire[conn[x]] # "open"
    /\ sender' = [sender EXCEPT ![x] = "purge"]
    /\ Join(x)
    /\ UNCHANGED <<connections, heartbeat, wire, handler, conn, admin, status>>

\* That remove pops the agent's registration, whichever socket it is by now.
Purge(x) ==
    /\ sender[x] = "purge"
    /\ Holds(x)
    /\ Pop(AgentOf[conn[x]])
    /\ sender' = [sender EXCEPT ![x] = "idle"]
    /\ conn' = [conn EXCEPT ![x] = NoSocket]
    /\ Release
    /\ UNCHANGED <<wire, handler, admin, status>>

-----------------------------------------------------------------------------
(* delete_agent.                                                           *)

\* Mutant: remove the registration and leave the socket to its handler.
DeleteWithoutClose(a) ==
    /\ admin[a] = "idle"
    /\ status[a] # "deleted"
    /\ connections[a] # NoSocket
    /\ admin' = [admin EXCEPT ![a] = "closing"]
    /\ UNCHANGED <<connections, heartbeat, lockQueue, wire, handler, sender, conn, status>>

\* The row exists and the agent is connected: await the close of its socket.
DeleteConnected(a) ==
    /\ admin[a] = "idle"
    /\ status[a] # "deleted"
    /\ connections[a] # NoSocket
    /\ Close(connections[a])
    /\ admin' = [admin EXCEPT ![a] = "closing"]
    /\ UNCHANGED <<connections, heartbeat, lockQueue, handler, sender, conn, status>>

\* The row exists and the agent is not connected.
DeleteOffline(a) ==
    /\ admin[a] = "idle"
    /\ status[a] # "deleted"
    /\ connections[a] = NoSocket
    /\ admin' = [admin EXCEPT ![a] = "delete"]
    /\ UNCHANGED <<connections, heartbeat, lockQueue, wire, handler, sender, conn, status>>

\* The close has ended, or failed; call remove.
DeleteClosed(a) ==
    /\ admin[a] = "closing"
    /\ admin' = [admin EXCEPT ![a] = "remove"]
    /\ Join(a)
    /\ UNCHANGED <<connections, heartbeat, wire, handler, sender, conn, status>>

AdminRemove(a) ==
    /\ admin[a] = "remove"
    /\ Holds(a)
    /\ Pop(a)
    /\ admin' = [admin EXCEPT ![a] = "delete"]
    /\ Release
    /\ UNCHANGED <<wire, handler, sender, conn, status>>

\* The commit of the DELETE.
CommitDelete(a) ==
    /\ admin[a] = "delete"
    /\ admin' = [admin EXCEPT ![a] = "idle"]
    /\ status' = [status EXCEPT ![a] = "deleted"]
    /\ UNCHANGED <<connections, heartbeat, lockQueue, wire, handler, sender, conn>>

\* The DELETE raises: 500, and the row stays.
DeleteFails(a) ==
    /\ Faults
    /\ admin[a] = "delete"
    /\ admin' = [admin EXCEPT ![a] = "idle"]
    /\ UNCHANGED <<connections, heartbeat, lockQueue, wire, handler, sender, conn, status>>

-----------------------------------------------------------------------------
(* The environment.                                                        *)

\* The agent closes its end, crashes, or its network drops.
PeerLeaves(s) ==
    /\ wire[s] = "open"
    /\ wire' = [wire EXCEPT ![s] = "lost"]
    /\ UNCHANGED <<connections, heartbeat, lockQueue, handler, sender, conn, admin, status>>

Ended == {"idle", "done", "leaked", "failed", "killed"}

\* The process restarts: everything but the database is lost.
Restart ==
    /\ Faults
    /\ \E s \in Sockets : handler[s] \notin Ended
    /\ connections' = [a \in Agents |-> NoSocket]
    /\ heartbeat' = [a \in Agents |-> NoSocket]
    /\ lockQueue' = << >>
    /\ wire' = [s \in Sockets |-> IF wire[s] = "none" THEN "none" ELSE "closed"]
    /\ handler' = [s \in Sockets |-> IF handler[s] \in Ended THEN handler[s]
                                                             ELSE "killed"]
    /\ sender' = [x \in Senders |-> "idle"]
    /\ conn' = [x \in Senders |-> NoSocket]
    /\ admin' = [a \in Agents |-> "idle"]
    /\ UNCHANGED status

-----------------------------------------------------------------------------
\* The steps of the handler that follow from the code alone.
HandlerStep(s) ==
    \/ RegisterFresh(s) \/ RegisterReplace(s) \/ FinishRegister(s)
    \/ Activate(s) \/ ActivateFails(s)
    \/ Disconnect(s) \/ RemoveSelf(s) \/ Deactivate(s) \/ DeactivateFails(s)

SenderStep(x) == SendOk(x) \/ SendFails(x) \/ Purge(x)

AdminStep(a) ==
    DeleteClosed(a) \/ AdminRemove(a) \/ CommitDelete(a) \/ DeleteFails(a)

\* What a client, a peer or an operator may do, or never do.
Request(s) ==
    Connect(s) \/ Refuse(s) \/ Heartbeat(s) \/ LoopError(s) \/ PeerLeaves(s)

Next ==
    \/ \E s \in Sockets : HandlerStep(s) \/ Request(s)
    \/ \E x \in Senders : StartSend(x) \/ SenderStep(x)
    \/ \E a \in Agents : DeleteConnected(a) \/ DeleteOffline(a) \/ AdminStep(a)
    \/ Restart

Spec == Init /\ [][Next]_vars

\* The event loop runs every task that is ready, a close handshake and a
\* database write end (with a timeout or an error at worst), and the server's
\* keepalive pings notice a lost peer.  Nothing is assumed of peers, of
\* operators, or of who calls send.
Fairness ==
    /\ \A s \in Sockets : WF_vars(HandlerStep(s))
    /\ \A x \in Senders : WF_vars(SenderStep(x))
    /\ \A a \in Agents : WF_vars(AdminStep(a))

FairSpec == Spec /\ Fairness

-----------------------------------------------------------------------------
(* Safety.                                                                 *)

\* The tasks that are inside, or waiting to enter, an "async with _lock".
Locking ==
    {s \in Sockets : handler[s] \in {"register", "closing", "remove"}}
      \cup {x \in Senders : sender[x] = "purge"}
      \cup {a \in Agents : admin[a] = "remove"}

Queued == {lockQueue[i] : i \in 1 .. Len(lockQueue)}
QueuedOnce == \A i, j \in 1 .. Len(lockQueue) : lockQueue[i] = lockQueue[j] => i = j

\* The lock of ConnectionManager is never lost and never kept: the queue
\* holds exactly the tasks inside a locking operation, each of them once, and
\* a task that awaits a close inside register is the owner.
LockDiscipline ==
    /\ Queued = Locking
    /\ QueuedOnce
    /\ \A s \in Sockets : handler[s] = "closing" => Holds(s)

\* An entry of _connections belongs to its agent, and to a handler that will
\* still reach its finally block and remove it; the exception is a handler
\* that raised in the status write before its try (agent_ws.py:49-53).
EntryHasHandler ==
    \A a \in Agents : connections[a] # NoSocket =>
        LET s == connections[a]
        IN  /\ AgentOf[s] = a
            /\ handler[s] \in {"activate", "receive", "remove", "leaked"}

\* The socket has been through register, or never got there.
PastRegister(s) == handler[s] \notin {"idle", "register", "closing"}

\* What a removal under way tells of the socket it was started for: it has
\* been registered, and the server does not take it for open any more.
RemovalJustified ==
    /\ \A x \in Senders :
         /\ sender[x] # "idle" => conn[x] \in Sockets /\ PastRegister(conn[x])
         /\ sender[x] = "purge" => wire[conn[x]] # "open"
    /\ \A a \in Agents : admin[a] \in {"closing", "remove"} =>
         \E s \in Sockets : /\ AgentOf[s] = a
                            /\ PastRegister(s)
                            /\ wire[s] = "closed"

\* The server has registered the socket and takes it for open.
Served(s) == handler[s] \in {"activate", "receive"} /\ wire[s] = "open"

\* A socket that is the only one its agent has ever opened is registered for
\* as long as it is open and served, whatever sends, deletions and other agents
\* do: only a second socket of the same agent can unregister it.
SoleSocketIsRegistered ==
    \A s \in Sockets :
        /\ Served(s)
        /\ \A o \in Sockets : (AgentOf[o] = AgentOf[s] /\ o # s) => handler[o] = "idle"
        => connections[AgentOf[s]] = s

\* The heartbeat shown for an agent is that of a socket of this agent.  It may
\* be another one than the registered socket; but then that one is not open any
\* more, or a third socket has unregistered it.
HeartbeatIsOwn ==
    \A a \in Agents : heartbeat[a] # NoSocket =>
        /\ connections[a] # NoSocket
        /\ AgentOf[heartbeat[a]] = a
        /\ (heartbeat[a] # connections[a] /\ Served(heartbeat[a])) =>
             \E s \in Sockets \ {heartbeat[a], connections[a]} :
                AgentOf[s] = a /\ PastRegister(s)

\* Why: an open and served socket is unregistered by another socket of its
\* agent only, and one that is not registered itself any more.
UnregisteredHasCause ==
    \A s \in Sockets : (Served(s) /\ connections[AgentOf[s]] # s) =>
        \E o \in Sockets \ {s} : /\ AgentOf[o] = AgentOf[s]
                                 /\ PastRegister(o)
                                 /\ connections[AgentOf[s]] # o

\* status = 'active' is never left behind silently: some handler of the agent
\* has still to write 'inactive', or failed to, or died with the process.
StatusHasHandler ==
    \A a \in Agents : status[a] = "active" =>
        \E s \in Sockets :
            /\ AgentOf[s] = a
            /\ handler[s] \in {"receive", "remove", "deactivate", "failed",
                               "killed"}

\* While register awaits a close, the entry it is about to overwrite stays,
\* and its socket is closed: nobody enters the lock in between.
ReplacingClosed ==
    \A s \in Sockets : handler[s] = "closing" =>
        /\ Holds(s)
        /\ connections[AgentOf[s]] # NoSocket
        /\ wire[connections[AgentOf[s]]] = "closed"

\* No step replaces a registered socket by another one unless the server has
\* closed it first ("Close existing connection if any", connection_manager.py).
ReplacedOnlyAfterClose ==
    [][\A a \in Agents :
         (connections[a] # NoSocket /\ connections'[a] \notin {NoSocket, connections[a]})
           => wire[connections[a]] = "closed"]_vars

(* What a sender may assume: for each agent, the specification Presence.   *)

SocketsOf(a) == {s \in Sockets : AgentOf[s] = a}

\* A socket counts from its registration on.
Link(s) ==
    IF ~PastRegister(s) THEN "none" ELSE IF wire[s] = "open" THEN "up" ELSE "down"

Present(a) == INSTANCE Presence WITH
    Sockets <- SocketsOf(a),
    registered <- connections[a],
    link <- [s \in SocketsOf(a) |-> Link(s)]

\* The lock, the close handshakes and the removals by agent id add up to this:
\* a socket is registered once, in the place of none or of one that is down.
\* (Present(a)!Spec for every agent, written as one property of the steps.)
ImplementsPresence ==
    /\ \A a \in Agents : Present(a)!Init
    /\ [][\A a \in Agents : [Present(a)!Next]_(Present(a)!vars)]_vars

-----------------------------------------------------------------------------
(* Liveness.                                                               *)

\* An accepted socket gets through register, or the process dies: nobody
\* keeps the lock and no two tasks wait for each other.
ConnectIsServed ==
    \A s \in Sockets :
        handler[s] \in {"register", "closing"}
          ~> handler[s] \notin {"register", "closing"}

\* The agent has no socket that the server would still serve.
Away(a) ==
    \A s \in Sockets :
        (AgentOf[s] = a /\ handler[s] \in {"register", "closing", "activate", "receive"})
          => wire[s] # "open"

\* Once an agent is away, its status stops being 'active', unless it comes
\* back, or a handler could not write, or died with the process.
DisconnectIsRecorded ==
    \A a \in Agents :
        Away(a) ~> \/ ~Away(a)
                   \/ status[a] # "active"
                   \/ \E s \in Sockets : /\ AgentOf[s] = a
                                         /\ handler[s] \in {"failed", "killed"}

-----------------------------------------------------------------------------
(* Two claims of the repository that the code does not keep.               *)

\* No handler is between two of its steps.
Settled ==
    /\ \A s \in Sockets : handler[s] \in Ended \cup {"receive"}
    /\ \A x \in Senders : sender[x] = "idle"
    /\ \A a \in Agents : admin[a] = "idle"

Serving(s) == handler[s] = "receive" /\ wire[s] = "open"

\* An agent whose socket is open and served is registered
\* (tests/test_websocket.py: is_connected after connecting).
LiveSocketIsRegistered ==
    Settled => \A s \in Sockets : Serving(s) => connections[AgentOf[s]] # NoSocket

\* "Agent goes 'active' on connect, 'inactive' on disconnect" (info.py): an
\* agent with a served socket is not shown inactive.
StatusFollowsConnection ==
    Settled => \A s \in Sockets : Serving(s) => status[AgentOf[s]] # "inactive"
=============================================================================
