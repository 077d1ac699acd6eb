# Clawcierge in TLA+

Clawcierge is a registry of agents and a switch between them. An agent opens a
WebSocket to the platform; a sender posts a request for the agent's handle;
the platform checks the request against the agent's policy and capability
contract, stores it, forwards it over the WebSocket, and records the agent's
acknowledgement and result in the stored row, which the sender polls.

The server is one asyncio process over PostgreSQL. Its code is short, and its
difficulty is in what may happen at every `await`: two WebSockets of one agent,
a sender and a result, two uploads, a deletion and a reconnect all interleave,
and what ties them together is a dictionary behind a lock, two status columns
that several tasks write, and row locks. That is what these modules are about.

## 1. Inventory

| Component (source) | State | Operations | Interacts with | What makes it hard |
|---|---|---|---|---|
| Connection manager (`services/connection_manager.py`) | `_connections`: agent → socket; `_lock` | `register` (closes a predecessor), `remove`, `is_connected`, `send`, `update_heartbeat`, `get_connection` | called by the WebSocket handler, `submit_request`, `delete_agent` | a close awaited with the lock held; `send` looks up without the lock; `remove` goes by agent id, not by socket |
| WebSocket handler (`routes/agent_ws.py`) | `agents.status`; one task per socket | authenticate, accept, register, set active, receive loop, remove, set inactive | manager, request tracker, agent | several handlers of one agent live at once; writes that fail outside, or swallowed inside, a `try` |
| Deletion (`routes/admin.py`) | the agent's row | close the socket, remove, delete | manager, WebSocket handler | an agent that reconnects meanwhile |
| Request submission and polling (`routes/requests.py`) | `requests` rows | submit, poll | registry, pipeline, manager, tracker | check, commit, send and status write are separate awaits |
| Request tracker (`services/request_tracker.py`) | `requests.status`, `.result`, `.expires_at` | `create_request`, `update_status`, `expire_stale_requests` | submission, WebSocket handler | unconditional UPDATEs from two tasks; expiry without a caller |
| Agent SDK (`agent_sdk/client.py`) | the current socket, `_running`, backoff | `connect`, `disconnect`, heartbeats, message loop, `_handle_request`, HTTP helpers | WebSocket handler | reconnection, answering exactly once |
| Uploads (`routes/capabilities.py`, `routes/policies.py`) | versioned rows, `is_active` | upload | read by `submit_request` | concurrent read-deactivate-insert transactions |
| Enforcement pipeline (`pipeline/`) | none | `execute_pipeline`, two stages | `submit_request` | time limits on threads that run on; fail-closed |
| Registry and directory (`services/agent_registry.py`, `routes/agents.py`, `routes/directory.py`) | `agents`, `handles` | create, look up, search | keys, deletion | check then insert, in a transaction that waits for others |
| API keys (`services/key_manager.py`, `middleware/auth.py`) | `api_keys` | issue, validate | every route | keys outlive their agent |
| Database sessions (`database.py`) | the engine's pool of connections | taken at a handler's first statement, given back at its end | every handler | a bounded pool that is held while waiting for row locks and threads |
| Admin pages, information, health, settings, error mapping, schemas, migrations | none of their own | reads, wiring | | |

What each component has to get right:

* **Connection manager and handler.** The lock is never lost, kept, or waited
  for in a circle. An entry belongs to a socket whose handler will remove it. A
  served socket is registered. A predecessor is closed before it is replaced.
  `agents.status` follows the connection. A heartbeat is credited to its agent.
* **Requests.** A row exists before anyone can answer about it. Nothing is
  recorded after a result, and a result never changes. A final status is final.
  A pending row is somebody's business. What is accepted is answered, and what
  is not answered expires.
* **Uploads.** There is one active version, it is the newest, there is never
  none, and uploads do not block each other. A request is checked against
  versions that were current, and never against a contract without its policy.
* **Database sessions.** The pool is never exhausted for good.
* **Pipeline.** A request passes only if every stage passed in time,
  whatever a stage raises; whatever it waits for, a request is decided. (Stages that
  overrun can starve later requests: the limit then rejects these.)
* **Registration.** A handle belongs to one agent; an agent never exists
  without its handle and key; a key that was returned works. Registrations of one
  handle do not block each other.
* **SDK.** The agent comes back until `disconnect`, which ends its session; one
  heartbeat task per session; the backoff stays bounded.

`PROJECT.json` lists the hazards of the code by line, and which property would
catch each of them; the ones without a property say why.

## 2. Modules

| Module | Models | Uses |
|---|---|---|
| `Presence` | abstract: the registration and the links of one agent, as a sender sees them | |
| `AgentChannel` | connection manager, WebSocket handler, `send`, heartbeats, `delete_agent`, `agents.status` | implements `Presence` |
| `MCAgentChannel` | its instances for TLC | |
| `AgentChannelProofs` | its theorems | |
| `RequestRecord` | abstract: the row of one request, as the sender who polls it sees it | |
| `RequestLifecycle` | `submit_request`, request tracker, ack and result branches, SDK message handling | steps of `Presence`; implements `RequestRecord` |
| `MCRequestLifecycle` | its symmetry for TLC | |
| `RequestLifecycleProofs` | its theorems | |
| `VersionedUpload` | one agent's capability or policy uploads | |
| `VersionedUploadProofs` | its theorems | |
| `RequestAdmission` | the reads of `submit_request` and of the admin page, between uploads; the pool of connections | two of `VersionedUpload` |
| `MCRequestAdmission` | its instance for TLC | |
| `RequestAdmissionProofs` | its theorems | |
| `Directory` | abstract: who owns a handle | |
| `Registration` | `register_agent`, and the transaction of `delete_agent` | implements `Directory` |
| `RegistrationProofs` | its theorems | |
| `ClawciergeAgent` | the SDK's `connect`, heartbeats and `disconnect` | |
| `ClawciergeAgentProofs` | its theorems | |
| `Onboarding` | an agent program among registrations and deletions | `Registration`, `ClawciergeAgent` |
| `OnboardingProofs` | its theorems | |
| `Pipeline` | `execute_pipeline`, its thread pool, the two stages | |
| `MCPipeline` | its contexts for TLC | |
| `PipelineProofs` | its theorems | |

An action is the code between two awaits (in the server) or one SQL statement
(in an upload or a registration); each module has one action per such piece, and a program
counter per task says at which await the task stands. Definitions marked
*Mutant* are plausible mistakes in the definition that follows them; no
specification uses them, they document what each property is able to catch.

### Presence

What a sender may rely on: a socket is registered once, in the place of none or
of one that is down; an entry may vanish at any time, and so may a socket.
`AgentChannel` implements this for every agent (`ImplementsPresence`): `registered` is
the agent's entry, and a socket counts as a link once it has passed `register`.
The sockets of `RequestLifecycle` change by the actions of an instance of it and by no
other, by construction, so what is shown there rests on nothing but this. The two
modules meet here: no property of a request depends on how the lock works.

### AgentChannel

* `connections` is `_connections`; `lockQueue` is `_lock`: asyncio's lock is
  first come first served, so the queue of tasks that have called a locking
  operation, owner first, is the whole state of the lock.
* `handler[s]` is where `agent_websocket` stands for socket `s`: waiting in
  `register`, awaiting the predecessor's close (`closing`, lock held), about to
  commit 'active' (`activate`), in the loop (`receive`), waiting in `remove`,
  about to commit 'inactive' (`deactivate`), ended (`done`). `leaked` is a
  handler that raised before its `try`, `failed` one whose 'inactive' was
  refused, `killed` one that died with the process.
* `wire[s]` is the transport as the server sees it: `lost` is a peer that is
  gone and perhaps not noticed, so a send on it may succeed or raise.
* `sender`/`conn` are calls of `ConnectionManager.send` with their local
  variable, `admin` calls of `delete_agent` (one at a time for an agent).
* `heartbeat[a]` is whose heartbeat `last_heartbeat` is. `update_heartbeat` goes by
  agent id, so the socket may be another one than the registered one;
  `HeartbeatIsOwn` says which, and when.
* `status` is `agents.status`; an UPDATE of a deleted agent changes nothing.
* Authentication is a choice between `Connect` and `Refuse`. `api_keys` has no
  foreign key to `agents`, so a deleted agent may still connect.

### RequestLifecycle

* `row`, `result`, `expired` are the columns of `requests`; `submit[r]` is where
  `submit_request` stands and `conn[r]` the socket its `send` looked up.
* A *lane* is what is between the server and the agent on one socket: frames
  going down, the request the agent is working on, frames coming up.
* The agent program is `_message_loop`: one frame at a time, ack, one answer.
  The handler is assumed to return a dictionary, as its signature says.
* Sockets come and go as `Channel`, an instance of `Presence`, allows: a socket may be
  unregistered while it is open, which is what `AgentChannel` shows the code to
  do, and is replaced only when it is down.
* `SweeperRuns` says whether anything calls `expire_stale_requests`. In the
  repository nothing does; runs with `TRUE` show what the function is good for.
* `SendOk` also covers a frame that the transport took and the network lost.

### RequestRecord

What a sender may rely on when it polls: the row appears as 'pending'; the POST writes its
status once, at its end, over whatever is there by then; the agent acknowledges only
before it has answered, and answers once; what nobody has acknowledged may expire.
`RequestLifecycle` implements this for every request (`ImplementsRecord`): `status` and
`answer` are the columns, `submitting` says that the POST has not responded. That
the POST may write last, over a final status, is in the abstract specification
because it is in the code (see 3 below).

### VersionedUpload

* `upload[u]` is where an upload stands, `current[u]` its `current_version`,
  `active` the committed active rows. `matched[u]` are the rows that its UPDATE found
  and has not passed yet, `at[u]` the one it has come to, `locked[u]` those it has
  deactivated. An upload inserts one row, so it names it. `seen[u]` is a history variable:
  the uploads that had succeeded when `u` began. A handler that ends loses its
  local state (`Leave`), and one that failed its history.
* READ COMMITTED: a statement sees what was committed when it started; an
  UPDATE goes from row to row (`LockRow`), keeps the locks it has while it waits for
  the transaction that has locked the next one, and then looks at that row again. No
  order of the scan is fixed by SQL, and none is assumed. Of those who wait for the same
  row, any may get it next.
* Uploads that wait for each other in a circle (`InCircle`) do so until PostgreSQL's
  deadlock detector makes the statement of one of them raise (`Victim`): the handler
  answers 500, as after any other error (`Fail`).

### RequestAdmission

* Contracts are uploaded as `VersionedUpload` says, policies as `Policies`, an instance
  of it. `reader[r]` is a handler between them: it has its session, has read the contract,
  has read the policy. `submit_request` takes one contract of two, the admin page
  raises, and both raise for two policies (`MultipleResultsFound`).
* `InUse` are the handlers that hold a connection, `PoolFree` the guard of a
  handler's first statement. A handler that waits for a row lock or for the
  pipeline's threads keeps its connection.
* `began` and `offered` are history: what was committed when a reader, or the
  upload of a contract, began.
* Whoever grants a capability can put the policy that restricts it in force first. That
  `submit_request` reads the contract first is what makes this enough
  (`PolicyBeforeCapability`): in the other order a request could be checked
  against the new contract and the old policy.
* What a handler does after its own commit is in `RequestLifecycle`, without the pool.

### Directory, Registration, Onboarding

* `Directory`: a handle has at most one owner, who keeps it until deletion.
* `creation[c]` is where `register_agent` stands: the check of the handle, the flush
  of `agents`, the flush of `handles` and `api_keys`, the commit, the refresh. A
  creation is also the name of its agent. `agents`, `handles` and `keys` are committed
  rows only. `InsertHandle` waits while another transaction has inserted or deleted
  the same handle (`KeyIsBusy`), as PostgreSQL's unique index does, and then looks again.
* `removal[c]` is the transaction that deletes an agent. `handles` goes
  with the agent; `api_keys` has no foreign key, and stays. An agent whose deletion
  failed is not deleted again: a bound, named `"kept"`.
* `Onboarding` runs `Registration` beside `ClawciergeAgent`: the program starts with the
  key its own registration returned (`Own`), and a session is accepted only while the
  key authenticates. It shows that neither changes what is true of the other.

### Pipeline

* `phase`, `stage` and `future` are where an `execute_pipeline` stands, the stage
  it awaits and the outcome of that stage's future; `queue` and `thread` are the
  event loop's default executor. `Timeout` is `wait_for` giving up: the job
  leaves the queue, but a thread that has it goes on, and may never end.
* The stages are operators with the loops' early returns: the first rule that
  stops, the first capability for the action, the first constraint that fails
  or can not be compared. What an expression or a schema evaluates to is given
  by the context, since simpleeval and jsonschema decide it.
* `Permitted` says the same without loops or stages; it is what README.md:21
  ("fail-closed") is measured against.

### ClawciergeAgent

* `loop` is where `connect` stands: in an attempt, in a session (`receiving`, or
  `handling` a message), awaiting the cancelled heartbeat task (`stopping`),
  asleep, or ended. `running`, `backoff` and `current` are `_running`, the local
  `backoff` and `_ws`; `beat[s]` is the heartbeat task of session `s`.
* `call[c]`, `target[c]` are calls of `disconnect` by signal handlers, at any time.
* `late` is a history variable: the sessions accepted after `disconnect`. The
  code allows one: `disconnect` does not reach an attempt that is under way
  (`client.py:73-76`), and `connect` does not look at `_running` before it serves
  what it has opened. `SurvivorWasLate` and `OneLateSession` say that this is
  all that can go wrong; a second `disconnect` closes that session as well.

## 3. Runs

| Run | Instance | Shows |
|---|---|---|
| `channel` | 1 agent, 3 sockets, 1 sender, faults and restarts | type, lock, registration, heartbeat and status invariants, replacement; `Presence` is implemented |
| `channel_live` | 1 agent, 2 sockets, 1 sender, faults, fairness | `register` ends; 'active' does not outlive the connection |
| `channel_registered` | 2 sockets, no fault | **violated**: a served agent is not registered |
| `channel_status` | 2 sockets, no fault | **violated**: a served agent is 'inactive' |
| `requests` | 2 requests, 2 sockets, faults, sweeper | who changes a row, and when; `RequestRecord` is implemented |
| `requests_live` | 2 requests, 1 socket, faults, no sweeper, fairness | accepted requests are answered; a row that gets no result has a cause |
| `request_result` | 1 request, no fault | **violated**: a result with status 'dispatched' |
| `request_expiry` | 1 request, no sweeper, fairness | **violated**: an expired request stays as it is |
| `uploads` | at most 5 of 4 uploads of a contract, 4 of a policy and 1 reader, 3 connections, faults, deadlocks, fairness | newest wins, never none, every upload ends; what is read is current and in the safe order; the pool recovers |
| `upload_one` | 3 uploads, no fault | **violated**: two active versions |
| `agent_client` | 2 sessions, 2 calls of `disconnect`, 2 registrations of 1 handle, their deletions, faults, fairness | one heartbeat, retries, what survives `disconnect`; complete agents, working keys, `Directory` is implemented |
| `pipeline` | 2 requests of 13 kinds, 1 thread, fairness | fail-closed, limits inclusive, jobs accounted for, every request decided |

**Bounds.** A socket, a request, an upload, a registration and a session are used
once, so their number bounds a behaviour; `MaxBegun`, in `uploads`, is the only other bound.
Three sockets are an old one, its successor, and a third that replaces or races
the second while the first one's handler is still removing; the sender adds a
stale `send` and the deletion a fourth actor. Agents share nothing but the lock;
the runs have one, and the theorems cover any number. Two requests
over two sockets give every order of frames in a lane and a request sent on a
socket that is no longer registered.

Two uploads of one table that wait for each other in a circle need two active rows, which
only two earlier uploads that overlapped can have left (`DeadlockNeedsTwo`): four
uploads, of a contract or of a policy, and a fifth handler that reads beside them or
waits behind them. Five handlers over three connections exhaust the pool, by uploads that
wait for each other's rows as well as by readers. In `uploads` alone a constraint is used,
`Bounded`: at most `MaxBegun` handlers begin, whichever they are, and the uploads of a
table begin in the order of their numbers. They are interchangeable, and a set of
behaviours that contains one contains it with the names exchanged. To begin is subject to
no fairness, so the constraint makes no run of the system end early that fairness would
continue, and the liveness properties, which say the same of every upload, are not
weakened. (Symmetry sets would not be sound for these.) Circles do occur in
this instance.

With one thread, a single overrun blocks the queue; two requests are one that
overruns and one that starves, finishes late or is cancelled behind it. The 13
contexts take every branch of both stages, with values below, at and above a limit.
Two sessions are one that is lost and its successor, or one opened late; two
calls of `disconnect` overlap; refusals are unbounded, since they change the delay
only. Two registrations of one handle are every way in which two can meet: at
the check, at the index, at a deletion that frees the handle. Handles share nothing.
Sockets and requests are interchangeable, and the runs `channel` and `requests` use that symmetry;
the liveness runs do not.

**Deadlock** is not checked by TLC's option: once every socket, request and
upload is used up the system has nothing left to do. That nobody waits for ever
is `ConnectIsServed`, `UploadEnds`, `PoolRecovers` and `CreationEnds`. Uploads can deadlock
in the database, which ends one of them; `UploadEnds` says that this, and the end of the
others, is enough for all, and a rollback that keeps its locks violates it.

**Fairness.** Weak fairness of each task of the server: asyncio runs every ready
task, a database statement ends or raises, a close handshake ends by its
time-out, and uvicorn's keepalive pings notice a lost peer. In
`RequestLifecycle` also of the agent program on an open link (its handler
returns) and of time; none of a sweeper, since nothing runs one. None of peers,
operators, senders or links.
An upload, a registration or a deletion that has begun goes on, since PostgreSQL ends every
statement that waits for nobody; and PostgreSQL breaks every circle of uploads. So does a
reader that has a connection; it may be waiting for the pipeline, which is why `RequestIsDecided` matters here. That a handler ever gets a
connection is not assumed, and `PoolRecovers` says that one is free again and again.
In `Pipeline` the event loop and its timers run; nothing is assumed of threads,
so `RequestIsDecided` holds even if no stage ever ends. In `ClawciergeAgent`: the
agent's own tasks, an attempt (which has a time limit), a request handler.

### What the failing runs say

1. **A replaced socket's handler unregisters its successor**
   (`agent_ws.py:86`). `register` closes the old socket while it holds the lock;
   the old handler's `remove` queues behind it and pops the new entry, since it
   goes by agent id. The agent is served but gets no request.
2. **The same handler writes 'inactive' last** (`agent_ws.py:90`).
3. **'dispatched' overwrites 'completed'** (`requests.py:105`) when the agent
   answers before `submit_request` resumes.
4. **Nothing expires requests** (`request_tracker.py:61` has no caller).
5. **Concurrent uploads leave two active versions** (`capabilities.py:36`,
   `policies.py:36`), and `requests.py:50` raises for two active policies.

The passing properties and the theorems say how far each of these goes, for any number
of actors:

* 1 needs a second socket of the agent that has passed `register` and is not
  registered either (`UnregisteringHasCause`), and 2 a second handler that has run to
  its end (`InactivityHasCause`). An agent with one socket has neither
  (`SoleSocketIsRegistered`, `OneSocketIsSound`).
* Only the request's own `submit_request` can do 3, and only before it responds
  (`FinalUntilSubmit`); whatever hides an outcome was its last write
  (`OutcomesAreHiddenBySubmit`).
* Two versions are both active only if neither upload had succeeded when the other
  began (`OverlapLeavesTwo`); an upload that begins after another ended is never part
  of 5 (`LaterSupersedes`). A deadlock between uploads is a consequence of 5: it takes
  two active versions (`DeadlockNeedsTwo`).
* An unfinished row (4) that nobody answers or times out has one of three causes: a write
  of its POST was refused, the process restarted, or its socket is lost (`UnfinishedHasCause`).

## 4. Theorems

TLAPS checks them for every value of the constants, that is any number of
agents, sockets, senders, requests, uploads, readers, registrations and handles, from the named assumptions
of the modules only: disjoint names of tasks (`RequestAdmission` names every handler
once, since its pool counts names), a "none" value that is no socket, session or
job, a pool of at least one connection, contexts that are contexts, and an agent whose
registration is one of the registrations (`OwnAssumption`).

**AgentChannelProofs.** The invariant is `IndInv`: `TypeOK`,
`LockDiscipline`, `EntryHasHandler`, `StatusHasHandler`, `ReplacingClosed`,
`RemovalJustified` and `SoleSocketIsRegistered`, each shown to be preserved from the
ones before it. The chain is: the queue is exactly the set of tasks
in locking operations (`LockDiscipline`), so that a task which awaits a close keeps
the lock; hence the entry it is about to overwrite is still there and closed
(`ReplacingClosed`), hence an entry is overwritten only after a close
(`ReplacementCloses`). `SoleSocketIsRegistered` needs to know why every pending
removal was started (`RemovalJustified`): some socket of that agent was
already lost or closed. `HeartbeatIsOwn` rests on `UnregisteredHasCause`: an open
socket that is not registered has been unregistered by another one, which is not
registered itself any more. `ChannelImplementsPresence` maps every step to one of
`Presence` or a stutter, an agent at a time: the three ways an entry changes
have a lemma each (`MapsToAttach`, `MapsToDetach`, `MapsToLinkDown`), and
`RegisterReplace` maps to `Attach` because of `ReplacingClosed`. `InactiveHasCause` is
inductive with the types: the last write of a handler is 'inactive', and
its end is remembered in `handler`. With `SoleSocketIsRegistered` it gives
`OneSocketIsSound`.

**RequestLifecycleProofs.** `AnsweredIsQuiet` is not inductive: that no second
answer is in flight depends on what the agent will still send. `OneLane` says
it: a request is on at most one lane, and in a lane it is delivered once, then
worked on, then acked, then answered, in that order (`LaneOK`). `Phases` ties
`submit` to the row, and a final status to a result. From `IndInv = TypeOK /\
OneLane /\ Phases` follow the row before the frame, the quiet after the result,
the finality of the result and of a final status, and why a row is pending.
Lemmas on one lane (`LaneSends` to `LaneEmpty`) do the sequence reasoning once.
`RowsAreRecords` maps every step to a step of `RequestRecord` or a stutter, a request at
a time: the steps of `submit_request` have a lemma (`SubmitIsRecord`); `OneLane` says that an
ack that is read finds no result, and that an answer that is read is the first one; and
`Phases` that a POST which is sending has a row. `OnlySubmitHides` is inductive on top
of `IndInv`.

**VersionedUploadProofs.** `ReadCovers` is the strengthening of
`LaterSupersedes`: what a running upload has read covers every upload that it
must supersede. That an active row is a committed one gives `NeverWithout`.
`OverlapLeavesTwo` follows from `LaterSupersedes`, read backwards. `LocksHold` (the rows
that an uncommitted upload has deactivated are its own, and active for all others) is
inductive with the types, row by row (`RowsAreTakenOnce`). It gives `DeadlockNeedsTwo`: in a
circle two uploads hold different rows (`KnotNeedsTwo`), and both rows are active. And that
waiting never blocks all of them: who waits, waits for an upload that is under way, so if
all of these waited they would be a knot, and the smallest knot in it, which exists since
they are finitely many, is a circle (`SomeUploadMoves`).

**RequestAdmissionProofs.** Each step is one of `VersionedUpload` or a stutter for the contracts,
and so for the policies (`AdmissionRunsUploads`, `AdmissionRunsPolicies`); an instance of
`VersionedUploadProofs` gives the policies the invariant of the contracts (`TablesOK`,
`VersionsAreKept`). `HistoryCommitted` (what was committed when a handler
began stays committed) and `ContractIsCurrent` (what has been read stays as
good as it was, while the policy is read) are the strengthening for `RequestsSeeCurrent` and
`PoliciesComeFirst`; both use
that no committed upload has an active version among those it superseded (`LaterSupersedes`).
`PoolIsNeverStuck` bounds the connections in use step by step (`InUseGrows`,
`InUseShrinks`). That some holder of a connection can go on (`SomeoneGoesOn`) is
`SomeUploadMoves` for each table: whoever is waited for has a connection as well, contracts
and policies lock rows of their own tables only, and a reader locks none.

**RegistrationProofs.** The invariant is `RowsFollowHandlers`: each table is what the
handlers have committed and no deletion has taken, and a handler that has
inserted a handle is the only one to hold it. The complete agents, the working keys and
`RegistrationIsDirectory` (a commit maps to `Claim`, a deletion to `Release`, all else to a
stutter) follow from it. So does `WaitsDoNotCycle`: the key of a handle is held by one
transaction at most, an insertion or a deletion, and it is past every statement that waits.

**OnboardingProofs.** A step is a step of one part and a stutter of the other
(`PartStep`), so `Onboarding` implements both parts (`OnboardingRunsAgent`,
`RunsRegistration`), and the theorems of `RegistrationProofs`
hold in it by instance, and those of `ClawciergeAgentProofs` (`AgentInvariantsCarryOver`).
`ProgramsHaveTheirKey` needs both: the program starts with a key that was returned
(`StartedWithKey`), a POST that has answered stays answered (`CreatedStays`), and a
returned key authenticates for ever (`ReturnedKeysWork`).

**PipelineProofs.** `SandboxPasses` and its companions show that the first-match
loops compute the declarative `Permitted`, by the least element of a set
of positions (`StagesDecide`, for every context). `JobsAccounted` and `Verdicts` (what is decided is what the stages
said) are inductive together: a thread's outcome can be taken for the current
stage's only because a waiting request has one job. Fail-closed, and its
converse, follow for pools of any size and any rules and contracts.

**ClawciergeAgentProofs.** `LateIsLast` (after a late session the loop only ends)
and `HasSocket` strengthen the invariants; the bound on the delay is `Doubled`.
`AwaitsEndingTask` is proved on top of them: the end of a session finds its heartbeat
task alive or ended, and cancels one that is alive, so that `connect` never awaits one
that goes on.

Each invariant was checked by TLC on the instance of a run as well, those
that no run lists too: `InactiveHasCause` and `SoleSocketIsSound` on `channel`,
`OnlySubmitHides` and `Phases` on `requests`, `TwoActiveOverlapped`, `LocksHold`, `PoolOK`
and the statement of `DeadlockNeedsTwo` on `uploads`, `HeldOnce`, `RunsWithItsKey` and `AwaitsEndingTask` on `agent_client`.

**Only model-checked.** The liveness properties (of both live runs, `UploadEnds`,
`PoolRecovers`, `CreationEnds`, `RequestIsDecided`, `DisconnectEndsLoop`,
`ComesBack`): liveness under fairness and
ENABLED are out of the prover's reach. What is proved of them is their safety side,
that not all who wait do so for each other: `LockIsDisciplined` for `ConnectIsServed`,
`RowsAreTakenOnce`, `DeadlockNeedsTwo` and `PoolIsNeverStuck` for `UploadEnds` and `PoolRecovers`,
`WaitsDoNotCycle` for `CreationEnds`, `JobsAreAccounted` for `RequestIsDecided`,
`HeartbeatIsAwaited` for `DisconnectEndsLoop` and `ComesBack`. The failing properties have
counterexamples and no theorem.

## 5. Not modelled, and the plan

Left out for good:

* the hashing of keys and `expires_at` and `revoked_at`, which nothing sets; the login
  cookie and the other admin pages, which only read; HTML and information
  pages, settings, error mapping, schemas: no state, or pure data;
* the regular expression for handles (`Invalid` is a free choice) and the
  search of the directory, which reads;
* the SDK's HTTP helpers: single calls without state;
* the migrations, but for the keys and cascades that `Registration` and
  `VersionedUpload` take from them.

Abstracted, and worth a look when the code changes:

* the WebSocket handler and `delete_agent` hold a connection of the pool as well (the
  hazard at `agent_ws.py:47`), also while they wait for the manager's lock. Nobody asks for a
  connection with that lock held, so this delays and does not block;
* an agent deleted while a request for it is being admitted or an upload runs
  (the hazard at `requests.py:85`): `AgentChannel` and `Registration` have the deletion,
  `RequestAdmission` does not;
* a deletion is one at a time for an agent, and not repeated after a failure;
* `AgentChannel` and `RequestLifecycle` meet in `Presence`, not in one state space: that the
  frames of a request are on the links of `AgentChannel` is by reading.

Next, if the project is continued: the deletion in `RequestAdmission` (an action that
takes all rows of an agent), the pool in `AgentChannel`, and a proof that
`AdmittedIsPermitted` and `RequestsSeeCurrent` together describe what
`submit_request` admits.
