--------------------------- MODULE ClawciergeAgent ---------------------------
(***************************************************************************)
(* The agent's side of the connection: connect of agent_sdk/client.py, its *)
(* retries, the heartbeat task of each session, and disconnect, which a    *)
(* signal handler runs in a task of its own.                               *)
(*                                                                         *)
(* The platform accepts or refuses an attempt, and closes a session, when  *)
(* it likes.  What is said in a session is the subject of                  *)
(* RequestLifecycle; here a message only keeps the loop busy.              *)
(***************************************************************************)
EXTENDS Naturals

CONSTANTS
    Sessions,  \* the sockets that the platform may accept, one attempt each
    Calls,     \* the calls of disconnect
    NoSession  \* no socket yet

ASSUME NoSessionAssumption == NoSession \notin Sessions

VARIABLES
    loop,    \* where connect stands
    running, \* self._running
    backoff, \* the delay before the next attempt, in seconds
    current, \* self._ws
    socket,  \* the state of each socket
    beat,    \* the heartbeat task of each session
    call,    \* where each call of disconnect stands
    target,  \* the socket that it closes
    late     \* history: the sessions accepted after disconnect was called

vars == <<loop, running, backoff, current, socket, beat, call, target, late>>

Delay == {1, 2, 4, 8, 16, 30}

TypeOK ==
    /\ loop \in {"idle", "connecting", "receiving", "handling", "stopping", "sleeping", "ended"}
    /\ running \in BOOLEAN
    /\ backoff \in Delay
    /\ current \in Sessions \cup {NoSession}
    /\ socket \in [Sessions -> {"unused", "open", "closed"}]
    /\ beat \in [Sessions -> {"none", "alive", "cancelled", "ended"}]
    /\ call \in [Calls -> {"idle", "closing", "done"}]
    /\ target \in [Calls -> Sessions \cup {NoSession}]
    /\ late \in SUBSET Sessions

Init ==
    /\ loop = "idle"
    /\ running = FALSE
    /\ backoff = 1
    /\ current = NoSession
    /\ socket = [s \in Sessions |-> "unused"]
    /\ beat = [s \in Sessions |-> "none"]
    /\ call = [c \in Calls |-> "idle"]
    /\ target = [c \in Calls |-> NoSession]
    /\ late = {}

-----------------------------------------------------------------------------
(* connect.                                                                *)

Connect ==
    /\ loop = "idle"
    /\ loop' = "connecting"
    /\ running' = TRUE
    /\ UNCHANGED <<backoff, current, socket, beat, call, target, late>>

\* The attempt succeeds, whatever happened to self._running meanwhile.
Accepted(s) ==
    /\ loop = "connecting"
    /\ socket[s] = "unused"
    /\ loop' = "receiving"
    /\ backoff' = 1
    /\ current' = s
    /\ socket' = [socket EXCEPT ![s] = "open"]
    /\ beat' = [beat EXCEPT ![s] = "alive"]
    /\ late' = IF running THEN late ELSE late \cup {s}
    /\ UNCHANGED <<running, call, target>>

\* The end of the loop's body: to sleep, or out of the loop.
Retry == loop' = IF running THEN "sleeping" ELSE "ended"

\* Mutant: what the attempt raises is not caught.
RefusedRaises ==
    /\ loop = "connecting"
    /\ loop' = "ended"
    /\ UNCHANGED <<running, backoff, current, socket, beat, call, target, late>>

Refused ==
    /\ loop = "connecting"
    /\ Retry
    /\ UNCHANGED <<running, backoff, current, socket, beat, call, target, late>>

\* Mutant: while True, and self._running is only looked at before a sleep.
WakeAnyway ==
    /\ loop \in {"sleeping", "ended"}
    /\ backoff' = IF backoff * 2 <= 30 THEN backoff * 2 ELSE 30
    /\ loop' = "connecting"
    /\ UNCHANGED <<running, current, socket, beat, call, target, late>>

\* Mutant: the delay is not capped.
WakeUncapped ==
    /\ loop = "sleeping"
    /\ backoff' = backoff * 2
    /\ loop' = IF running THEN "connecting" ELSE "ended"
    /\ UNCHANGED <<running, current, socket, beat, call, target, late>>

\* The sleep ends, and self._running is looked at again.
Wake ==
    /\ loop = "sleeping"
    /\ backoff' = IF backoff * 2 <= 30 THEN backoff * 2 ELSE 30
    /\ loop' = IF running THEN "connecting" ELSE "ended"
    /\ UNCHANGED <<running, current, socket, beat, call, target, late>>

Receive ==
    /\ loop = "receiving"
    /\ socket[current] = "open"
    /\ loop' = "handling"
    /\ UNCHANGED <<running, backoff, current, socket, beat, call, target, late>>

\* The request handler returns, or raises and the message loop logs it.
Handled ==
    /\ loop = "handling"
    /\ loop' = "receiving"
    /\ UNCHANGED <<running, backoff, current, socket, beat, call, target, late>>

\* Mutant: the heartbeat task is not cancelled, nor waited for.
AbandonHeartbeat ==
    /\ loop = "receiving"
    /\ socket[current] = "closed"
    /\ Retry
    /\ UNCHANGED <<running, backoff, current, socket, beat, call, target, late>>

\* The message loop meets the end of the socket, and cancels the heartbeat.
EndSession ==
    /\ loop = "receiving"
    /\ socket[current] = "closed"
    /\ loop' = "stopping"
    /\ beat' = [beat EXCEPT ![current] = IF @ = "alive" THEN "cancelled" ELSE @]
    /\ UNCHANGED <<running, backoff, current, socket, call, target, late>>

\* The heartbeat task has been awaited.
Stopped ==
    /\ loop = "stopping"
    /\ beat[current] = "ended"
    /\ Retry
    /\ UNCHANGED <<running, backoff, current, socket, beat, call, target, late>>

-----------------------------------------------------------------------------
(* The heartbeat task, which sends on self._ws.                            *)

\* Mutant: the task goes on whatever its send raises, its cancellation included.
BeatSwallows(s) ==
    /\ beat[s] = "cancelled"
    /\ beat' = [beat EXCEPT ![s] = "alive"]
    /\ UNCHANGED <<loop, running, backoff, current, socket, call, target, late>>

\* The task ends when it is cancelled, or when its send raises.
BeatEnds(s) ==
    /\ \/ beat[s] = "cancelled"
       \/ beat[s] = "alive" /\ socket[current] = "closed"
    /\ beat' = [beat EXCEPT ![s] = "ended"]
    /\ UNCHANGED <<loop, running, backoff, current, socket, call, target, late>>

-----------------------------------------------------------------------------
(* disconnect.                                                             *)

\* Mutant: disconnect stops the retries and leaves the session.
DisconnectOnly(c) ==
    /\ call[c] = "idle"
    /\ running' = FALSE
    /\ call' = [call EXCEPT ![c] = "done"]
    /\ UNCHANGED <<loop, backoff, current, socket, beat, target, late>>

Disconnect(c) ==
    /\ call[c] = "idle"
    /\ running' = FALSE
    /\ call' = [call EXCEPT ![c] = IF current = NoSession THEN "done" ELSE "closing"]
    /\ target' = [target EXCEPT ![c] = current]
    /\ UNCHANGED <<loop, backoff, current, socket, beat, late>>

\* The close handshake ends, or times out; a closed socket stays closed.
Closed(c) ==
    /\ call[c] = "closing"
    /\ socket' = [socket EXCEPT ![target[c]] = "closed"]
    /\ call' = [call EXCEPT ![c] = "done"]
    /\ UNCHANGED <<loop, running, backoff, current, beat, target, late>>

\* The platform or the network ends a session.
PeerCloses(s) ==
    /\ socket[s] = "open"
    /\ socket' = [socket EXCEPT ![s] = "closed"]
    /\ UNCHANGED <<loop, running, backoff, current, beat, call, target, late>>

-----------------------------------------------------------------------------
LoopStep ==
    \/ \E s \in Sessions : Accepted(s)
    \/ Refused \/ Wake \/ Handled \/ EndSession \/ Stopped

BeatStep == \E s \in Sessions : BeatEnds(s)

Next ==
    \/ Connect \/ LoopStep \/ Receive \/ BeatStep
    \/ \E c \in Calls : Disconnect(c) \/ Closed(c)
    \/ \E s \in Sessions : PeerCloses(s)

Spec == Init /\ [][Next]_vars

\* Only the agent's own tasks.  An attempt ends, by its time limit at the
\* latest; a request handler returns; a sleep and a close handshake end.
Fairness ==
    /\ WF_vars(LoopStep)
    /\ WF_vars(BeatStep)
    /\ \A c \in Calls : WF_vars(Closed(c))

FairSpec == Spec /\ Fairness

-----------------------------------------------------------------------------
\* One session, one heartbeat: a heartbeat task that has not ended belongs to
\* the current socket, and the loop is still in that session.
OneHeartbeat ==
    \A s \in Sessions : beat[s] \in {"alive", "cancelled"} =>
      s = current /\ loop \in {"receiving", "handling", "stopping"}

\* A session that goes on after disconnect.
Survives ==
    /\ ~running
    /\ loop \in {"receiving", "handling"}
    /\ socket[current] = "open"
    /\ \A c \in Calls : call[c] = "closing" => target[c] # current

\* disconnect closes the session it finds: one that goes on was still being
\* opened when disconnect was called.
SurvivorWasLate == Survives => current \in late

\* And there is no other one after that: the loop does not try again.
OneLateSession == \A s, t \in late : s = t

\* Once disconnect was called connect returns, unless a late session goes on.
DisconnectEndsLoop == (loop # "idle" /\ ~running) ~> (loop = "ended" \/ Survives)

\* Until disconnect is called the agent comes back: it always gets to an open
\* session or to another attempt, whatever the platform refuses or closes.
ComesBack ==
    (loop # "idle" /\ running) ~>
      \/ loop = "connecting"
      \/ loop \in {"receiving", "handling"} /\ socket[current] = "open"
      \/ ~running
=============================================================================
