------------------------------ MODULE Presence ------------------------------
(***************************************************************************)
(* What the connection manager promises about one agent to whoever sends   *)
(* to it: which WebSocket is registered, and which WebSockets are up.      *)
(* There is no lock, no handler and no close handshake here.               *)
(*                                                                         *)
(* AgentChannel implements this specification for each agent, and          *)
(* RequestLifecycle is built on the same steps.                            *)
(***************************************************************************)
CONSTANTS
    Sockets,  \* every WebSocket of the agent, each opened once
    NoSocket  \* "not registered"

VARIABLES
    registered, \* the entry of the agent in ConnectionManager._connections
    link        \* "none": not registered yet; "up"; "down"

vars == <<registered, link>>

TypeOK ==
    /\ registered \in Sockets \cup {NoSocket}
    /\ link \in [Sockets -> {"none", "up", "down"}]

Init ==
    /\ registered = NoSocket
    /\ link = [k \in Sockets |-> "none"]

\* A socket is registered once, in the place of one that is down.  Its peer may
\* have left since it was accepted.
Attach(k) ==
    /\ link[k] = "none"
    /\ registered # NoSocket => link[registered] = "down"
    /\ \E state \in {"up", "down"} : link' = [link EXCEPT ![k] = state]
    /\ registered' = k

\* A removal: it need not be the registered socket that has ended.
Detach ==
    /\ registered # NoSocket
    /\ registered' = NoSocket
    /\ UNCHANGED link

\* A socket goes down, registered or not, or is never accepted.
LinkDown(k) ==
    /\ link[k] # "down"
    /\ link' = [link EXCEPT ![k] = "down"]
    /\ UNCHANGED registered

\* The process restarts: no socket survives.
Restart ==
    /\ registered' = NoSocket
    /\ link' \in [Sockets -> {"none", "down"}]
    /\ \A k \in Sockets : link[k] # "none" => link'[k] = "down"

Next ==
    \/ \E k \in Sockets : Attach(k) \/ LinkDown(k)
    \/ Detach
    \/ Restart

Spec == Init /\ [][Next]_vars
=============================================================================
