----------------------------- MODULE Directory ------------------------------
(***************************************************************************)
(* What the directory of handles promises: a handle belongs to one agent   *)
(* at most, an agent takes one handle and keeps it until it is deleted,    *)
(* and a deleted agent never comes back.  Registration implements this.    *)
(***************************************************************************)
CONSTANTS
    Handles,
    Owners   \* every agent that ever is

VARIABLES
    owners, \* the agents that GET /v1/directory/{handle} finds, for each handle
    gone    \* the agents that were deleted

vars == <<owners, gone>>

Init ==
    /\ owners = [h \in Handles |-> {}]
    /\ gone = {}

Claim(h, c) ==
    /\ owners[h] = {}
    /\ c \notin gone
    /\ \A g \in Handles : c \notin owners[g]
    /\ owners' = [owners EXCEPT ![h] = {c}]
    /\ UNCHANGED gone

\* The handle is free again, for another agent.
Release(h, c) ==
    /\ owners[h] = {c}
    /\ owners' = [owners EXCEPT ![h] = {}]
    /\ gone' = gone \cup {c}

Next == \E h \in Handles, c \in Owners : Claim(h, c) \/ Release(h, c)

Spec == Init /\ [][Next]_vars
=============================================================================
