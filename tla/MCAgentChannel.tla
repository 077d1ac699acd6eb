--------------------------- MODULE MCAgentChannel ---------------------------
(* Instances of AgentChannel for TLC.                                       *)
EXTENDS AgentChannel, TLC

CONSTANTS a1, a2, s1, s2, s3

\* A connection of one agent, its replacement, and the replacement's
\* replacement.
OneAgent == [s \in Sockets |-> a1]
Interchangeable == Permutations(Sockets)

\* A connection of one agent and its replacement, and a connection of another
\* agent, which shares only the lock with them.
TwoAgents == [s \in Sockets |-> IF s = s3 THEN a2 ELSE a1]
=============================================================================
