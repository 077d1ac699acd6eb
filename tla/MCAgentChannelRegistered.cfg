CONSTANTS
    a1 = a1
    a2 = a2
    s1 = s1
    s2 = s2
    s3 = s3
    Agents = {a1}
    Sockets = {s1, s2}
    AgentOf <- OneAgent
    Senders = {x1}
    NoSocket = NoSocket
    Faults = FALSE
SPECIFICATION Spec
CHECK_DEADLOCK FALSE
INVARIANTS LiveSocketIsRegistered
