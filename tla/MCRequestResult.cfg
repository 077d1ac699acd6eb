CONSTANTS
    Requests = {r1}
    Sockets = {k1}
    NoSocket = NoSocket
    NoRequest = NoRequest
    SweeperRuns = FALSE
    Faults = FALSE
SPECIFICATION Spec
CHECK_DEADLOCK FALSE
INVARIANTS
    ResultHasFinalStatus
