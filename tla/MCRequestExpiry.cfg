CONSTANTS
    Requests = {r1}
    Sockets = {k1}
    NoSocket = NoSocket
    NoRequest = NoRequest
    SweeperRuns = FALSE
    Faults = FALSE
SPECIFICATION FairSpec
CHECK_DEADLOCK FALSE
PROPERTIES
    UnfinishedExpires
