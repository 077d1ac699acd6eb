CONSTANTS
    Requests = {r1, r2}
    Sockets = {k1}
    NoSocket = NoSocket
    NoRequest = NoRequest
    SweeperRuns = FALSE
    Faults = TRUE
SPECIFICATION FairSpec
CHECK_DEADLOCK FALSE
PROPERTIES
    AcceptedIsAnswered
    UnfinishedHasCause
