CONSTANTS
    Requests = {r1, r2}
    Sockets = {k1, k2}
    NoSocket = NoSocket
    NoRequest = NoRequest
    SweeperRuns = TRUE
    Faults = TRUE
SPECIFICATION Spec
CHECK_DEADLOCK FALSE
SYMMETRY Interchangeable
INVARIANTS
    TypeOK
    FramesHaveRows
    AnsweredIsQuiet
    PendingHasSubmitter
PROPERTIES
    ResultIsFinal
    FinalUntilSubmit
    ImplementsRecord
