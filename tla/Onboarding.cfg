CONSTANTS
    Sessions = {s1, s2}
    Calls = {d1, d2}
    NoSession = NoSession
    Creations = {c1, c2}
    Handles = {h1}
    InsertsFail = TRUE
    Own = c1
SPECIFICATION OnboardingFairSpec
CHECK_DEADLOCK FALSE
INVARIANTS
    TypeOK
    OneHeartbeat
    SurvivorWasLate
    OneLateSession
    AgentIsComplete
    ReturnedKeyWorks
PROPERTIES
    DisconnectEndsLoop
    ComesBack
    CreationEnds
    ImplementsDirectory
