CONSTANTS
    Requests = {r1, r2}
    Workers = {w1}
    Contexts <- MCContexts
    NoJob = NoJob
SPECIFICATION FairSpec
CHECK_DEADLOCK FALSE
INVARIANTS
    AdmittedIsPermitted
    PermittedOnlyTimesOut
    JobsAccounted
PROPERTIES
    RequestIsDecided
