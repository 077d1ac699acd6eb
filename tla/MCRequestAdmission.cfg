CONSTANTS
    Uploads = {1, 2, 3, 4}
    PolicyUploads = {5, 6, 7, 8}
    Readers = {9}
    NoVersion = NoVersion
    PoolSize = 3
    MaxBegun = 5
    Faults = TRUE
SPECIFICATION AdmissionFairSpec
CONSTRAINT Bounded
CHECK_DEADLOCK FALSE
INVARIANTS
    NeverWithout
    LaterSupersedes
    AdmittedIsCurrent
    PolicyBeforeCapability
PROPERTIES
    UploadEnds
    PoolRecovers
