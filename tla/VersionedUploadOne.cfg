CONSTANTS
    Uploads = {u1, u2, u3}
    Faults = FALSE
SPECIFICATION Spec
CHECK_DEADLOCK FALSE
INVARIANTS
    OneActiveVersion
