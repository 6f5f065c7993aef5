\* The error of a read is dropped in the finalizer step.
SPECIFICATION Spec
CONSTANTS
    Specs <- GatekeeperOnly
    MaxLag = 0
    Disturbances = {"dropped"}
    MaxDisturbances = 1
INVARIANT
    NoOrphans
CHECK_DEADLOCK FALSE
