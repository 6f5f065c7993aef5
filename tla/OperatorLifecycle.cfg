\* Install and removal in every mode, with failing calls, a restarting
\* operator, failing pods, Gatekeeper coming and going.
SPECIFICATION FairSpec
CONSTANTS
    Specs <- EveryMode
    MaxLag = 0
    Disturbances = {"fault", "crash", "outage", "gatekeeper"}
    MaxDisturbances = 3
INVARIANTS
    TypeOK
    NoOrphans
PROPERTIES
    EventuallyInstalled
    DeletionCompletes
CHECK_DEADLOCK FALSE
