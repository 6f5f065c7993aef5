\* The CR is edited, or created again while children of the old one are left;
\* or the error of a read is dropped.
SPECIFICATION FromFirstImage
CONSTANTS
    Specs <- Switches
    MaxLag = 0
    Disturbances = {"edit", "recreate", "dropped"}
    MaxDisturbances = 1
PROPERTIES
    EventuallyInstalled
    DeletionCompletes
CHECK_DEADLOCK FALSE
