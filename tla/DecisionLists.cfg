\* Every condition of a constraint and every list of exceptions.
SPECIFICATION Spec
CONSTANTS
    Wildcards = {"*", ""}
    Inputs <- MCInputs
    NamespaceLabels <- Labelled
    APIResources <- Discovered
INVARIANTS
    TypeOK
    ExceptionsHold
    ExceptionsAreLocal
    ObserverAgrees
CHECK_DEADLOCK FALSE
