\* Two constraints, one edit anywhere, and a failure or a second pod.
SPECIFICATION FromVerified
CONSTANTS
    Wildcards = {"*", ""}
    Pods = {p1, p2}
    First = p1
    Objects <- Resources
    Contents <- Mixed
    Constraints <- Both
    NamespaceLabels <- Labelled
    APIResources <- Discovered
    ExportDetail = TRUE
    MaxEdits = 1
    MaxFaults = 1
INVARIANTS
    TypeOK
    ReportsAreTrue
PROPERTIES
    StateConverges
