\* Two webhook calls at a time refuse requests about one object for one MIP,
\* while an admin edits, removes and recreates the MIP and the Event expires.
SPECIFICATION Spec
CONSTANTS
    o1 = o1
    Handlers = {h1, h2}
    Requests = {r1, r2, r3}
    NoRequest = NoRequest
    Constraints = {c1}
    Objects = {o1}
    ObjectOf <- OneObject
    Facts <- UnsignedOnly
    Configs <- Reporting
    ACSettings <- Recording
    MaxHistory = 2
    ApiFaults = FALSE
    MaxEdits = 2
SYMMETRY Interchangeable
INVARIANTS
    TypeOK
    StatusIsExact
    EventCountIsExact
    StatusNamesRefusals
    RefusalIsVisible
PROPERTIES
    StatusWriteKeepsSpec
CHECK_DEADLOCK FALSE
