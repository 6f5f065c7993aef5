\* Two webhook calls, failing calls, timeouts and one edit.
SPECIFICATION FairSpec
CONSTANTS
    o1 = o1
    Handlers = {h1, h2}
    Requests = {r1, r2}
    NoRequest = NoRequest
    Constraints = {c1}
    Objects = {o1}
    ObjectOf <- OneObject
    Facts <- UnsignedOnly
    Configs <- Reporting
    ACSettings <- Recording
    MaxHistory = 2
    ApiFaults = TRUE
    MaxEdits = 1
PROPERTIES
    EveryRequestAnswered
    ImplementsContract
CHECK_DEADLOCK FALSE
