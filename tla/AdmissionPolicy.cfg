\* One webhook call against two MIPs: every branch of the decision, every mode,
\* failing reads, and one edit of a configuration or a MIP during the call.
SPECIFICATION Spec
CONSTANTS
    o1 = o1
    Handlers = {h1}
    Requests = {r1}
    NoRequest = NoRequest
    Constraints = {c1, c2}
    Objects = {o1}
    ObjectOf <- OneObject
    Facts <- Varied
    Configs <- EveryDefault
    ACSettings <- EveryMode
    MaxHistory = 2
    ApiFaults = TRUE
    MaxEdits = 1
SYMMETRY InterchangeableMIPs
INVARIANT
    ReplyMatchesPolicy
CHECK_DEADLOCK FALSE
