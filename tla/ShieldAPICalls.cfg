\* Calls of Gatekeeper and of other clients, with restarts and lost answers.
SPECIFICATION Spec
CONSTANTS
    Reviews <- MCReviews
    Configs <- MCConfigs
    Modes = {"enforce", "detect"}
INVARIANTS
    TypeOK
    DenialHasGrounds
    RefusalIsKept
