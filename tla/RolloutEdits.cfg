\* Two edits of names or images while the operator installs both modes.
SPECIFICATION Spec
CONSTANTS
    Specs <- EveryMode
    Editable <- Renamable
    Edited <- OtherValue
    MaxEdits = 2
INVARIANTS
    TypeOK
    RightsSuffice
    ReferencesResolve
    WebhookReachable
