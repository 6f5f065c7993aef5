\* The webhook and what it needs, with a cache that lags behind and an upgrade.
SPECIFICATION Spec
CONSTANTS
    Specs <- Upgrade
    MaxLag = 3
    Disturbances = {"fault", "crash", "outage", "edit"}
    MaxDisturbances = 2
INVARIANTS
    WebhookHasBackend
    WebhookTrustsServer
PROPERTY
    NothingCreatedForGoneCR
CHECK_DEADLOCK FALSE
