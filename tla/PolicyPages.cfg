SPECIFICATION Spec
CONSTANTS
    Pages = {"match-topk", "webhook-delivery-rate", "webhook-destination-cap", "pat-secret-prefix", "scope-policy", "auth-methods", "pat-expiry-warning", "seat-limit", "quotas", "webhook-policy", "webhook-destinations", "retention", "workspace-closure", "webhook-egress", "body-size", "retention-floor", "webhook-max-attempts", "budget", "pat-min-requirements", "system-use-notification", "delivery-rate-card", "dpa"}
    MaxVer = 2
    MaxMount = 2
    MaxFlight = 2
INVARIANTS
    PolicyTypeOK
    NoBlindSave
    OneWriteAtATime
    InOrderNeverOlder
    FailedWriteShown
PROPERTIES
    EditsSurvive
    BusyEnds
CHECK_DEADLOCK FALSE
