\* Deliveries that fail side by side, to a hook and to one deleted before it.
CONSTANTS
    Hooks = {h1, h2}
    Calls = {c1, c2}
    MaxAttempts = 2
    Threshold = 2
    RateCap = 2
    MaxActive = 1
SPECIFICATION WebhookSpec
SYMMETRY Symmetry
INVARIANTS WebhookTypeOK BreakerNotMissed
PROPERTIES DeletedForGood StopNeedsFreshStreak
