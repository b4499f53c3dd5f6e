SPECIFICATION Spec
CONSTANTS
    Pages = {"audit", "audit-chain", "history", "incidents", "key-history", "key-devices", "deliveries", "activity", "feedback", "track", "catalog"}
    Items = {"a", "b", "c"}
    Rows = {"r", "s"}
    MaxFlight = 3
INVARIANTS
    QueryTypeOK
    SettledShowsAsked
    BulkTakesShown
    BulkMarked
CHECK_DEADLOCK FALSE
