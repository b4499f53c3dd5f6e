SPECIFICATION Spec
SYMMETRY Symmetry
CONSTANTS
    Pages = {"security-contacts", "subprocessors", "members", "legal-holds", "dsar", "sessions", "pat-auth-lockout", "webhooks", "shares", "keys", "inventory", "scim", "export-signing"}
    Rows = {a, b}
    MaxVer = 3
    MaxFlight = 2
INVARIANTS
    ListTypeOK
    FlagsTruthful
    OneSubmitAtATime
    RowSentOnce
    SettledFresh
    SecretCurrent
CHECK_DEADLOCK FALSE
