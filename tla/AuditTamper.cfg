\* Hand edits of every line but deletions of the last one.
CONSTANTS
    Replicas = {r1}
    Actors = {a1, a2}
    Tenants = {t1}
    MaxLines = 4
    BackupCount = 1
    RelativePath = FALSE
    MaxEvents = 5
SPECIFICATION TamperSpec
INVARIANTS VerifiedIsGenuine
