\* Erasures among the writes of one process that is never interrupted inside write_event.
CONSTANTS
    Replicas = {r1}
    Actors = {a1, a2}
    Tenants = {t1}
    MaxLines = 2
    BackupCount = 2
    RelativePath = FALSE
    MaxEvents = 6
SPECIFICATION EraseSpec
INVARIANTS ErasureComplete OnlyRedactedBlamed
