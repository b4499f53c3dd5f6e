\* One process, rotation at two lines with two backups.
CONSTANTS
    Replicas = {r1}
    Actors = {a1}
    Tenants = {t1}
    MaxLines = 2
    BackupCount = 2
    RelativePath = FALSE
    MaxEvents = 8
SPECIFICATION Spec
INVARIANTS TypeOK BlameOnlyDamage ChainContinues
PROPERTY ImplementsLedger
