\* Two workspaces sweep, hold and change their policies over one log.
CONSTANTS
    Replicas = {r1}
    Actors = {a1}
    Tenants = {t1, t2}
    MaxLines = 2
    BackupCount = 1
    RelativePath = FALSE
    MaxEvents = 3
    Days = {0, 1}
    FloorDays = {2}
    HoldIds = {h1, h2}
SPECIFICATION RetentionSpec
SYMMETRY Symmetry
PROPERTIES OnlyOwnExpiredTaken HoldFreezesRows GrantedMeetsFloor
