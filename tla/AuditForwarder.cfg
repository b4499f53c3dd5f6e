SPECIFICATION Spec
CONSTANTS
    Tenants = {"a", "b"}
    MaxQueue = 1
    MaxRetries = 2
    MaxPuts = 2
    MaxJobs = 3
INVARIANTS
    ForwarderTypeOK
    ExactlyOneFate
    SecretMatchesDestination
    OffStaysOff
PROPERTIES
    EveryJobSettles
CHECK_DEADLOCK FALSE
