\* An expired entry takes its lock with it.
CONSTANTS
    Requests = {q1, q2, q3}
    Callers = {c1}
    IdemKeys = {k1}
    Payloads = {p1}
    Cap = 1
    TTL = 0
    MaxClock = 1
SPECIFICATION Spec
INVARIANT OriginsDoNotOverlap
CHECK_DEADLOCK FALSE
