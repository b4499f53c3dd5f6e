\* Entries expire and are pushed out while requests are in flight.
CONSTANTS
    Requests = {q1, q2, q3}
    Callers = {c1, c2}
    IdemKeys = {k1, k2}
    Payloads = {p1, p2}
    Cap = 1
    TTL = 1
    MaxClock = 2
SPECIFICATION FairSpec
INVARIANTS TypeOK ReplayMatchesOrigin CarriedOutOnce
PROPERTY EveryRequestAnswered
CHECK_DEADLOCK FALSE
