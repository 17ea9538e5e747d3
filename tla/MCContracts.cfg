\* A contract through every request and failure.
CONSTANTS
    t1 = t1
    s1 = s1
    s2 = s2
    TheirShard = {t1}
    OurShard = {s1, s2}
    TierChoice <- HotAndCold
    LatencyScore <- Extremes
    MaxIssued = 3
    MaxChecks = 2
    MaxCrash = 1
    Events <- AllEvents
SPECIFICATION Spec
\* The bounds on challenges and checks stop the system.
CHECK_DEADLOCK FALSE
INVARIANTS
    TypeOK
    HonestPeerKept
    Persisted
    CountedOnce
    EvictionCollects
PROPERTIES
    EvictedIsTerminal
