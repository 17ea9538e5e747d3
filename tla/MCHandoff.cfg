\* One upload and its hand-over, with every request but reads and repairs, every
\* failure and one crash at any step.
CONSTANTS
    p1 = p1
    p2 = p2
    Peer = {p1, p2}
    Here = here
    PeerOrder <- Order
    DataShards = 1
    ParityShards = 2
    KeepLocal = FALSE
    MaxGen = 1
    MaxCrash = 1
    MaxLoss = 0
    Events <- HandoffEvents
    Window <- Anytime
SPECIFICATION FairSpec
\* A node with nothing to do stops.
CHECK_DEADLOCK FALSE
INVARIANTS
    TypeOK
    CapHolds
    PlanIsRing
    ListedWithinParity
    HeldWithinParity
    NoShardLost

    
