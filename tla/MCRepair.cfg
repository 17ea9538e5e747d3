\* Scans, a rebuild, purges and a delete of a file at rest.
CONSTANTS
    p1 = p1
    p2 = p2
    Peer = {p1, p2}
    Here = here
    PeerOrder <- Order
    DataShards = 2
    ParityShards = 1
    KeepLocal = FALSE
    MaxGen = 2
    MaxCrash = 0
    MaxLoss = 2
    Events <- RepairEvents
    Window <- AtRest
SPECIFICATION FairSpec
\* A node with nothing to do stops.
CHECK_DEADLOCK FALSE
INVARIANTS
    VerdictJustified
    PlacementTrue
PROPERTIES
    RepairEnds
