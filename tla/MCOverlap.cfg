\* A scan that overlaps the hand-over of the file it scans.
CONSTANTS
    p1 = p1
    p2 = p2
    Peer = {p1, p2}
    Here = here
    PeerOrder <- Order
    DataShards = 2
    ParityShards = 2
    KeepLocal = FALSE
    MaxGen = 1
    MaxCrash = 0
    MaxLoss = 0
    Events <- OverlapEvents
    Window <- InHandover
SPECIFICATION Spec
\* A node with nothing to do stops.
CHECK_DEADLOCK FALSE
INVARIANTS
    VerdictJustified
