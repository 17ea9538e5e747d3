\* A crash or a delete while shards are handed over.
CONSTANTS
    p1 = p1
    p2 = p2
    Peer = {p1, p2}
    Here = here
    PeerOrder <- Order
    DataShards = 2
    ParityShards = 2
    KeepLocal = FALSE
    MaxGen = 1
    MaxCrash = 1
    MaxLoss = 0
    Events <- HandoverEvents
    Window <- InHandover
SPECIFICATION Spec
\* A node with nothing to do stops.
CHECK_DEADLOCK FALSE
INVARIANTS
    NamespaceHonest
