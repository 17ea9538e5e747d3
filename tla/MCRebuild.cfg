\* A rebuild for one lost shard, where the peers keep shards of the upload.
CONSTANTS
    p1 = p1
    p2 = p2
    Peer = {p1, p2}
    Here = here
    PeerOrder <- Order
    DataShards = 2
    ParityShards = 2
    KeepLocal = FALSE
    MaxGen = 2
    MaxCrash = 0
    MaxLoss = 1
    Events <- RebuildEvents
    Window <- AtRest
SPECIFICATION Spec
\* A node with nothing to do stops.
CHECK_DEADLOCK FALSE
INVARIANTS
    RepairRestores
