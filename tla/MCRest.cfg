\* A file at rest: read, renamed, scanned, purged and deleted while peers come
\* and go and lose shards, and the node crashes.
CONSTANTS
    p1 = p1
    p2 = p2
    Peer = {p1, p2}
    Here = here
    PeerOrder <- Order
    DataShards = 2
    ParityShards = 1
    KeepLocal = FALSE
    MaxGen = 1
    MaxCrash = 1
    MaxLoss = 2
    Events <- RestEvents
    Window <- AtRest
SPECIFICATION Spec
\* A node with nothing to do stops.
CHECK_DEADLOCK FALSE
INVARIANTS
    SurvivesOnePeer
    NamespaceHonest
    DeletedStaysDeleted
    ReadsServed
