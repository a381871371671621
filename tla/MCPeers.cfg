SPECIFICATION FairSpec
CONSTANTS
    Addresses = {a1, a2}
    Ids = {2}
    MaxPeers = 2
    MaxEvents = 1
    MaxKicks = 1
    FreshIds = TRUE
INVARIANTS
    NoUseAfterFree
    NoLeak
    ServerAgrees
    DiscoBeforeRemoval
PROPERTY Leaves
