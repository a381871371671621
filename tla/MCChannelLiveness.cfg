SPECIFICATION FairSpec
CONSTANTS
    SEQNUM_MAX = 7
    MAX_RELIABLE_WINDOW_SIZE = 4
    SEQNUM_INITIAL = 6
    Windows <- Window2
    InitialWindow = 2
    MaxRequeued = 1
    PacketQuota = 1
    ChunkCounts <- TwoChunks
    NumCommands = 1
    NumPings = 1
PROPERTIES
    DeliversEverything
CHECK_DEADLOCK FALSE
