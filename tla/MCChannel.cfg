SPECIFICATION KeepingSpec
CONSTANTS
    SEQNUM_MAX = 11
    MAX_RELIABLE_WINDOW_SIZE = 6
    SEQNUM_INITIAL = 10
    Windows <- Window2or4
    InitialWindow = 4
    MaxRequeued = 1
    PacketQuota = 2
    ChunkCounts <- ThreeChunks
    NumCommands = 4
    NumPings = 1
INVARIANTS
    InOrderDelivery
    NoPacketForgotten
    OutstandingBound
    PutBackSucceeds
    NoFalseCorruption
PROPERTIES
    ImplementsFifo
CHECK_DEADLOCK FALSE
