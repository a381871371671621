SPECIFICATION FairSpec
CONSTANTS
    p1 = p1
    p2 = p2
    client = client
    inexistent = inexistent
    Positions <- Pos2
    OverLimit <- Nowhere
    Peers <- TheClient
    PEER_ID_INEXISTENT = inexistent
    NumThreads = 2
    m_qlimit_total = 2
    m_qlimit_diskonly = 2
    m_qlimit_generate = 1
    NumRequests = 2
    MayFail = FALSE
    Reentrant = FALSE
INVARIANTS
    NoLockCycle
PROPERTIES
    EveryCallbackCalled
    StopsInTheEnd
CHECK_DEADLOCK FALSE
