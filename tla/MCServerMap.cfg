SPECIFICATION Spec
CONSTANTS
    a = a
    b = b
    c = c
    X = X
    Y = Y
    t1 = t1
    t2 = t2
    Blocks <- ThreeBlocks
    SectorOf <- Sectors
    Chunks <- TwoChunks
    Interior <- Interiors
    FullArea <- FullAreas
    ChunkOf <- ChunkOfBlock
    OverMapgenLimit <- NoChunks
    EmergeThreads <- TwoThreads
    Races <- MapgenError
    MaxWrites = 2
SYMMETRY ThreadSymmetry
INVARIANTS
    RefsMatch
    CleanMeansSaved
    ChunksTracked
PROPERTIES
    NothingUnsavedDropped
    ImplementsWorldMap
