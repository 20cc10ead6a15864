CONSTANTS
    MaxRounds <- Rounds
    Files <- TwoFiles
    SnapWriters = 1
    Names <- ThreeNames
    Hammers = 1
    Total = 6
    UsedBefore <- HalfFullOrMore
    Chunk = 2
    FillNum = 5
    FillDen = 6
    BufferNames <- FourNames
    BufferThreads = 4
    Keep = 2
    ChainThreads = 4
    MaxExtents = 2
    FsyncFiles <- TwoFiles
    PreallocBlocks = 2
    FsyncThreads = 1
SPECIFICATION FairSpec
INVARIANTS NoFalseMix ConsistentClaim OneUnverified
    ListMatchesDisk NewestAreKept DuplicatesAreReported
PROPERTIES StopEnds 
CHECK_DEADLOCK FALSE
