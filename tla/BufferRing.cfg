SPECIFICATION RingSpec
CONSTANTS
    w1 = w1
    w2 = w2
    Writers <- MCWriters
    SampleSizes <- MCSampleSizes
    BufferSize = 6
    HeaderSize = 1
    FlushThreshold = 4
    MaxReserved = 14
CHECK_DEADLOCK FALSE
INVARIANTS
    HeaderFits
    UsedSpaceIsExact
    CopyIsComplete
    StoredBytesInPlace
    WritersAreDisjoint
PROPERTY
    ImplementsTraceLog
