SPECIFICATION CacheSpec
CONSTANTS
    w1 = w1
    w2 = w2
    c1 = c1
    Writers <- TwoWriters
    Callers <- MCCallers
    SampleSizes <- MCSampleSizes
    BufferSize = 6
    HeaderSize = 1
    FlushThreshold = 3
    MaxReserved = 8
CHECK_DEADLOCK FALSE
INVARIANTS
    AcceptedBeforeShutdownIsWritten
    ShutdownDropsOnePerThread
    ParserFindsTheRecords
PROPERTIES
    BacklogIsFlushed
    ShutdownDrains
