SPECIFICATION CacheSpec
CONSTANTS
    w1 = w1
    w2 = w2
    c1 = c1
    Writers <- OneWriter
    Callers <- MCCallers
    SampleSizes <- MCSampleSizes
    BufferSize = 8
    HeaderSize = 1
    FlushThreshold = 2
    MaxReserved = 6
CHECK_DEADLOCK FALSE
INVARIANT
    StoredRecordsAreReadBack
