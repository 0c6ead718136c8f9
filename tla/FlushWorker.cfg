SPECIFICATION WorkerSpec
CONSTANTS
    c1 = c1
    c2 = c2
    Callers <- TwoCallers
CHECK_DEADLOCK FALSE
INVARIANTS
    JoinFindsFileClosed
    CrashOnlyWhenStopsOverlap
    FileOpenWhileInUse
PROPERTIES
    WorkerFinishes
    ChildStopReturns
