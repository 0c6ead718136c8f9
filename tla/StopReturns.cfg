SPECIFICATION WorkerSpec
CONSTANTS
    c1 = c1
    c2 = c2
    Callers <- OneCaller
CHECK_DEADLOCK FALSE
PROPERTY
    StopReturns
