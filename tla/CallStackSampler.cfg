SPECIFICATION Spec
CONSTANTS
    t1 = t1
    t2 = t2
    Threads <- TwoThreads
    MaxForks = 1
INVARIANTS
    SamplerTypeOK
    DurationStopsSettledThreads
    DurationThreadIsJoined
    OutputFindsSamplersStopped
PROPERTIES
    FinalizationEnds
CHECK_DEADLOCK FALSE
