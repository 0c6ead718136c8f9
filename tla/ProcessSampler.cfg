SPECIFICATION Spec
CONSTANTS
    d1 = d1
    d2 = d2
    Devices <- TwoDevices
    MaxForks = 2
INVARIANTS
    LockedCallFindsLibraryOpen
    AtMostOneLateRound
PROPERTIES
    OneShutdownCloses
    FailureDisablesSampling
    ShutdownReturns
CHECK_DEADLOCK FALSE
