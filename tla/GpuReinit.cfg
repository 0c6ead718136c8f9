SPECIFICATION Spec
CONSTANTS
    d1 = d1
    d2 = d2
    Devices <- TwoDevices
    MaxForks = 2
INVARIANT ReinitOpensLibrary
CHECK_DEADLOCK FALSE
