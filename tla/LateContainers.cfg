SPECIFICATION Spec
CONSTANTS
    info = info
    bundles = bundles
    samplers = samplers
    ChunkSize = 2
    Containers = {info, bundles, samplers}
    Info = info
    MaxIndex = 5
INVARIANT LateContainersHoldThreads
CHECK_DEADLOCK FALSE
