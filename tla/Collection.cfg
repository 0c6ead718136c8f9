SPECIFICATION ControlSpec
CONSTANTS
    t1 = t1
    t2 = t2
    NumCategories = 2
    UseSampling = TRUE
    Actors <- AllActors
    Settings <- MCSettings
    Forkers <- OneForker
INVARIANTS
    ControlTypeOK
    PeriodsGovernCollection
    ForkSeesNothingEnabled
    ForksLeaveCollectionOn
    ChildStaysQuiet
PROPERTIES
    PeriodThreadEnds
CHECK_DEADLOCK FALSE
