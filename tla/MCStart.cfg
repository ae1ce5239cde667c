CONSTANTS
    Glob <- GlobOrder
    Window <- SlotWindow
    NumWorkers = 2
    Libs = {"ring", "stock"}
    Placements <- MixedPlacements
    MaxRuns = 2
    MaxFaults = 1
SPECIFICATION FairSpec
CHECK_DEADLOCK FALSE
INVARIANTS
    TypeOK
    GateHolds
    InjectedIndexSafe
    OnlyThisRun
    ReadyIsWhole
PROPERTIES
    FirstStartCompletes
