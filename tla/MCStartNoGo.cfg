CONSTANTS
    Glob <- GlobOrder
    Window <- SlotWindow
    NumWorkers = 2
    Libs = {"ring", "stock"}
    Placements <- MixedPlacements
    MaxRuns = 1
    MaxFaults = 0
SPECIFICATION Spec
CHECK_DEADLOCK FALSE
INVARIANT NoGoNeverStarts
