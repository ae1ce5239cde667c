CONSTANTS
    Operands = {"A", "B"}
    NOperands = {"B"}
    SmemCapacity = 101376
    Problems <- MCProblems
SPECIFICATION RunSpec
INVARIANTS
    TypeOK
    OutputRight
    StageIntact
    OneGroupPerPart
    DrainedAtExit
    StorageFits
    ParsedCompiles
PROPERTIES
    EveryTileStored
    TilesInOrder
