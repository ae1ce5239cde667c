CONSTANTS
    NumLayers = 2
    NumExperts = 3
    TopK = 2
    BlockM = 2
    HiddenSize = 128
    RowsPerExpert = 256
    SampledRows = {0, 31, 32, 127, 128, 255}
    SampledScales = {118, 119, 120, 121, 122, 123, 124, 125, 126}
    SmallM = 1
    W4A4MinM = 3
    MergedMinM = 2
    ComboCap = 1
    TileM = 2
    WarmTopK = 2
    Tiers <- MCTiers
    Batches <- MCBatches
    Environments <- MCEnvironments
    ProfileSize = 4
    CaptureSizes = {0, 1, 2}
    ServeSizes = {1, 3, 4}
SPECIFICATION Spec
INVARIANTS
    TypeOK
    RowsExact
    KernelReadsItsOrder
    CombosBounded
    NoCompileWhileServing
    OneWrapperPerGeometry
PROPERTIES
    EveryPassEnds
CHECK_DEADLOCK FALSE
