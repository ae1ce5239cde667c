CONSTANTS
    c1 = c1
    c2 = c2
    c3 = c3
    p = p
    noClient = noClient
    Clients <- ThreeClients
    Probes <- NoProbe
    NoClient <- noClient
    MaxConc = 2
    MaxQueue = 0
    HandlerCancellation = TRUE
    MayStop = TRUE
SPECIFICATION Spec
SYMMETRY Symmetry
PROPERTY ImplementsAdmissionQueue
INVARIANTS
    TypeOK
    SlotAccounting
    ServedAtMostOnce
    NoLostRequest
    RejectedLeavesNoTrace
    BackendOnlyForwarded
CHECK_DEADLOCK FALSE
