CONSTANTS
    c1 = c1
    c2 = c2
    c3 = c3
    p = p
    noClient = noClient
    Clients <- ThreeClients
    Probes <- NoProbe
    NoClient <- noClient
    MaxConc = 1
    MaxQueue = 0
    HandlerCancellation = FALSE
    MayStop = TRUE
SPECIFICATION CooperativeSpec
PROPERTIES
    EveryRequestAnswered
    SlotReleased
    IdleShutdownCompletes
CHECK_DEADLOCK FALSE
