CONSTANTS
    c1 = c1
    c2 = c2
    c3 = c3
    p = p
    noClient = noClient
    Clients <- OneClient
    Probes <- NoProbe
    NoClient <- noClient
    MaxConc = 1
    MaxQueue = 0
    HandlerCancellation = FALSE
    MayStop = FALSE
SPECIFICATION FairSpec
PROPERTY SlotReleased
