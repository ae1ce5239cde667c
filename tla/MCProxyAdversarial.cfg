CONSTANTS
    c1 = c1
    c2 = c2
    c3 = c3
    p = p
    noClient = noClient
    Clients <- ClientsAndProbe
    Probes <- OneProbe
    NoClient <- noClient
    MaxConc = 1
    MaxQueue = 0
    HandlerCancellation = TRUE
    MayStop = FALSE
SPECIFICATION FairSpec
PROPERTY SilentBackendHoldsNobody
