\* Two connections, one over IPv6; any restart of the resolver may fail.
CONSTANTS
    c1 = c1
    c2 = c2
    c3 = c3
    NULL = NULL
    Retries = 3
    Client <- MCTwoClients
    V6 <- MCV6
    CloseOnRelease = FALSE
    RestartMayFail = TRUE
SPECIFICATION FairSpec
INVARIANTS
    OneLookup
    NoLimbo
    NextLinked
    AuthInv
PROPERTIES
    ServiceSpec
    AuthEnds
