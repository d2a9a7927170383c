\* Two connections; a released client may have sent OPER and CLOSE already.
CONSTANTS
    c1 = c1
    c2 = c2
    c3 = c3
    NULL = NULL
    Retries = 2
    Client <- MCTwoClients
    V6 <- MCV6
    CloseOnRelease = TRUE
    RestartMayFail = FALSE
SPECIFICATION Spec
INVARIANTS
    NextLinked
