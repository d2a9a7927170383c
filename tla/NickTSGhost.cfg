\* Two servers, two users and one QUIT.
CONSTANTS
    Server <- MCPair
    Link <- MCPairLink
    Side <- MCSide
    Uid <- MCTwoUids
    Home <- MCHome
    Host <- MCHosts
    Oper = {"ua"}
    Clock <- MCClocks
    Nick = {"n"}
    NULL = NULL
    MaxChanges = 0
    MaxQuits = 1
    MaxKills = 0
    MaxBreaks = 0
SPECIFICATION Spec
INVARIANTS
    Converged
CHECK_DEADLOCK FALSE
