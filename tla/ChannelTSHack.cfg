\* Operators make more changes at once than fit on a line.
CONSTANTS
    Server <- MCPair
    Link <- MCPairLink
    Side <- MCSide
    User <- MCSplitUsers
    Home <- MCHome
    Clock <- MCClock
    Flag = {}
    Topic = {}
    Change <- MCOps
    Budget <- MCHackBudget
SPECIFICATION Spec
INVARIANTS
    OpsOfThisTS
CHECK_DEADLOCK FALSE
