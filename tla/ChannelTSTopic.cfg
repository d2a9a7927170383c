\* A topic is set or cleared across a split.
CONSTANTS
    Server <- MCPair
    Link <- MCPairLink
    Side <- MCSide
    User <- MCTwoUsers
    Home <- MCHome
    Clock <- MCOneTime
    Flag = {}
    Topic = {"x"}
    Change <- MCOps
    Budget <- MCTopicBudget
SPECIFICATION Spec
INVARIANTS
    TopicsConverge
CHECK_DEADLOCK FALSE
