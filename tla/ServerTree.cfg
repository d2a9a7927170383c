\* Three servers that close a ring, four where the ring has a tail, a leaf
\* with masks, and one without a connect block.
CONSTANTS
    Server <- MCFour
    Configs <- MCConfigs
    MaxConns = 4
SPECIFICATION FairSpec
INVARIANTS
    TreeInv
    OneTree
PROPERTIES
    ComesToRest
CHECK_DEADLOCK FALSE
