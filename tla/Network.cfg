\* A line of three servers. A channel: creations of different TS meet, members
\* join, part, are kicked, operators change modes, a link breaks and the sides
\* burst. Nicks: what is behind a split, and who wins when nobody leaves.
CONSTANTS
    Server <- MCLine
    Link <- MCLineLink
    Side <- MCSide
    User <- MCThreeUsers
    Home <- MCHome
    Clock <- MCClock
    Flag = {"i"}
    Topic = {"x"}
    Change <- MCFew
    Budget <- MCBudget
    NULL = NULL
SPECIFICATION MCSpec
INVARIANTS
    OpsOfThisTS
    MembersConverge
    StatusConverges
    NoOperatorIgnored
    SplitHeals
    BurstHeals
CHECK_DEADLOCK FALSE
