\* On two servers three users, two of them one person's (so that collisions of one
\* user and of two both happen), a nick change, a QUIT and a KILL; on three servers
\* in a line two users of different hosts and a link that breaks.
CONSTANTS
    Server <- MCLine
    Link <- MCLineLink
    Side <- MCSide
    Uid <- MCPairUids
    Home <- MCHome
    Host <- MCHost
    Oper = {"ua"}
    Clock <- MCClock
    Nick = {"n", "m"}
    NULL = NULL
    MaxChanges = 1
    MaxQuits = 1
    MaxKills = 1
    MaxBreaks = 1
SPECIFICATION MCFairSpec
INVARIANTS
    NickInv
    NoIdCollision
PROPERTIES
    OlderKeepsNick
    ComesToRest
CHECK_DEADLOCK FALSE
