\* Input, output and flood control of a connection; its byte queues; the
\* configuration under its clients; what a channel remembers of bans; its events
\* and split mode; the lists services give every server.
CONSTANTS
    \* Streams
    MaxFlood = 1
    BurstFactor = 4
    ClientFlood = 1
    MaxSendq = 3
    WriteAt = 1
    MaxRoom = 1
    NoOperFlood = TRUE
    MaxLines <- MCMaxLines
    MaxDelivered = 1
    MaxTicks = 1
    \* Dbuf
    BlockSize = 2
    MaxLine = 2
    Letter = {"a", "b"}
    MaxBytes = 5
    \* ConfAttach
    Client <- MCConfClient
    Name = {"home", "away", "root"}
    ClassName = {"default", "users", "opers", "gone"}
    Host <- MCHost
    Ip <- MCIp
    Block <- MCBlock
    Files <- MCFiles
    DefaultClass <- MCDefaultClass
    MaxRehash = 3
    NULL = NULL
    \* BanCache
    Channel = {"x", "y"}
    Member = {"u"}
    NickName = {"n1", "n2"}
    HostName = {"h1", "h2"}
    BanMask = {"n1"}
    ExceptMask = {"h1"}
    NONE = NONE
    \* Events
    MAX_EVENTS = 4
    Period <- MCPeriod
    SplitPeriod = {2}
    MaxClock = 3
    MaxBack = 1
    MaxSets = 2
    \* ServiceLists
    Server <- MCServer
    Link <- MCLink
    Hub = "a"
    Entry = {"one", "all"}
    Covers <- MCCovers
    ReadAs <- MCReadAs
    Budgets <- MCBudgets
    \* Lines
    Mask <- MCMask
    Includes <- MCIncludes
    Hits <- MCHits
    ExemptMask = {"one"}
    ConfResv <- MCConfResv
    Profile <- MCProfile
    Hold = {1}
    Themes <- MCThemes
    MaxCommands = 4
    MaxTrouble = 1
    MaxTime = 1
SPECIFICATION MCSpec
INVARIANTS
    NeverDeaf
    RateBounded
    StreamKept
    ConfInv
    CidrExact
    CacheFresh
    EventsOnTime
    SplitmodeWatched
    ListsAgree
    BansAsAsked
    NobodyCovered
PROPERTIES
    LinesServed
    OutputDrains
CHECK_DEADLOCK FALSE
