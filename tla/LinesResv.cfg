\* Temporary RESVs and REHASH.
CONSTANTS
    Mask <- MCMask
    Includes <- MCIncludes
    Hits <- MCHits
    ExemptMask = {"one"}
    ConfResv <- MCConfResv
    Profile <- MCProfile
    Hold = {1}
    Themes <- MCThemes
    MaxCommands = 4
    MaxTrouble = 0
    MaxTime = 1
SPECIFICATION LineSpec
INVARIANT TemporaryResvStays
CHECK_DEADLOCK FALSE
