\* kline_exempt and RK-lines.
CONSTANTS
    Mask <- MCMask
    Includes <- MCIncludes
    Hits <- MCHits
    ExemptMask = {"one"}
    ConfResv <- MCConfResv
    Profile <- MCProfile
    Hold = {1}
    Themes <- MCThemes
    MaxCommands = 4
    MaxTrouble = 0
    MaxTime = 1
SPECIFICATION LineSpec
PROPERTY KlineExemptRegisters
CHECK_DEADLOCK FALSE
