SPECIFICATION MCSpec
CONSTANTS
    Sniffers <- MCSniffers
    Connections <- MCConnections
    Infos <- MCInfos
    Options <- MCOptions
    Pieces = 2
    Budget = 1
    Second = 2
    MaxLen = 6
CHECK_DEADLOCK FALSE
INVARIANTS
    CoresAgree
    TrimsCommentsAndCommas
    InOrder
    BlockedStaysOut
PROPERTY
    Decided
