SPECIFICATION MCSpec
CONSTANTS
    MaxStarts = 3
    MayFail = TRUE
    Sharers = {n1, n2}
    MaxIssued <- MCMaxIssued
    MaxStops <- MCMaxStops
CHECK_DEADLOCK FALSE
INVARIANTS
    RunningIsDriven
    OneDriverUnlessOverlapped
    BrokenPairNeedsCause
PROPERTIES
    CloseEndsLoops
    RenewalKeepsServing
    DueIsRenewed
