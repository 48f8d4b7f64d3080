SPECIFICATION Spec
CONSTANTS
    d0 = d0  d1 = d1  d2 = d2
    Reloads = {r1, r2}
    Kinds = {"good", "unparsable", "badCore"}
    NodeCount = 2
    Panels <- MCPanels
    NoDns = d0
    MaxEdits <- MCMaxEdits
    MaxPolls = 1
    Failures = TRUE
CHECK_DEADLOCK FALSE
INVARIANTS
    CrashNeedsCause
    QuietIsCurrent
    ReloadedIsServed
PROPERTY
    Settles
