SPECIFICATION Spec
CONSTANTS
    n1 = n1  n2 = n2  m1 = m1  m2 = m2  m3 = m3  m4 = m4  u1 = u1  u2 = u2
    Panels <- FailingPanels
    TlsConfigs = {n2}
    PullInterval <- Interval
    PushInterval <- Interval
    Named = FALSE
    SendsEtag = TRUE
    MaxFailures = 2
    MaxStarts = 1
    None = None  ErrorBody = ErrorBody  NoList = NoList
CHECK_DEADLOCK FALSE
INVARIANTS
    AcknowledgedIsServed
    LimiterFollowsUserList
    CrashNeedsCause
    ClosedStaysClosed
