SPECIFICATION Spec
CONSTANTS
    n1 = n1  n2 = n2  m1 = m1  m2 = m2  m3 = m3  m4 = m4  u1 = u1  u2 = u2
    Panels <- NamedPanels
    TlsConfigs = {n2}
    PullInterval <- Interval
    PushInterval <- Interval
    Named = TRUE
    SendsEtag = TRUE
    MaxFailures = 0
    MaxStarts = 1
    None = None  ErrorBody = ErrorBody  NoList = NoList
CHECK_DEADLOCK FALSE
INVARIANT
    LimiterFollowsUserList
