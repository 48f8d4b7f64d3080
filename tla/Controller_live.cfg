SPECIFICATION Spec
CONSTANTS
    n1 = n1  n2 = n2  m1 = m1  m2 = m2  m3 = m3  m4 = m4  u1 = u1  u2 = u2
    Panels <- LivePanels
    TlsConfigs = {n2, m3}
    PullInterval <- LivePull
    PushInterval <- LivePush
    Named = FALSE
    SendsEtag = TRUE
    MaxFailures = 0
    MaxStarts = 2
    None = None  ErrorBody = ErrorBody  NoList = NoList
CHECK_DEADLOCK FALSE
INVARIANT
    UpIsMonitored
PROPERTIES
    EventuallyServed
