SPECIFICATION MCSpec
CONSTANTS
    n1 = n1  n2 = n2  p1 = p1  p2 = p2
    Tags = {n1, n2}
    Pids = {p1, p2}
    UdpPort <- MCUdpPort
    Setups <- MCSetups
    MaxAdds <- MCMaxAdds
    Configs <- MCConfigs
    Outside = Outside
    Unset = Unset
    Nodes = {n1, n2, n3, n4}
    NoPath = {n4}
    Secrets = {s1, s2}
    None = None
    Random = Random
    Absent = Absent
    Invalid = Invalid
    MaxFaults = 2
CHECK_DEADLOCK FALSE
INVARIANT
    UserWindowsKept
