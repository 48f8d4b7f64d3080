SPECIFICATION Spec
CONSTANTS
    u1 = u1  u2 = u2  i1 = i1  i2 = i2  c1 = c1  c2 = c2
    Uuids = {u1, u2}
    IPs = {i1, i2}
    Addresses <- MCAddresses
    Conns = {c1, c2}
    Speeds = {0, 1}
    NodeLimit = 0
    Devices = {0, 1}
    MaxAlive = 1
    Uses <- MCUses
    None = None
CHECK_DEADLOCK FALSE
SYMMETRY Symmetry
INVARIANTS
    OnlineIsAccepted
    BucketMatchesLimit
    DevicesAreTheUsersOwn
    ListedIsKnown
