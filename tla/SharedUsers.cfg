SPECIFICATION Spec
CONSTANTS
    t1 = t1  t2 = t2  u1 = u1  u2 = u2  c1 = c1  c2 = c2  c3 = c3  r1 = r1  r2 = r2
    Tags = {t1, t2}
    Users = {u1, u2}
    Conns = {c1, c2, c3}
    Reporters = {r1, r2}
    Of <- MCOf
    Listed <- MCListed
    Owner <- MCOwner
    On <- MCOn
    Settings <- MCSettings
SYMMETRY Alike
CHECK_DEADLOCK FALSE
INVARIANTS
    LostNeedsCause
    MapFollowsLists
    CutNeedsRejection
    PanicNeedsCause
PROPERTY
    AccountSpec
