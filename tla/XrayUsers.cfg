SPECIFICATION Spec
CONSTANTS
    Users = {u1, u2}
    Conns = {c1, c2}
    Reporters = {r1, r2}
    Settings <- MCSettings
    MaxBytes = 2
    None = None
CHECK_DEADLOCK FALSE
SYMMETRY Symmetry
INVARIANTS
    DeletedIsCutOff
    ChargedWasSent
    EveryByteCounted
