SPECIFICATION Spec
CONSTANTS
    Files = {f1, f2}
    MOD_SHARED = 1
    OPEN_SHARES = 2
    OpenMinors <- OneChannel
    Cfgs = {1}
    AppWrites <- NoWrites
    Sources <- OneChannel
    MaxInFlight = 1
    NULL = NULL
    MASTER = MASTER
SYMMETRY FileSymmetry
INVARIANTS
    WalkWakesAll
