SPECIFICATION Spec
CONSTANTS
    Files = {f1}
    MOD_SHARED = 2
    OPEN_SHARES = 1
    OpenMinors <- TwoChannels
    Cfgs = {0, 1}
    AppWrites <- NoWrites
    Sources <- None
    MaxInFlight = 1
    NULL = NULL
    MASTER = MASTER
SYMMETRY FileSymmetry
PROPERTIES
    LastCloseSwitchesOff
