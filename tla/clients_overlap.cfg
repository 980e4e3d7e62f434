SPECIFICATION Spec
CONSTANTS
    Files = {f1, f2}
    MOD_SHARED = 1
    OPEN_SHARES = 2
    OpenMinors <- ChannelAndBsa
    Cfgs = {1}
    AppWrites <- NoWrites
    Sources <- OneChannel
    MaxInFlight = 2
    NULL = NULL
    MASTER = MASTER
SYMMETRY FileSymmetry
INVARIANTS
    TypeOK
    ShareExclusive
    ListsExact
    IrqArmed
CHECK_DEADLOCK FALSE
