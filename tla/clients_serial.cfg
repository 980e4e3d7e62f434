SPECIFICATION Spec
CONSTANTS
    Files = {f1, f2, f3}
    MOD_SHARED = 2
    OPEN_SHARES = 2
    OpenMinors <- AllMinors
    Cfgs = {1}
    AppWrites <- SetupWrite
    Sources <- OneChannel
    MaxInFlight = 1
    NULL = NULL
    MASTER = MASTER
SYMMETRY FileSymmetry
INVARIANTS
    EnabledWhileOpen
    ParentWhileLinked
    NoOops
    AllReturned
