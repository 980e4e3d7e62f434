SPECIFICATION FairSpec
CONSTANTS
    Files = {f1, f2}
    MOD_SHARED = 1
    OPEN_SHARES = 2
    OpenMinors <- ChannelAndBsa
    Cfgs = {0, 1}
    AppWrites <- NoWrites
    Sources <- ChannelAndBsa
    MaxInFlight = 1
    NULL = NULL
    MASTER = MASTER
PROPERTIES
    Served
