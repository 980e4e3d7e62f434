SPECIFICATION FairSpec
CONSTANTS
    Files <- MCFiles
    BufWords = 2
    BlockWords = 4
    Words = 8
    PromSize = 5
    None = None
INVARIANTS Loaded NoStray Locked
PROPERTY Ends
CHECK_DEADLOCK FALSE
