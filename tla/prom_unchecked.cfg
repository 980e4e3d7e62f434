SPECIFICATION Spec
CONSTANTS
    Files <- MCFiles
    BufWords = 2
    BlockWords = 4
    Words = 8
    PromSize = 5
    None = None
INVARIANT Matches
CHECK_DEADLOCK FALSE
