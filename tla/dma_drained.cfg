SPECIFICATION FairSpec
CONSTANTS
    N = 2
    Frames = {a}
    Tagged = {}
    PauseEn = FALSE
    None = None
PROPERTIES
    Drained
