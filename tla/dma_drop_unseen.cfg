SPECIFICATION Spec
CONSTANTS
    N = 2
    Frames = {a, b}
    Tagged = {b}
    PauseEn = FALSE
    None = None
INVARIANTS
    DropSeen
