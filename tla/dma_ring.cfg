SPECIFICATION Spec
CONSTANTS
    N = 3
    Frames = {a, b}
    Tagged = {}
    PauseEn = TRUE
    None = None
INVARIANTS
    ReadAlone
    DoneIsWhole
    IrqIffOutstanding
    IrqArmed
PROPERTIES
    FrameFifo
