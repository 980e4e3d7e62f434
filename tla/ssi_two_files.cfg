SPECIFICATION Spec
CONSTANTS
    RxCnt = 2
    TxCnt = 1
    DmaSize = 2
    Files = {f1, f2}
    Frames = {a}
    Looped = {0}
    None = None
INVARIANTS Conserved LaneKept MissingAreOut
PROPERTY SsiFifo
CHECK_DEADLOCK FALSE
