SPECIFICATION FairSpec
CONSTANTS
    RxCnt = 2
    TxCnt = 1
    DmaSize = 2
    Files = {f1}
    Frames = {a}
    Looped = {0}
    None = None
INVARIANTS Conserved LaneKept MissingAreOut
PROPERTIES SsiFifo WriterServed ReaderServed
CHECK_DEADLOCK FALSE
