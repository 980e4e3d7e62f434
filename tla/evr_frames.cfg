SPECIFICATION Spec
CONSTANTS
    Period = 200
    ReadoutChannels = 12
    Channels = {0, 1}
    NoBsa = {0}
    Thr = 1
    Depth = 14
    ModeSel = FALSE
    EngineAt = {199}
    None = None
INVARIANTS FramesRead OneSpeaker NoWordLost
