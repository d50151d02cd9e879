SPECIFICATION Spec
CONSTANTS
    MaxFrames = 3
    Lens <- MCLens
    BufSize = 3
    FifoDepth = 2
INVARIANTS
    TypeOK
    ReadsInBounds
    InOrderOnWire
    SentIsCompleteUntilLateGive
PROPERTIES
    NoReuseWhileSending
    ImplementsLine
    EveryFrameAnswered
CHECK_DEADLOCK FALSE
