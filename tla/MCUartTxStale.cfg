SPECIFICATION Spec
CONSTANTS
    MaxFrames = 3
    Lens <- MCLens
    BufSize = 3
    FifoDepth = 2
INVARIANTS
    SentIsComplete
CHECK_DEADLOCK FALSE
