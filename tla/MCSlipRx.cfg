SPECIFICATION Spec
CONSTANTS
    Payloads <- MCPayloads
    MaxFrames = 4
    MaxLost = 1
    PoolSize = 2
    Capacity = 2
    NULL = NULL
INVARIANTS
    TypeOK
    PoolConserved
    OrderKept
    TailsOnly
    DamageBounded
PROPERTIES
    StarvationEnds
CHECK_DEADLOCK FALSE
