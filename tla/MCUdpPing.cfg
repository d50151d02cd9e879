SPECIFICATION Spec
CONSTANTS
    Second = 2
    ReplyTimeout = 3
    SendDelay = 1
    Backoff = 1
    MaxTime = 8
    MaxSent = 3
    MaxDelay = 2
INVARIANTS
    WaitBounded
    LagBounded
CHECK_DEADLOCK FALSE
