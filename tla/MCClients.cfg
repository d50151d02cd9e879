SPECIFICATION Spec
CONSTANTS
    Programs = {"echo", "simple", "udp"}
    MaxEvents = 3
    Descriptors = 3
    MaxSend = 2
    Window = 1
INVARIANTS
    TypeOK
    SocketsReleased
    NoFalseAlarm
PROPERTIES
    LossNoticed
    ConnectStartsAttempt
    BacklogServed
CHECK_DEADLOCK FALSE
