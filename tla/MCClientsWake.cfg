SPECIFICATION Spec
CONSTANTS
    Programs = {"echo"}
    MaxEvents = 4
    Descriptors = 3
    MaxSend = 2
    Window = 1
INVARIANTS
    RunsOnlyWhenGiven
CHECK_DEADLOCK FALSE
