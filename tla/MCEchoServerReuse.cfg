SPECIFICATION Spec
CONSTANTS
    NumHandlers = 2
    MaxConns = 4
    MaxEvents = 2
    Builds = {FALSE}
INVARIANTS
    NoThreadReused
CHECK_DEADLOCK FALSE
