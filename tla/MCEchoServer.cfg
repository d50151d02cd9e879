SPECIFICATION Spec
CONSTANTS
    NumHandlers = 2
    MaxConns = 4
    MaxEvents = 2
    Builds = {TRUE, FALSE}
INVARIANTS
    TypeOK
    ServesOwn
    NoThreadReusedIfCooperative
    StopReleases
PROPERTIES
    SlotReturns
    ImplementsConnections
CHECK_DEADLOCK FALSE
