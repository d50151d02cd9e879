SPECIFICATION Spec
CONSTANTS
    Devices = {d1, d2}
    NoDevice = none
    MaxLinks = 2
    MaxFails = 0
SYMMETRY Symmetry
INVARIANTS
    QuietWhenConnected
CHECK_DEADLOCK FALSE
