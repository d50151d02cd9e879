SPECIFICATION Spec
CONSTANTS
    Devices = {d1, d2}
    NoDevice = none
    MaxLinks = 2
    MaxFails = 1
SYMMETRY Symmetry
INVARIANTS
    NotDeaf
    ConnTracked
    OneBall
CHECK_DEADLOCK FALSE
