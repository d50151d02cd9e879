SPECIFICATION Spec
CONSTANTS
    Contents <- MCContents
    RingSize = 7
    Digits <- MCDigits
    MaxRadio = 1
    MaxTun = 2
INVARIANTS
    TypeOK
    CutsSpoilNeighbours
    BridgeBelieves
PROPERTIES
    MacLearned
CHECK_DEADLOCK FALSE
