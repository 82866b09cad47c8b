CONSTANTS
    None    = None
    Invalid = Invalid
    Feeds  = {f1, f2, f3}
    Levels = {0, 1, 5, 10, 33, 49, 50, 51, 60, 75, 80, 90, 95, 99, 100}
    HexLen    = 3
    MaxNumber = 707
    MaxLonger = 5
CHECK_DEADLOCK FALSE
SPECIFICATION Spec
INVARIANTS CombinesEvidence WithinBounds AutoDefanged AutoLegible DefangedAsTyped SearchFindsStored StixReadsBack
PROPERTY Monotone
