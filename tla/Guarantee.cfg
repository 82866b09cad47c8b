CONSTANTS
    None    = None
    Invalid = Invalid
    Feeds  = {f1}
    Levels = {50}
    HexLen    = 3
    MaxNumber = 707
    MaxLonger = 3
CHECK_DEADLOCK FALSE
SPECIFICATION Spec
INVARIANT DefangGuaranteed
