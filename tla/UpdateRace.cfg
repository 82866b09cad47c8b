CONSTANTS
    None = None
    p1 = p1  p2 = p2  kev = kev  urlhaus = urlhaus
    Procs = {p1, p2}
    Sources = {urlhaus}
    Conditional = {urlhaus}
    Kev = {}
    Plans <- MCSinglePlans
    Switchable = {urlhaus}
    Parts <- MCParts
    Refused = {}
    MaxVersion = 2
    MaxCrashes = 1
SYMMETRY MCSymmetry
SPECIFICATION Spec
INVARIANTS TypeOK ValidatorsSound RunsTruthful
