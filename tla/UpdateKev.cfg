CONSTANTS
    None = None
    p1 = p1  p2 = p2  kev = kev  urlhaus = urlhaus
    Procs = {p1}
    Sources = {kev, urlhaus}
    Conditional = {urlhaus}
    Kev = {kev}
    Plans <- MCKevPlans
    Switchable = {}
    Parts <- MCParts
    Refused = {}
    MaxVersion = 1
    MaxCrashes = 1
SPECIFICATION Spec
INVARIANTS EverySourceHandled RunsTruthful
PROPERTY ImplementsMirror
