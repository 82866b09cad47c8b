CONSTANTS
    None = None
    p1 = p1  p2 = p2  kev = kev  urlhaus = urlhaus
    Procs = {p1}
    Sources = {urlhaus}
    Conditional = {urlhaus}
    Kev = {}
    Plans <- MCSinglePlans
    Switchable = {}
    Parts <- MCParts
    Refused <- MCRefused
    MaxVersion = 3
    MaxCrashes = 1
SPECIFICATION FairSpec
PROPERTY CatchesUp
