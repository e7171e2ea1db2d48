CONSTANTS
    overview = overview
    quotes = quotes
    valuations = valuations
    la = la
    lb = lb
    ca = ca
    None = None
    Keys <- Valuations
    Locked <- Nothing
    Backed <- Nothing
    Named <- Nothing
    Scanned <- Nothing
    Loads <- TwoLoads
    Changes <- OneChange
    MaxLoads = 3
    MaxEdits = 2
    MaxSwitches = 2
    MaxOverlaps = 0
    MaxFaults = 0
SPECIFICATION Spec
CHECK_DEADLOCK FALSE
INVARIANT NoKeyIsMixed
