CONSTANTS
    overview = overview
    quotes = quotes
    valuations = valuations
    la = la
    lb = lb
    ca = ca
    None = None
    Keys <- TwoKeys
    Locked <- OverviewOnly
    Backed <- TwoKeys
    Named <- QuotesOnly
    Scanned <- OverviewOnly
    Loads <- TwoLoads
    Changes <- OneChange
    MaxLoads = 2
    MaxEdits = 2
    MaxSwitches = 3
    MaxOverlaps = 1
    MaxFaults = 1
SPECIFICATION FairSpec
CHECK_DEADLOCK FALSE
INVARIANT TypeOK
INVARIANT ConfigurationsStaySeparate
INVARIANT FallbackIsLatest
PROPERTY NeverBackInTime
PROPERTY LoadsEnd
