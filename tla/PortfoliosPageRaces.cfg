CONSTANTS
    p1 = p1
    p2 = p2
    p3 = p3
    h1 = h1
    h2 = h2
    h3 = h3
    None = None
    Unknown = Unknown
    Portfolios <- AllPortfolios
    Holdings <- AllHoldings
    Start <- AtStart
    Home <- AtHome
    Matching <- OnlyFirst
    PageSize = 2
    MaxGestures = 4
    MaxFaults = 1
SPECIFICATION FairSpec
CHECK_DEADLOCK FALSE
INVARIANT TypeOK
INVARIANT QuietPageShowsWhatIsStored
INVARIANT DeletedIsForgotten
PROPERTY OneSwapAtATime
PROPERTY EffectsEnd
