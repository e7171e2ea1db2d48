CONSTANTS
    indices = indices
    hotStocks = hotStocks
    g1 = g1
    None = None
    Global = Global
    Modules <- InOrder
    Delayed <- Later
    Groups <- AllGroups
    MaxGestures = 3
    MaxFaults = 1
SPECIFICATION FairSpec
CHECK_DEADLOCK FALSE
INVARIANT TypeOK
PROPERTY ShownAgainIsRefreshed
PROPERTY SweepEnds
PROPERTY SyncIsShown
PROPERTY BusyEnds
