CONSTANTS
    loop = loop
    manual = manual
    page = page
    Jobs <- TwoJobs
    Scheduler = loop
    Pages <- NoPage
    ReadsAreShort = FALSE
    MaxRuns = 2
    MaxOverruns = 1
    MaxErrors = 1
    MaxCrashes = 1
SPECIFICATION FairSpec
CHECK_DEADLOCK FALSE
INVARIANT SingleFlight
PROPERTY FreesOnlyItsOwn
PROPERTY KeepsRefreshing
PROPERTY BadgeGoesOut
