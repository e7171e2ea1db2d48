CONSTANTS
    loop = loop
    manual = manual
    page = page
    Jobs <- TwoJobs
    Scheduler = loop
    Pages <- OnePage
    ReadsAreShort = TRUE
    MaxRuns = 3
    MaxOverruns = 0
    MaxErrors = 0
    MaxCrashes = 1
SPECIFICATION Spec
CHECK_DEADLOCK FALSE
INVARIANT TypeOK
PROPERTY ImplementsStore
PROPERTY PageKeepsData
