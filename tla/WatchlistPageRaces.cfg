CONSTANTS
    a = a  b = b  c = c  d = d  e = e
    Unknown = Unknown
    Rows <- MCRows
    Start <- MCStart
    Slots <- MCSlots
    Matching <- MCMatching
    PageSize = 2
    MaxGestures = 3
    MaxFaults = 2
SPECIFICATION Spec
SYMMETRY Additions
CHECK_DEADLOCK FALSE
INVARIANTS
    TypeOK
    NewIsOnTop
    QuietPageShowsWhatIsStored
    TicksAreOfThisView
PROPERTIES
    AloneDoesWhatItSays
    AloneMendsTheNumbers
