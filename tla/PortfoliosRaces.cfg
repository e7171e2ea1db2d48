CONSTANTS
    ra = ra
    rb = rb
    Requests <- TwoRequests
    MaxPortfolios = 3
    MaxDeleteRaces = 1
SPECIFICATION Spec
CHECK_DEADLOCK FALSE
SYMMETRY Symmetry
INVARIANT TypeOK
INVARIANT DefaultSurvives
INVARIANT AloneIsNotRefused
PROPERTY NewGoesLast
