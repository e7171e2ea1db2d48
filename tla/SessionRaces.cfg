CONSTANTS
    ann = ann
    ben = ben
    s1 = s1
    s2 = s2
    None = None
    SignedOut = SignedOut
    Users <- TwoUsers
    Sessions <- TwoSessions
    MaxChanges = 1
    MaxFaults = 1
SPECIFICATION FairSpec
CHECK_DEADLOCK FALSE
INVARIANT TypeOK
INVARIANT CacheOfOneAccount
INVARIANT OldPasswordOpensNothing
PROPERTY RevokedForGood
PROPERTY StaleDisplayEnds
