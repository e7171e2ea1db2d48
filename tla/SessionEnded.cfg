CONSTANTS
    ann = ann
    ben = ben
    s1 = s1
    s2 = s2
    None = None
    SignedOut = SignedOut
    Users <- OneUser
    Sessions <- TwoSessions
    MaxChanges = 0
    MaxFaults = 1
SPECIFICATION FairSpec
CHECK_DEADLOCK FALSE
PROPERTY EndedSessionReachesLogin
