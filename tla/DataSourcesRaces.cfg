CONSTANTS
    keyed = keyed
    oauth = oauth
    calendar = calendar
    u1 = u1
    u2 = u2
    c1 = c1
    c2 = c2
    ra = ra
    rb = rb
    None = None
    Sources <- TwoSources
    OAuthSources <- OneOAuth
    Families <- OneFamily
    FamilyOf <- InOneFamily
    Urls <- TwoUrls
    Creds <- TwoCreds
    Requests <- TwoRequests
    MaxRivals = 1
    MaxClashes = 1
SPECIFICATION Spec
CHECK_DEADLOCK FALSE
SYMMETRY Symmetry
INVARIANT TypeOK
INVARIANT OneActiveWithoutRivals
INVARIANT ActiveIsTested
