CONSTANTS
    alice = alice
    id1000 = id1000
    a1 = a1
    Lookups = {}
    SignIns = {t1, t2}
    Names <- OneName
    Gids <- OneGid
    gid <- OneGidMap
    RealUuid <- OneUuid
    FakeUuids = {f1}
    Passwords = {p1, p2}
    NoPassword = NoPassword
    NoToken = NoToken
    Breakglass = FALSE
    SfaFallback = TRUE
    Confidential = FALSE
    MaxRev = 2
    MaxEvents = 1
SYMMETRY Symmetric
SPECIFICATION Spec
PROPERTY OfflinePasswordWasAccepted
