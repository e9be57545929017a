CONSTANTS
    alice = alice
    id1000 = id1000
    a1 = a1
    Lookups = {t1}
    SignIns = {t2}
    Names <- OneName
    Gids <- OneGid
    gid <- OneGidMap
    RealUuid <- OneUuid
    FakeUuids = {f1}
    Passwords = {p1, p2}
    NoPassword = NoPassword
    NoToken = NoToken
    Breakglass = TRUE
    SfaFallback = FALSE
    Confidential = FALSE
    MaxRev = 2
    MaxEvents = 1
SPECIFICATION Spec
PROPERTY KeptTokenIsCached
