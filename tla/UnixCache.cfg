SPECIFICATION Spec
CONSTANTS
    NoPassword = NoPassword
    u1 = u1
    u2 = u2
    g1 = g1
    g2 = g2
    n1 = n1
    n2 = n2
    staff = staff
    wheel = wheel
    Uuids <- SmallUuids
    GroupUuids <- SmallGroupUuids
    Names <- SmallNames
    Gids <- SmallGids
    Tokens <- SmallTokens
    GroupTokens <- SmallGroupTokens
    Passwords = {p1}
    Expiries = {1}
INVARIANTS TypeOK LookupUnambiguous MembersHaveGroup
PROPERTY PasswordStaysWithAccount
