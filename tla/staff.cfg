CONSTANTS
    Requests = {r1, r2}
    Offered <- CheckedUseCases
    InvitationIds = {i1, i2}
    Tokens = {t1, t2}
    Passwords = {p1, p2}
    Ttl = 1
    Horizon = 2
    NoId = NoId
    NoToken = NoToken
    NoPassword = NoPassword
SPECIFICATION Spec
SYMMETRY MembershipSymmetry
INVARIANTS MembershipInv TokenKeyNeverRefuses
PROPERTIES LinksStayDead RosterUnlessStale
