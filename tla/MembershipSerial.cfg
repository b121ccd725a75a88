SPECIFICATION FairSpec
CONSTANTS
    Users = {u1, u2, u3}
    Servers = {s1}
    CustomRoles = {o1}
    InvitationIds = {i1, i2}
    Requests = {r1}
    ServerLimit = 1
    MayFail = FALSE
    NULL = NULL
INVARIANTS
    AdmitsOne
PROPERTIES
    SpentOnceUsed
    ImplementsCommunities
