SPECIFICATION Spec
CONSTANTS
    Users = {u1, u2}
    Servers = {s1, s2}
    CustomRoles = {o1}
    InvitationIds = {i1}
    Requests = {r1, r2}
    ServerLimit = 1
    MayFail = TRUE
    NULL = NULL
SYMMETRY Symmetry
INVARIANTS
    TypeOK
    ServersComplete
    RolesStayInServer
    NoOrphans
    PrivateByInvitation
