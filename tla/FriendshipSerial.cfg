SPECIFICATION Spec
CONSTANTS
    Users = {u1, u2, u3}
    Requests = {r1}
    InvitationIds = {i1, i2, i3}
    ChatIds = {c1, c2}
    PrimaryKey = {"friend_id"}
    MayFail = TRUE
    NULL = NULL
SYMMETRY Symmetry
INVARIANTS
    TypeOK
    OneOfEachPerPair
PROPERTIES
    AnsweredOnce
    ImplementsGraph
