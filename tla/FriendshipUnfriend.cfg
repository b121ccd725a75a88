SPECIFICATION Spec
CONSTANTS
    Users = {u1, u2, u3}
    Requests = {r1}
    InvitationIds = {i1, i2}
    ChatIds = {c1, c2}
    PrimaryKey = {"friend_id"}
    MayFail = FALSE
    NULL = NULL
PROPERTIES
    UnfriendsOnlyThePair
