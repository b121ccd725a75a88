SPECIFICATION FairSpec
CONSTANTS
    Users = {u1, u2}
    Requests = {r1, r2}
    InvitationIds = {i1, i2}
    ChatIds = {c1, c2}
    PrimaryKey = {"friend_id"}
    MayFail = FALSE
    NULL = NULL
INVARIANTS
    FriendsHaveChat
    StrangersStayApart
PROPERTIES
    FriendsGetChat
