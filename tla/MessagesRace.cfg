SPECIFICATION Spec
CONSTANTS
    MessageIds = {m1, m2}
    ChannelIds = {c1}
    Contents = {hello, pin}
    NewContents = {hello}
    NewPinned = {TRUE, NULL}
    Announcement = pin
    Requests = {r1, r2}
    MayFail = TRUE
    NULL = NULL
SYMMETRY Symmetry
INVARIANTS
    TypeOK
    ShownAsStored
    GoneIsSignalled
PROPERTIES
    PinsKeepEdits
    ImplementsFeed
