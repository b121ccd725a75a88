SPECIFICATION Spec
CONSTANTS
    Servers = {s1, s2}
    ChannelIds = {c1, c2}
    Requests = {r1, r2}
    NewTypes <- Types
    NewPositions <- Few
    LowestPosition <- Lowest
    MayFail = TRUE
    NULL = NULL
SYMMETRY Symmetry
INVARIANTS
    TypeOK
    TreeStored
    GoesFirst

