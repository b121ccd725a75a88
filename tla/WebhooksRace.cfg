SPECIFICATION Spec
CONSTANTS
    Hooks = {h1, h2}
    Channels = {c1, c2}
    Names = {n1, n2}
    Owners = {u1, NULL}
    PostIds = {p1}
    Requests = {r1, r2}
    MayFail = TRUE
    NULL = NULL
SYMMETRY Symmetry
INVARIANTS
    TypeOK
    HooksAsTold
PROPERTY ImplementsPosters
