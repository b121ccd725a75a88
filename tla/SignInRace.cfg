SPECIFICATION Spec
CONSTANTS
    Users = {u1, u2}
    Tokens = {t1}
    PassKeys = {k1, k2}
    Lifetime = 1
    Requests = {r1, r2}
    MayFail = TRUE
    NULL = NULL
SYMMETRY Symmetry
INVARIANTS
    TypeOK
    SpentIsGone
    CodesAsAnnounced
PROPERTIES
    DropsOnlyStale
    ImplementsCodes
