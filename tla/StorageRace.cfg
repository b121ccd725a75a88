SPECIFICATION Spec
CONSTANTS
    Messages = {m1}
    Holders = {h1}
    Attachments = {a1, a2}
    Names = {n1, n2}
    Types = {t1, t2}
    MaxFiles = 3
    Requests = {r1, r2}
    MayFail = TRUE
    NULL = NULL
SYMMETRY Symmetry
CHECK_DEADLOCK FALSE
INVARIANTS
    TypeOK
    DescribedAsStored
    AnnouncedComplete
    PicturesStored
