SPECIFICATION Spec
CONSTANTS
    Users = {u1, u2}
    Active = {u1}
    Addresses = {a1, a2}
    Passwords = {p1, p2}
    Secrets = {s1, s2}
    Tokens = {t1}
    Requests = {r1, r2}
    MayFail = TRUE
    NULL = NULL
SYMMETRY Symmetry
VIEW View
INVARIANTS
    TypeOK
    CanSignIn
