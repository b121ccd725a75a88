SPECIFICATION Spec
CONSTANTS
    Users = {u1, u2}
    Owner = u1
    Default = s1
    CustomRoles = {o1, o2}
    Masks <- SomeMasks
    Routes <- SomeRoutes
    Requests = {r1}
    Foreign = TRUE
    NULL = NULL
SYMMETRY Symmetry
INVARIANTS
    TypeOK
    GrantsOnlyHeld
    RefusesOnlyLacking
