------------------------------ MODULE MCAccess ------------------------------
(* The instance of Access for TLC: the routes, masks and symmetries it takes. *)
EXTENDS Access, TLC

\* The route that changes roles, and one of each other kind of decision.
SomeRoutes == {"editRoles", "destroyMessage", "viewServer"}

\* A role of each kind that the decisions tell apart, and a mask out of bounds.
SomeMasks == {{"ADMINISTRATOR"}, {"MANAGE_ROLES", "VIEW_CHANNELS"},
              {"SEND_MESSAGES", "0x1000"}}

\* No action tells two roles, two users but the owner, or two slots apart.
Symmetry == Permutations(Users \ {Owner}) \cup Permutations(CustomRoles)
            \cup Permutations(Requests)
=============================================================================
