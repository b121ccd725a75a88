---------------------------- MODULE MCMembership ----------------------------
(* Instances of Membership for TLC: the values are model values of the cfgs. *)
EXTENDS Membership, TLC

\* No action tells two users, servers, roles, invitations or slots apart.
Symmetry == Permutations(Users) \cup Permutations(Servers)
            \cup Permutations(CustomRoles) \cup Permutations(InvitationIds)
            \cup Permutations(Requests)
=============================================================================
