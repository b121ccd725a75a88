---------------------------- MODULE MCFriendship ----------------------------
(* Instances of Friendship for TLC: the values are model values of the cfgs. *)
EXTENDS Friendship, TLC

\* Users, ids and slots are interchangeable: no action tells one from another.
Symmetry == Permutations(Users) \cup Permutations(InvitationIds)
            \cup Permutations(ChatIds) \cup Permutations(Requests)
=============================================================================
