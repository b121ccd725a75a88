----------------------------- MODULE SocialGraph -----------------------------
(***************************************************************************)
(* What the invitation and friend services promise to their users, one     *)
(* atomic step per promise: who has an open invitation with whom, and who  *)
(* is a friend of whom.  Neither relation has a direction.                 *)
(***************************************************************************)
CONSTANT Users

VARIABLES
    invited,      \* pairs with an open invitation
    befriended    \* pairs of friends

Pair == {p \in SUBSET Users : \E u, v \in Users : u # v /\ p = {u, v}}

Init == invited = {} /\ befriended = {}

\* Only strangers are invited, and only once at a time.
Invite(p) ==
    /\ p \notin invited \cup befriended
    /\ invited' = invited \cup {p}
    /\ UNCHANGED befriended

\* A friendship starts from an open invitation.
Befriend(p) ==
    /\ p \in invited \ befriended
    /\ befriended' = befriended \cup {p}
    /\ UNCHANGED invited

\* The answer is recorded.
Close(p) ==
    /\ p \in invited
    /\ invited' = invited \ {p}
    /\ UNCHANGED befriended

\* One user leaves some friends (more than one: see SameKey in Friendship).
Unfriend(u, ps) ==
    /\ ps # {} /\ \A p \in ps : u \in p
    /\ befriended' = befriended \ ps
    /\ UNCHANGED invited

Next ==
    \/ \E p \in Pair : Invite(p) \/ Befriend(p) \/ Close(p)
    \/ \E u \in Users, ps \in SUBSET befriended : Unfriend(u, ps)

Spec == Init /\ [][Next]_<<invited, befriended>>
=============================================================================
