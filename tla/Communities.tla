---------------------------- MODULE Communities ----------------------------
(***************************************************************************)
(* What the services for servers, members and invitations promise, one     *)
(* atomic step per promise: which servers there are, who is inside each,   *)
(* and which invitations are still good for entering.  Nobody enters but   *)
(* through the open door of a public server or by an invitation, and a     *)
(* unique invitation is spent in the very step that lets somebody in.      *)
(***************************************************************************)
CONSTANTS Users, Servers, InvitationIds, NULL

VARIABLES
    community,    \* server -> its owner and whether it is public, NULL if none
    inside,       \* <<server, user>>: who is where
    invites       \* invitation -> its server and what it is worth, NULL if none

Init ==
    /\ community = [s \in Servers |-> NULL]
    /\ inside = {}
    /\ invites = [i \in InvitationIds |-> NULL]

Found(s, u, public) ==
    /\ community[s] = NULL
    /\ community' = [community EXCEPT ![s] = [owner |-> u, public |-> public]]
    /\ inside' = inside \cup {<<s, u>>}
    /\ UNCHANGED invites

\* A server goes with everybody inside and every invitation to it.
Disband(s) ==
    /\ community[s] # NULL
    /\ community' = [community EXCEPT ![s] = NULL]
    /\ inside' = {m \in inside : m[1] # s}
    /\ invites' = [i \in InvitationIds |->
          IF invites[i] # NULL /\ invites[i].server = s THEN NULL ELSE invites[i]]

\* Pending: good for one user.
Invite(i, s, unique) ==
    /\ invites[i] = NULL
    /\ community[s] # NULL /\ ~community[s].public
    /\ invites' = [invites EXCEPT ![i] =
          [server |-> s, status |-> IF unique THEN "Pending" ELSE "Unlimited"]]
    /\ UNCHANGED <<community, inside>>

Enter(s, u) ==
    /\ community[s] # NULL /\ community[s].public
    /\ <<s, u>> \notin inside
    /\ inside' = inside \cup {<<s, u>>}
    /\ UNCHANGED <<community, invites>>

Spent(i) == [invites EXCEPT ![i].status = "Accepted"]

EnterInvited(i, u) ==
    /\ invites[i] # NULL
    /\ invites[i].status \in {"Pending", "Unlimited"}
    /\ <<invites[i].server, u>> \notin inside
    /\ inside' = inside \cup {<<invites[i].server, u>>}
    /\ invites' = IF invites[i].status = "Pending" THEN Spent(i) ELSE invites
    /\ UNCHANGED community

\* A unique invitation is used up by somebody who is not let in: who is inside
\* already, or whose join failed.
Waste(i) ==
    /\ invites[i] # NULL
    /\ invites[i].status = "Pending"
    /\ invites' = Spent(i)
    /\ UNCHANGED <<community, inside>>

Next ==
    \/ \E s \in Servers, u \in Users, public \in BOOLEAN : Found(s, u, public)
    \/ \E s \in Servers : Disband(s)
    \/ \E i \in InvitationIds, s \in Servers, unique \in BOOLEAN : Invite(i, s, unique)
    \/ \E s \in Servers, u \in Users : Enter(s, u)
    \/ \E i \in InvitationIds, u \in Users : EnterInvited(i, u)
    \/ \E i \in InvitationIds : Waste(i)

Spec == Init /\ [][Next]_<<community, inside, invites>>
=============================================================================
