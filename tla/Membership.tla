----------------------------- MODULE Membership -----------------------------
(***************************************************************************)
(* Servers, their members and roles, and the invitations that let users    *)
(* join: ServerService, MemberService, RoleService and the server half of  *)
(* InvitationService.                                                      *)
(*                                                                         *)
(* A request that joins a server runs for several awaited statements, one  *)
(* action each; createFromInvitation does not await the creation of the    *)
(* member, which then runs beside the save of the invitation.  The other   *)
(* handlers write once, after reads of columns that no statement changes   *)
(* (the server of a role or of a member, the owner and the visibility of a *)
(* server) and of rows whose presence the foreign keys check again: they   *)
(* are one action.  The policies of these routes always admit the owner,   *)
(* a member with every permission as long as ServersComplete holds, so the *)
(* caller of a role or invitation route is left out.                       *)
(***************************************************************************)
EXTENDS FiniteSets, Naturals

CONSTANTS
    Users,          \* rows of the table users
    Servers,        \* bound: the UUIDs that may be given to servers
    CustomRoles,    \* bound: the UUIDs that may be given to further roles
    InvitationIds,  \* bound: the UUIDs that may be given to invitations
    Requests,       \* slots for join requests being served at the same time
    ServerLimit,    \* 50 in ServerService.create
    MayFail,        \* whether an awaited call may reject (or the process die)
    NULL

Roles == Servers \cup CustomRoles    \* the default role has its server's id

Server == [owner: Users, public: BOOLEAN]
Role == [server: Servers, basic: BOOLEAN]    \* basic: named DEFAULT_ROLE_SERVER
Invitation == [server: Servers, status: {"Unlimited", "Pending", "Accepted"}]
Seat == Servers \X Users             \* a member, by the unique (server_id, user_id)

ASSUME MembershipAssumption ==
    /\ Servers \cap CustomRoles = {}
    /\ ServerLimit \in Nat
    /\ MayFail \in BOOLEAN
    /\ NULL \notin Server \cup Role \cup Invitation
    /\ NULL \notin Users \cup Roles \cup InvitationIds

VARIABLES
    server,         \* server id -> row, NULL when there is none
    role,           \* role id -> row, NULL when there is none
    invitation,     \* invitation id -> row, NULL when there is none
    members,        \* seats taken
    held,           \* member_role: <<seat, role id>>
    req,            \* slot -> where the join is, and its local variables
    admitted        \* history: <<invitation id, seat>> of rows inserted by a join

rows == <<server, role, invitation, members, held>>
vars == <<server, role, invitation, members, held, req, admitted>>

Labels == {"idle", "insertMember", "findDefaultRole", "attachRole", "respond"}

\* save: the invitation is still to be saved; role: the default role found.
Request == [pc: Labels, server: Servers \cup {NULL}, user: Users \cup {NULL},
            inv: InvitationIds \cup {NULL}, save: BOOLEAN,
            role: Roles \cup {NULL}]

Idle == [pc |-> "idle", server |-> NULL, user |-> NULL, inv |-> NULL,
         save |-> FALSE, role |-> NULL]

TypeOK ==
    /\ server \in [Servers -> Server \cup {NULL}]
    /\ role \in [Roles -> Role \cup {NULL}]
    /\ invitation \in [InvitationIds -> Invitation \cup {NULL}]
    /\ members \subseteq Seat
    /\ held \subseteq Seat \X Roles
    /\ req \in [Requests -> Request]
    /\ admitted \subseteq InvitationIds \X Seat

Init ==
    /\ server = [s \in Servers |-> NULL]
    /\ role = [o \in Roles |-> NULL]
    /\ invitation = [i \in InvitationIds |-> NULL]
    /\ members = {}
    /\ held = {}
    /\ req = [r \in Requests |-> Idle]
    /\ admitted = {}

-----------------------------------------------------------------------------
StoredServers == {s \in Servers : server[s] # NULL}
StoredRoles == {o \in Roles : role[o] # NULL}
StoredInvitations == {i \in InvitationIds : invitation[i] # NULL}

SeatOf(r) == <<req[r].server, req[r].user>>

\* findByUserId counts the rows of servers_users, a pivot no statement fills.
ServersListed(u) == {}

\* The creation of the member ends; the slot is free when no save is left.
EndCreation(r) ==
    req' = [req EXCEPT ![r] = IF req[r].save
                                THEN [req[r] EXCEPT !.pc = "respond"]
                                ELSE Idle]
-----------------------------------------------------------------------------
\* Faults: what each property is tested against is the action of the same place
\* with the mistake its name says.

CreateInvitationWithoutServer(i, s, unique) ==
    /\ invitation[i] = NULL
    /\ s \in StoredServers
    /\ ~server[s].public
    /\ invitation' = [invitation EXCEPT ![i] =
            [server |-> NULL, status |-> IF unique THEN "Pending" ELSE "Unlimited"]]
    /\ UNCHANGED <<server, role, members, held, req, admitted>>

DeleteAnyRole(o) ==
    /\ o \in StoredRoles
    /\ role' = [role EXCEPT ![o] = NULL]
    /\ held' = {h \in held : h[2] # o}
    /\ UNCHANGED <<server, invitation, members, req, admitted>>

AssignAcrossServers(o, seats) ==
    /\ o \in StoredRoles \ Servers
    /\ \A m \in seats : m \in members /\ <<m, o>> \notin held
    /\ held' = held \cup (seats \X {o})
    /\ UNCHANGED <<server, role, invitation, members, req, admitted>>

JoinAnyServer(r, u, s) ==
    /\ req[r] = Idle
    /\ s \in StoredServers
    /\ req' = [req EXCEPT ![r] = [Idle EXCEPT !.pc = "insertMember",
                                              !.server = s, !.user = u]]
    /\ UNCHANGED <<rows, admitted>>

JoinWithoutStatusCheck(r, u, i) ==
    /\ req[r] = Idle
    /\ i \in StoredInvitations
    /\ req' = [req EXCEPT ![r] =
            [pc |-> "insertMember", server |-> invitation[i].server, user |-> u,
             inv |-> i, save |-> invitation[i].status # "Unlimited", role |-> NULL]]
    /\ UNCHANGED <<rows, admitted>>

SaveNothing(r) ==
    /\ req[r].save
    /\ req' = [req EXCEPT ![r] = IF req[r].pc = "respond" THEN Idle
                                 ELSE [req[r] EXCEPT !.save = FALSE]]
    /\ UNCHANGED <<rows, admitted>>

InsertMemberUnchecked(r) ==
    /\ req[r].pc = "insertMember"
    /\ members' = members \cup {SeatOf(r)}
    /\ req' = [req EXCEPT ![r].pc = "findDefaultRole"]
    /\ UNCHANGED <<server, role, invitation, held, admitted>>
-----------------------------------------------------------------------------
\* ServerService.

\* The server, its owner's membership and its default role: one transaction.
CreateServer(s, u, public) ==
    /\ server[s] = NULL
    /\ \A r \in Requests : req[r].server # s      \* a new UUID
    /\ Cardinality(ServersListed(u)) < ServerLimit
    /\ server' = [server EXCEPT ![s] = [owner |-> u, public |-> public]]
    /\ members' = members \cup {<<s, u>>}
    /\ role' = [role EXCEPT ![s] = [server |-> s, basic |-> TRUE]]
    /\ UNCHANGED <<invitation, held, req, admitted>>

\* The foreign keys cascade.
DeleteServer(s) ==
    /\ s \in StoredServers
    /\ server' = [server EXCEPT ![s] = NULL]
    /\ role' = [o \in Roles |->
                  IF o \in StoredRoles /\ role[o].server = s THEN NULL ELSE role[o]]
    /\ invitation' = [i \in InvitationIds |->
                  IF i \in StoredInvitations /\ invitation[i].server = s
                    THEN NULL ELSE invitation[i]]
    /\ members' = {m \in members : m[1] # s}
    /\ held' = {h \in held : h[1][1] # s /\ role[h[2]].server # s}
    /\ admitted' = {a \in admitted : a[2][1] # s}
    /\ UNCHANGED req

\* InvitationService.createForServer: a unique invitation starts Pending.
CreateInvitation(i, s, unique) ==
    /\ invitation[i] = NULL
    /\ \A r \in Requests : req[r].inv # i         \* a new UUID
    /\ s \in StoredServers
    /\ ~server[s].public
    /\ invitation' = [invitation EXCEPT ![i] =
            [server |-> s, status |-> IF unique THEN "Pending" ELSE "Unlimited"]]
    /\ UNCHANGED <<server, role, members, held, req, admitted>>

-----------------------------------------------------------------------------
\* RoleService.

CreateRole(o, s, basic) ==
    /\ o \in CustomRoles
    /\ role[o] = NULL
    /\ \A r \in Requests : req[r].role # o        \* a new UUID
    /\ s \in StoredServers
    /\ role' = [role EXCEPT ![o] = [server |-> s, basic |-> basic]]
    /\ UNCHANGED <<server, invitation, members, held, req, admitted>>

\* The default role keeps its name: only its permissions are merged.
RenameRole(o, basic) ==
    /\ o \in StoredRoles
    /\ o # role[o].server
    /\ role' = [role EXCEPT ![o].basic = basic]
    /\ UNCHANGED <<server, invitation, members, held, req, admitted>>

DeleteRole(o) ==
    /\ o \in StoredRoles
    /\ o # role[o].server
    /\ role' = [role EXCEPT ![o] = NULL]
    /\ held' = {h \in held : h[2] # o}
    /\ UNCHANGED <<server, invitation, members, req, admitted>>

\* assign and assignToMembers: one INSERT, which fails as a whole when a member
\* is missing or already has the role.
Assign(o, seats) ==
    /\ o \in StoredRoles
    /\ o # role[o].server
    /\ \A m \in seats : /\ m \in members
                        /\ m[1] = role[o].server
                        /\ <<m, o>> \notin held
    /\ held' = held \cup (seats \X {o})
    /\ UNCHANGED <<server, role, invitation, members, req, admitted>>

Unassign(o, m) ==
    /\ o \in StoredRoles
    /\ held' = held \ {<<m, o>>}
    /\ UNCHANGED <<server, role, invitation, members, req, admitted>>

-----------------------------------------------------------------------------
\* MemberService: joining.

\* createForServer
JoinPublic(r, u, s) ==
    /\ req[r] = Idle
    /\ s \in StoredServers
    /\ server[s].public
    /\ req' = [req EXCEPT ![r] = [Idle EXCEPT !.pc = "insertMember",
                                              !.server = s, !.user = u]]
    /\ UNCHANGED <<rows, admitted>>

\* createFromInvitation reads the invitation, starts create and does not wait;
\* an expired invitation is refused, which changes nothing.
JoinPrivate(r, u, i) ==
    /\ req[r] = Idle
    /\ i \in StoredInvitations
    /\ invitation[i].status \in {"Pending", "Unlimited"}
    /\ req' = [req EXCEPT ![r] =
            [pc |-> "insertMember", server |-> invitation[i].server, user |-> u,
             inv |-> i, save |-> invitation[i].status # "Unlimited", role |-> NULL]]
    /\ UNCHANGED <<rows, admitted>>

SaveInvitation(r) ==
    /\ req[r].save
    /\ invitation' = IF req[r].inv \in StoredInvitations
                       THEN [invitation EXCEPT ![req[r].inv].status = "Accepted"]
                       ELSE invitation
    /\ req' = [req EXCEPT ![r] = IF req[r].pc = "respond" THEN Idle
                                 ELSE [req[r] EXCEPT !.save = FALSE]]
    /\ UNCHANGED <<server, role, members, held, admitted>>

\* The foreign key refuses a server that is gone, the unique constraint a second
\* membership: UserAlreadyMember in both cases.
InsertMember(r) ==
    /\ req[r].pc = "insertMember"
    /\ IF req[r].server \in StoredServers /\ SeatOf(r) \notin members
         THEN /\ members' = members \cup {SeatOf(r)}
              /\ admitted' = admitted \cup ({req[r].inv} \ {NULL}) \X {SeatOf(r)}
              /\ req' = [req EXCEPT ![r].pc = "findDefaultRole"]
         ELSE /\ EndCreation(r)
              /\ UNCHANGED <<members, admitted>>
    /\ UNCHANGED <<server, role, invitation, held>>

\* first() of an unordered query by name: names are not unique.
FindDefaultRole(r) ==
    /\ req[r].pc = "findDefaultRole"
    /\ LET found == {o \in StoredRoles : role[o].server = req[r].server /\ role[o].basic}
       IN  \/ found = {} /\ EndCreation(r)
           \/ \E o \in found :
                req' = [req EXCEPT ![r].pc = "attachRole", ![r].role = o]
    /\ UNCHANGED <<rows, admitted>>

\* Refused by the foreign keys when the member or the role is gone.
AttachRole(r) ==
    /\ req[r].pc = "attachRole"
    /\ held' = IF SeatOf(r) \in members /\ req[r].role \in StoredRoles
                 THEN held \cup {<<SeatOf(r), req[r].role>>}
                 ELSE held
    /\ EndCreation(r)
    /\ UNCHANGED <<server, role, invitation, members, admitted>>

-----------------------------------------------------------------------------
\* An awaited call rejects: the creation, or the save of the invitation, stops
\* there, and what was written stays.

FailCreation(r) ==
    /\ MayFail
    /\ req[r].pc \notin {"idle", "respond"}
    /\ EndCreation(r)
    /\ UNCHANGED <<rows, admitted>>

FailSave(r) ==
    /\ MayFail
    /\ req[r].save
    /\ req' = [req EXCEPT ![r] = IF req[r].pc = "respond" THEN Idle
                                 ELSE [req[r] EXCEPT !.save = FALSE]]
    /\ UNCHANGED <<rows, admitted>>

Manage ==
    \/ \E s \in Servers, u \in Users, public \in BOOLEAN : CreateServer(s, u, public)
    \/ \E s \in Servers : DeleteServer(s)
    \/ \E i \in InvitationIds, s \in Servers, unique \in BOOLEAN :
          CreateInvitation(i, s, unique)
    \/ \E o \in Roles, s \in Servers, basic \in BOOLEAN : CreateRole(o, s, basic)
    \/ \E o \in Roles, basic \in BOOLEAN : RenameRole(o, basic)
    \/ \E o \in Roles : DeleteRole(o)
    \/ \E o \in Roles, seats \in SUBSET members : Assign(o, seats)
    \/ \E o \in Roles, m \in members : Unassign(o, m)

Join(r) ==
    \/ \E u \in Users, s \in Servers : JoinPublic(r, u, s)
    \/ \E u \in Users, i \in InvitationIds : JoinPrivate(r, u, i)

Create(r) == InsertMember(r) \/ FindDefaultRole(r) \/ AttachRole(r)

Next ==
    \/ Manage
    \/ \E r \in Requests : \/ Join(r) \/ Create(r) \/ SaveInvitation(r)
                           \/ FailCreation(r) \/ FailSave(r)

Spec == Init /\ [][Next]_vars

\* Node runs every continuation whose awaited call has settled.
FairSpec == Spec /\ \A r \in Requests : WF_vars(Create(r)) /\ WF_vars(SaveInvitation(r))

-----------------------------------------------------------------------------
\* Properties.

\* Every server has its owner among its members and its default role, named and
\* identified as such: getMemberPermissions, and with it every policy, answers
\* 404 when one of them is missing.
ServersComplete ==
    \A s \in StoredServers :
        /\ <<s, server[s].owner>> \in members
        /\ role[s] = [server |-> s, basic |-> TRUE]

\* A member holds roles of its own server only (E_MEMBER_NOT_IN_SERVER), though
\* a join looks the role up by name and attaches it after other requests ran.
RolesStayInServer ==
    \A h \in held : /\ h[1] \in members
                    /\ h[2] \in StoredRoles
                    /\ role[h[2]].server = h[1][1]

\* The deletion of a server leaves nothing of it behind, whatever join is on
\* its way to insert.
NoOrphans ==
    /\ \A m \in members : m[1] \in StoredServers
    /\ \A o \in StoredRoles : role[o].server \in StoredServers
    /\ \A i \in StoredInvitations : invitation[i].server \in StoredServers

\* E_PRIVATE_SERVER: nobody but the owner is member of a private server without
\* one of its invitations.
PrivateByInvitation ==
    \A m \in members :
        LET row == server[m[1]]
        IN  row.public \/ m[2] = row.owner \/ \E i \in StoredInvitations :
               <<i, m>> \in admitted /\ invitation[i].server = m[1]

\* A unique invitation lets one user in (E_UNUSABLE_INVITATION).  It needs one
\* request at a time and no failure.
AdmitsOne ==
    \A i \in StoredInvitations : invitation[i].status # "Unlimited" =>
        Cardinality({a \in admitted : a[1] = i}) <= 1

\* What an invitation is worth: a join keeps a unique one from when it reads it
\* until it inserts the member, or fails to, whenever the status is saved.
Kept(i) == \E r \in Requests : req[r].inv = i /\ req[r].pc = "insertMember"
ToSave(i) == \E r \in Requests : req[r].inv = i /\ req[r].save
Worth(i) ==
    IF invitation[i].status = "Unlimited" THEN "Unlimited"
    ELSE IF ~Kept(i) /\ (invitation[i].status = "Accepted" \/ ToSave(i)) THEN "Accepted"
    ELSE "Pending"

Invites ==
    [i \in InvitationIds |->
        IF i \in StoredInvitations THEN [invitation[i] EXCEPT !.status = Worth(i)] ELSE NULL]

Community == INSTANCE Communities WITH
    community <- server, inside <- members, invites <- Invites

\* Although the status is saved beside the insertion, and either may come first,
\* an invitation is spent as the user it lets in enters: every step is one of
\* Communities or none.  It needs one request at a time and no failed save.
ImplementsCommunities == Community!Spec

\* Having let somebody in, a unique invitation ends up refused to others.
SpentOnceUsed ==
    \A i \in InvitationIds :
        (\E a \in admitted : a[1] = i)
            ~> (i \in StoredInvitations => invitation[i].status # "Pending")
=============================================================================
