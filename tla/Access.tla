------------------------------- MODULE Access -------------------------------
(***************************************************************************)
(* Who may do what in a server: the policies that the controllers of       *)
(* servers, channels, members, roles, invitations and messages await       *)
(* before they act, on the permissions that RoleService computes from the  *)
(* roles of the caller.                                                    *)
(*                                                                         *)
(* A policy reads the permissions once for its hook "before", which lets   *)
(* administrators through, then again for the action; each time the roles  *)
(* of the member are read first and the default role of the server after.  *)
(* Roles may change between any two reads, by requests that such a policy  *)
(* admitted: on this server or on another, as a role is then named by its  *)
(* id alone.  Left out: the routes that do not wait for an answer of their *)
(* policy (the deletions of servers and of channels), webhooks, whose      *)
(* policy is to be a member, and private chats, whose policy is to be one  *)
(* of their two users.                                                     *)
(***************************************************************************)
EXTENDS FiniteSets, Naturals

CONSTANTS
    Users,          \* rows of the table users
    Owner,          \* of the server: owner_id is never written again
    Default,        \* the id of the server, and of its default role
    CustomRoles,    \* bound: the UUIDs that may be given to further roles
    Masks,          \* bound: the masks that requests give to roles
    Routes,         \* bound: the routes that are asked for
    Requests,       \* slots for HTTP requests being served at the same time
    Foreign,        \* bound: whether requests admitted on other servers write its roles
    NULL

\* A mask is the set of its bits; the bits of the enum are named.
Permissions ==
    {"ADMINISTRATOR", "MANAGE_SERVER", "MANAGE_ROLES", "CREATE_INVITATION",
     "MANAGE_CHANNELS", "MANAGE_WEBHOOKS", "VIEW_CHANNELS", "SEND_MESSAGES",
     "MANAGE_NICKNAMES", "CHANGE_NICKNAME", "MANAGE_MESSAGES", "ATTACH_FILES"}

Roles == CustomRoles \cup {Default}

\* As a mask is also limited to the length and to the sum of the enum, its bits
\* are those of the enum.
isValidMask(mask) == mask \subseteq Permissions

-----------------------------------------------------------------------------
\* The rules of the policies: a way to be admitted on a route, to those who hold
\* what it needs.  own: the subject of the request is the caller, as the member
\* to rename or the author of the message.

Rule(routes, own, needs) == [route: routes, own: own, needs: {needs}]

ServerRules == Rule({"viewServer"}, BOOLEAN, {})
               \cup Rule({"editServer"}, BOOLEAN, {"MANAGE_SERVER"})
\* editRoles: to read or write them, which has the same rule for each of the writes.
RoleRules == Rule({"editRoles"}, BOOLEAN, {"MANAGE_ROLES"})
ChannelRules == Rule({"viewChannels"}, BOOLEAN, {"VIEW_CHANNELS"})
                \cup Rule({"createChannel", "updateChannel"}, BOOLEAN, {"MANAGE_CHANNELS"})
InvitationRules == Rule({"createInvitation"}, BOOLEAN, {"CREATE_INVITATION"})
MemberRules == Rule({"viewMembers"}, BOOLEAN, {})
               \cup Rule({"updateNickname"}, BOOLEAN, {"MANAGE_NICKNAMES"})
               \cup Rule({"updateNickname"}, {TRUE}, {"CHANGE_NICKNAME"})
MessageRules == Rule({"showMessages", "pinMessage"}, BOOLEAN, {})
                \cup Rule({"storeMessage", "updateMessage", "destroyMessage"},
                          BOOLEAN, {"SEND_MESSAGES"})
                \cup Rule({"destroyMessage"}, BOOLEAN, {"MANAGE_MESSAGES"})
                \cup Rule({"updateMessage", "destroyMessage"}, {TRUE}, {})

Rules == ServerRules \cup RoleRules \cup ChannelRules \cup InvitationRules
         \cup MemberRules \cup MessageRules

Ways(route, own) == {w.needs : w \in {x \in Rules : x.route = route /\ x.own = own}}

\* What the hook "before" asks of all but administrators.
Gate(route) ==
    IF \E x \in MessageRules : x.route = route THEN {"VIEW_CHANNELS"} ELSE {}

\* Who is to be admitted: members with these permissions.
Admits(route, own, gifts) ==
    /\ "member" \in gifts
    /\ \/ "ADMINISTRATOR" \in gifts
       \/ Gate(route) \subseteq gifts /\ \E needs \in Ways(route, own) : needs \subseteq gifts

ASSUME AccessAssumption ==
    /\ Owner \in Users
    /\ Default \notin CustomRoles
    /\ Routes \subseteq {x.route : x \in Rules}
    /\ NULL \notin Users /\ NULL \notin Routes /\ NULL \notin Requests
    /\ "server" \notin Roles
    /\ Foreign \in BOOLEAN

VARIABLES
    members,        \* the users with a member of the server
    roles,          \* the ids of the roles there are
    mask,           \* role id -> permissions, none when there is no such role
    held,           \* member_role: <<user, role id>>
    req,            \* slot -> where the request is, and its local variables
    ever,           \* history: slot -> what the caller was or held at some time
                    \* from the request to its decision
    steady          \* history: slot -> <<where from, what>> that the caller was
                    \* or held all that time

rows == <<members, roles, mask, held>>
vars == <<rows, req, ever, steady>>

Labels == {"idle", "present", "roles", "default", "granted", "refused"}
Sources == Roles \cup {"server"}
Gifts == Permissions \cup {"member"}

\* hook: whether the permissions are read for "before"; mask: those read so far.
Request == [pc: Labels, user: Users \cup {NULL}, route: Routes \cup {NULL},
            own: BOOLEAN, hook: BOOLEAN, mask: SUBSET Permissions]

Idle == [pc |-> "idle", user |-> NULL, route |-> NULL, own |-> FALSE,
         hook |-> FALSE, mask |-> {}]

TypeOK ==
    /\ members \subseteq Users
    /\ roles \subseteq Roles
    /\ mask \in [Roles -> SUBSET Permissions]
    /\ held \subseteq Users \X Roles
    /\ req \in [Requests -> Request]
    /\ ever \in [Requests -> SUBSET Gifts]
    /\ steady \in [Requests -> SUBSET (Sources \X Gifts)]

\* The server as ServerService.create leaves it.
Init ==
    /\ members = {Owner}
    /\ roles = {Default}
    /\ mask = [o \in Roles |-> IF o = Default
                 THEN {"VIEW_CHANNELS", "SEND_MESSAGES", "ATTACH_FILES"} ELSE {}]
    /\ held = {}
    /\ req = [r \in Requests |-> Idle]
    /\ ever = [r \in Requests |-> {}]
    /\ steady = [r \in Requests |-> {}]

-----------------------------------------------------------------------------
Alive == Default \in roles             \* the server and its default role
RolesOf(u) == {o \in Roles : <<u, o>> \in held}
MasksOf(some) == UNION {mask[o] : o \in some}

\* What u is and holds, and where from, as the tables are.
Gives(u) ==
    IF u \notin members THEN {} ELSE
        {<<"server", "member">>}
        \cup (IF u = Owner THEN {<<"server", "ADMINISTRATOR">>} ELSE {})
        \cup UNION {{o} \X mask[o] : o \in RolesOf(u) \cup {Default}}

Given(r) == Gives(req[r].user)
What(gifts) == {g[2] : g \in gifts}

\* The histories, after a step that ends in the primed tables and requests.
Decided(r) == req[r].pc \in {"granted", "refused"}

Observe ==
    /\ ever' = [r \in Requests |->
            IF req'[r] = Idle THEN {} ELSE
            IF Decided(r) THEN ever[r] ELSE ever[r] \cup What(Given(r)')]
    /\ steady' = [r \in Requests |->
            IF req'[r] = Idle THEN {} ELSE
            IF req[r] = Idle THEN Given(r)' ELSE
            IF Decided(r) THEN steady[r] ELSE steady[r] \cap Given(r)']

Goto(r, label) == req' = [req EXCEPT ![r].pc = label]
Finish(r) == req' = [req EXCEPT ![r] = Idle]

\* A round of reading ends: "before" admits administrators, refuses those it
\* shuts out and else hands over to the action, which reads again if it must.
Decide(r, read) ==
    LET route == req[r].route
        ways == Ways(route, req[r].own)
        next == IF req[r].hook /\ "ADMINISTRATOR" \in read THEN "granted"
                ELSE IF req[r].hook /\ ~ Gate(route) \subseteq read THEN "refused"
                ELSE IF {} \in ways THEN "granted"
                ELSE IF req[r].hook THEN "roles"
                ELSE IF \E needs \in ways : needs \subseteq read THEN "granted"
                ELSE "refused"
    IN req' = [req EXCEPT ![r].pc = next, ![r].hook = FALSE, ![r].mask = {}]

-----------------------------------------------------------------------------
\* Faults: what each property is tested against is the action of the same place
\* with the mistake its name says.

CreateAnyMask(r, o, m) ==
    /\ req[r].pc = "granted" /\ req[r].route = "editRoles"
    /\ Alive /\ o \notin roles
    /\ roles' = roles \cup {o}
    /\ mask' = [mask EXCEPT ![o] = m]
    /\ Finish(r)
    /\ UNCHANGED <<members, held>>
    /\ Observe

ReadAllRoles(r) ==
    /\ req[r].pc = "roles"
    /\ IF req[r].user \in members
         THEN req' = [req EXCEPT ![r].pc = "default", ![r].mask = MasksOf(Roles)]
         ELSE Goto(r, "refused")
    /\ UNCHANGED rows
    /\ Observe

ReadDefaultOnly(r) ==
    /\ req[r].pc = "default"
    /\ IF Alive
         THEN Decide(r, mask[Default] \cup
                        (IF req[r].user = Owner THEN {"ADMINISTRATOR"} ELSE {}))
         ELSE Goto(r, "refused")
    /\ UNCHANGED rows
    /\ Observe

-----------------------------------------------------------------------------
\* A request is asked, and awaits the answer of its policy.
Ask(r, u, route, own) ==
    /\ req[r] = Idle
    /\ own => Ways(route, TRUE) # Ways(route, FALSE)
    /\ req' = [req EXCEPT ![r] = [pc |-> "present", user |-> u, route |-> route,
                                  own |-> own, hook |-> TRUE, mask |-> {}]]
    /\ UNCHANGED rows
    /\ Observe

\* userPartOfServer.
ReadMembers(r) ==
    /\ req[r].pc = "present"
    /\ Goto(r, IF req[r].user \in members THEN "roles" ELSE "refused")
    /\ UNCHANGED rows
    /\ Observe

\* getMemberPermissions: the member and its roles.
ReadRoles(r) ==
    /\ req[r].pc = "roles"
    /\ IF req[r].user \in members
         THEN req' = [req EXCEPT ![r].pc = "default",
                                 ![r].mask = MasksOf(RolesOf(req[r].user))]
         ELSE Goto(r, "refused")
    /\ UNCHANGED rows
    /\ Observe

\* getMemberPermissions: the owner and the default role; then the decision.
ReadDefault(r) ==
    /\ req[r].pc = "default"
    /\ IF Alive
         THEN Decide(r, req[r].mask \cup mask[Default] \cup
                        (IF req[r].user = Owner THEN {"ADMINISTRATOR"} ELSE {}))
         ELSE Goto(r, "refused")
    /\ UNCHANGED rows
    /\ Observe

-----------------------------------------------------------------------------
\* RoleService, for a request that its policy admitted.
Granted(r) == req[r].pc = "granted" /\ req[r].route = "editRoles"

\* So it ends; NULL is a request that was admitted on another server.
Admitted(r) == IF r = NULL THEN Foreign /\ UNCHANGED req ELSE Granted(r) /\ Finish(r)

CreateRole(r, o, m) ==
    /\ Granted(r)
    /\ Alive /\ o \notin roles
    /\ isValidMask(m)
    /\ roles' = roles \cup {o}
    /\ mask' = [mask EXCEPT ![o] = m]
    /\ Finish(r)
    /\ UNCHANGED <<members, held>>
    /\ Observe

UpdateRole(r, o, m) ==
    /\ Admitted(r)
    /\ o \in roles
    /\ isValidMask(m)
    /\ mask' = [mask EXCEPT ![o] = m]
    /\ UNCHANGED <<members, roles, held>>
    /\ Observe

DestroyRole(r, o) ==
    /\ Admitted(r)
    /\ o # Default /\ o \in roles
    /\ roles' = roles \ {o}
    /\ mask' = [mask EXCEPT ![o] = {}]
    /\ held' = {h \in held : h[2] # o}
    /\ UNCHANGED members
    /\ Observe

\* assign one member or assignToMembers.
AssignRole(r, o, users) ==
    /\ Admitted(r)
    /\ o # Default /\ o \in roles
    /\ users \subseteq members
    /\ \A u \in users : <<u, o>> \notin held
    /\ held' = held \cup (users \X {o})
    /\ UNCHANGED <<members, roles, mask>>
    /\ Observe

UnassignRole(r, o, u) ==
    /\ Admitted(r)
    /\ o \in roles
    /\ held' = held \ {<<u, o>>}
    /\ UNCHANGED <<members, roles, mask>>
    /\ Observe

\* Refused by the policy or by RoleService, or a route that writes no role.
Answer(r) ==
    /\ Decided(r)
    /\ Finish(r)
    /\ UNCHANGED rows
    /\ Observe

-----------------------------------------------------------------------------
\* A user joins the server, and is given the default role.
Join(u) ==
    /\ Alive /\ u \notin members
    /\ members' = members \cup {u}
    /\ held' = held \cup {<<u, Default>>}
    /\ UNCHANGED <<roles, mask, req>>
    /\ Observe

\* The deletion of the server takes its members and roles along.
DeleteServer ==
    /\ Alive
    /\ members' = {}
    /\ roles' = {}
    /\ mask' = [o \in Roles |-> {}]
    /\ held' = {}
    /\ UNCHANGED req
    /\ Observe

Evaluate(r) ==
    \/ \E u \in Users, route \in Routes, own \in BOOLEAN : Ask(r, u, route, own)
    \/ ReadMembers(r) \/ ReadRoles(r) \/ ReadDefault(r) \/ Answer(r)
    \/ \E o \in CustomRoles, m \in Masks : CreateRole(r, o, m)

ChangeRoles(r) ==
    \/ \E o \in Roles, m \in Masks : UpdateRole(r, o, m)
    \/ \E o \in Roles : DestroyRole(r, o)
    \/ \E o \in Roles, users \in SUBSET Users : AssignRole(r, o, users)
    \/ \E o \in Roles, u \in Users : UnassignRole(r, o, u)

Next ==
    \/ \E r \in Requests : Evaluate(r)
    \/ \E r \in Requests \cup {NULL} : ChangeRoles(r)
    \/ \E u \in Users : Join(u)
    \/ DeleteServer

Spec == Init /\ [][Next]_vars

-----------------------------------------------------------------------------
\* Properties.

\* A request is admitted only to a user who, some time since it was asked, was a
\* member, and held every permission its route needs or was an administrator,
\* however roles change between the reads of its policy.
GrantsOnlyHeld ==
    \A r \in Requests :
        req[r].pc = "granted" => Admits(req[r].route, req[r].own, ever[r])

\* No race costs a member a right: whoever had, from the request to its decision,
\* what its route needs, each permission by one same role (or by owning the
\* server), is not refused.
RefusesOnlyLacking ==
    \A r \in Requests :
        req[r].pc = "refused" => ~ Admits(req[r].route, req[r].own, What(steady[r]))
=============================================================================
