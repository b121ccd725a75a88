-------------------------- MODULE MembershipProofs --------------------------
(***************************************************************************)
(* The invariants of Membership, for any number of users, servers, roles,  *)
(* invitations and concurrent joins, whether or not calls fail.            *)
(*                                                                         *)
(* None of them is inductive alone.  A join acts on what it read one or    *)
(* two awaits ago, so the invariant also says what a join in progress may  *)
(* still rely on (JoinOK): an invitation of its private server exists as   *)
(* long as the server does, and the role it found is still of its server   *)
(* unless it is gone.                                                      *)
(***************************************************************************)
EXTENDS Membership, FiniteSetTheorems, TLAPS

\* What the join q may rely on, given the tables of servers, roles, invitations.
JoinOK(q, srv, rol, inv) ==
    q.pc # "idle" =>
        /\ q.server \in Servers /\ q.user \in Users
        /\ q.pc = "insertMember" /\ srv[q.server] # NULL /\ ~srv[q.server].public
             => /\ q.inv \in InvitationIds
                /\ inv[q.inv] # NULL
                /\ inv[q.inv].server = q.server
        /\ q.pc = "attachRole"
             => /\ q.role \in Roles
                /\ q.role \in Servers => q.role = q.server
                /\ rol[q.role] # NULL => rol[q.role].server = q.server

\* An id of a server is given to a role of that server only.
DefaultRoles == \A s \in Servers : role[s] # NULL => role[s].server = s

JoinsOK == \A r \in Requests : JoinOK(req[r], server, role, invitation)

Inv == /\ TypeOK
       /\ ServersComplete
       /\ RolesStayInServer
       /\ NoOrphans
       /\ PrivateByInvitation
       /\ DefaultRoles
       /\ JoinsOK

-----------------------------------------------------------------------------
(* Constants and the effect of a step on the slots.                        *)

\* NULL is no row and no id.
LEMMA NullIsNothing ==
    /\ NULL \notin Server /\ NULL \notin Role /\ NULL \notin Invitation
    /\ NULL \notin Users /\ NULL \notin Roles /\ NULL \notin InvitationIds
    /\ Servers \subseteq Roles /\ CustomRoles \subseteq Roles
    /\ \A o \in CustomRoles : o \notin Servers
BY MembershipAssumption DEF Roles

\* The locals of a free slot are well typed and satisfy JoinOK.
LEMMA IdleOK ==
    ASSUME NEW srv, NEW rol, NEW inv
    PROVE  Idle \in Request /\ JoinOK(Idle, srv, rol, inv)
BY DEF Idle, Request, Labels, JoinOK

\* Writing one slot leaves the others alone.
LEMMA SlotUpdate ==
    ASSUME req \in [Requests -> Request], NEW r \in Requests, NEW q \in Request,
           req' = [req EXCEPT ![r] = q]
    PROVE  /\ req' \in [Requests -> Request]
           /\ req'[r] = q
           /\ \A x \in Requests : x # r => req'[x] = req[x]
OBVIOUS

\* A step that writes one slot keeps JoinsOK when the new locals satisfy JoinOK
\* and what the others rely on is unchanged.
LEMMA JoinsKept ==
    ASSUME req \in [Requests -> Request], JoinsOK,
           NEW r \in Requests, NEW q \in Request,
           req' = [req EXCEPT ![r] = q],
           UNCHANGED <<server, role>>,
           \A i \in InvitationIds : invitation[i] # NULL =>
               /\ invitation'[i] # NULL
               /\ invitation'[i].server = invitation[i].server,
           JoinOK(q, server', role', invitation')
    PROVE  JoinsOK'
<1> SUFFICES ASSUME NEW x \in Requests
             PROVE  JoinOK(req'[x], server', role', invitation')
    BY DEF JoinsOK
<1>1. CASE x = r
    BY <1>1, SlotUpdate
<1>2. CASE x # r
    <2>1. req'[x] = req[x]
        BY <1>2, SlotUpdate
    <2>2. JoinOK(req[x], server, role, invitation)
        BY DEF JoinsOK
    <2> QED
        BY <2>1, <2>2 DEF JoinOK
<1> QED
    BY <1>1, <1>2

\* The locals after EndCreation: well typed, and nothing is relied on.
LEMMA Ended ==
    ASSUME req \in [Requests -> Request], NEW r \in Requests,
           req[r].server \in Servers, req[r].user \in Users, EndCreation(r)
    PROVE  \E q \in Request : /\ req' = [req EXCEPT ![r] = q]
                              /\ \A srv, rol, inv : JoinOK(q, srv, rol, inv)
<1> DEFINE q == IF req[r].save THEN [req[r] EXCEPT !.pc = "respond"] ELSE Idle
<1>1. q \in Request
    BY IdleOK DEF Request, Labels
<1>2. \A srv, rol, inv : JoinOK(q, srv, rol, inv)
    <2>1. CASE req[r].save
        BY <2>1 DEF JoinOK, Request
    <2>2. CASE ~req[r].save
        BY <2>2 DEF JoinOK, Idle
    <2> QED
        BY <2>1, <2>2
<1>3. req' = [req EXCEPT ![r] = q]
    BY DEF EndCreation
<1> QED
    BY <1>1, <1>2, <1>3

\* The locals once the invitation needs no save any more.
LEMMA Saved ==
    ASSUME req \in [Requests -> Request], NEW r \in Requests,
           NEW srv, NEW rol, NEW inv, JoinOK(req[r], srv, rol, inv),
           req' = [req EXCEPT ![r] = IF req[r].pc = "respond" THEN Idle
                                     ELSE [req[r] EXCEPT !.save = FALSE]]
    PROVE  \E q \in Request : /\ req' = [req EXCEPT ![r] = q]
                              /\ JoinOK(q, srv, rol, inv)
<1> DEFINE q == IF req[r].pc = "respond" THEN Idle ELSE [req[r] EXCEPT !.save = FALSE]
<1>1. q \in Request
    BY IdleOK DEF Request
<1>2. CASE req[r].pc = "respond"
    BY <1>1, <1>2, IdleOK
<1>3. CASE req[r].pc # "respond"
    <2>1. /\ q.pc = req[r].pc /\ q.server = req[r].server /\ q.user = req[r].user
          /\ q.inv = req[r].inv /\ q.role = req[r].role
        BY <1>3 DEF Request
    <2>2. JoinOK(q, srv, rol, inv)
        BY <2>1 DEF JoinOK
    <2> QED
        BY <1>1, <2>2
<1> QED
    BY <1>2, <1>3

-----------------------------------------------------------------------------
(* Servers and invitations.                                                *)

\* A new server comes with its owner and default role; nothing refers to its id.
LEMMA CreateServerKeeps ==
    ASSUME Inv, NEW s \in Servers, NEW u \in Users, NEW public \in BOOLEAN,
           CreateServer(s, u, public)
    PROVE  Inv'
<1> DEFINE row == [owner |-> u, public |-> public]
           default == [server |-> s, basic |-> TRUE]
<1>1. /\ row \in Server /\ row # NULL /\ row.owner = u /\ row.public = public
      /\ default \in Role /\ default # NULL /\ default.server = s
      /\ s \in Roles /\ s \notin CustomRoles
    <2>1. row \in Server /\ default \in Role
        BY DEF Server, Role
    <2> QED
        BY <2>1, NullIsNothing
<1>2. /\ server' = [server EXCEPT ![s] = row]
      /\ role' = [role EXCEPT ![s] = default]
      /\ members' = members \cup {<<s, u>>}
      /\ UNCHANGED <<invitation, held, req, admitted>>
      /\ server[s] = NULL
      /\ \A r \in Requests : req[r].server # s
    BY DEF CreateServer
<1>3. /\ TypeOK /\ ServersComplete /\ RolesStayInServer /\ NoOrphans
      /\ PrivateByInvitation /\ DefaultRoles /\ JoinsOK
    BY DEF Inv
<1>4. default = [server |-> s, basic |-> TRUE]
    OBVIOUS
<1> HIDE DEF row, default
<1>5. /\ \A x \in Servers : server'[x] = IF x = s THEN row ELSE server[x]
      /\ \A o \in Roles : role'[o] = IF o = s THEN default ELSE role[o]
    BY <1>2, <1>3 DEF TypeOK
<1>6. /\ \A m \in members : m \in Seat /\ m[1] \in Servers /\ m[1] # s
      /\ \A o \in StoredRoles : role[o].server # s
      /\ \A i \in StoredInvitations : invitation[i].server # s
    BY <1>2, <1>3 DEF TypeOK, NoOrphans, StoredServers, Seat
<1>7. TypeOK'
    <2>1. members' \subseteq Seat
        BY <1>2, <1>3 DEF TypeOK, Seat
    <2> QED
        BY <1>1, <1>2, <1>3, <2>1 DEF TypeOK
<1>8. /\ StoredServers' = StoredServers \cup {s}
      /\ StoredRoles' = StoredRoles \cup {s}
      /\ StoredInvitations' = StoredInvitations
    BY <1>1, <1>2, <1>5 DEF StoredServers, StoredRoles, StoredInvitations
<1>9. ServersComplete'
    <2> SUFFICES ASSUME NEW x \in StoredServers'
                 PROVE  /\ <<x, server'[x].owner>> \in members'
                        /\ role'[x] = [server |-> x, basic |-> TRUE]
        BY DEF ServersComplete
    <2>1. CASE x = s
        <3>1. server'[x] = row /\ role'[x] = default
            BY <1>1, <1>5, <2>1
        <3> QED
            BY <1>1, <1>2, <1>4, <2>1, <3>1
    <2>2. CASE x # s
        BY <1>1, <1>2, <1>3, <1>5, <1>8, <2>2, NullIsNothing DEF ServersComplete, StoredServers
    <2> QED
        BY <2>1, <2>2
<1>10. RolesStayInServer'
    <2> SUFFICES ASSUME NEW h \in held
                 PROVE  h[1] \in members' /\ h[2] \in StoredRoles' /\ role'[h[2]].server = h[1][1]
        BY <1>2 DEF RolesStayInServer
    <2>1. h[1] \in members /\ h[2] \in StoredRoles /\ role[h[2]].server = h[1][1]
        BY <1>3 DEF RolesStayInServer
    <2>2. h[2] # s
        BY <1>3, <1>6, <2>1 DEF DefaultRoles, StoredRoles
    <2> QED
        BY <1>2, <1>5, <1>8, <2>1, <2>2 DEF StoredRoles
<1>11. NoOrphans'
    <2>1. \A o \in StoredRoles' : role'[o].server \in StoredServers'
        <3> SUFFICES ASSUME NEW o \in StoredRoles'
                     PROVE  role'[o].server \in StoredServers'
            OBVIOUS
        <3>1. CASE o = s
            BY <1>1, <1>5, <1>8, <3>1
        <3>2. CASE o # s
            BY <1>3, <1>5, <1>8, <3>2 DEF NoOrphans, StoredRoles
        <3> QED
            BY <3>1, <3>2
    <2>2. \A m \in members' : m[1] \in StoredServers'
        BY <1>2, <1>3, <1>8 DEF NoOrphans
    <2> QED
        BY <1>2, <1>3, <1>8, <2>1, <2>2 DEF NoOrphans
<1>12. PrivateByInvitation'
    <2> SUFFICES ASSUME NEW m \in members',
                        ~server'[m[1]].public, m[2] # server'[m[1]].owner
                 PROVE  \E i \in StoredInvitations' :
                            <<i, m>> \in admitted' /\ invitation'[i].server = m[1]
        BY DEF PrivateByInvitation
    <2>1. m \in members
        BY <1>1, <1>2, <1>5
    <2>2. server'[m[1]] = server[m[1]]
        BY <1>5, <1>6, <2>1
    <2> QED
        BY <1>2, <1>3, <1>8, <2>1, <2>2 DEF PrivateByInvitation
<1>13. DefaultRoles'
    BY <1>1, <1>3, <1>5, NullIsNothing DEF DefaultRoles
<1>14. JoinsOK'
    <2> SUFFICES ASSUME NEW r \in Requests
                 PROVE  JoinOK(req[r], server', role', invitation')
        BY <1>2 DEF JoinsOK
    <2>1. JoinOK(req[r], server, role, invitation) /\ req[r].server # s
        BY <1>2, <1>3 DEF JoinsOK
    <2> QED
        BY <1>1, <1>2, <1>5, <2>1 DEF JoinOK
<1> QED
    BY <1>7, <1>9, <1>10, <1>11, <1>12, <1>13, <1>14 DEF Inv

\* The cascade removes every row of the server, and only those.
LEMMA DeleteServerKeeps ==
    ASSUME Inv, NEW s \in Servers, DeleteServer(s)
    PROVE  Inv'
<1>1. /\ TypeOK /\ ServersComplete /\ RolesStayInServer /\ NoOrphans
      /\ PrivateByInvitation /\ DefaultRoles /\ JoinsOK
    BY DEF Inv
<1>2. /\ \A x \in Servers : server'[x] = IF x = s THEN NULL ELSE server[x]
      /\ \A o \in Roles : role'[o] =
            IF o \in StoredRoles /\ role[o].server = s THEN NULL ELSE role[o]
      /\ \A i \in InvitationIds : invitation'[i] =
            IF i \in StoredInvitations /\ invitation[i].server = s
              THEN NULL ELSE invitation[i]
      /\ members' = {m \in members : m[1] # s}
      /\ held' = {h \in held : h[1][1] # s /\ role[h[2]].server # s}
      /\ admitted' = {a \in admitted : a[2][1] # s}
      /\ req' = req
    BY <1>1 DEF DeleteServer, TypeOK
<1>3. TypeOK'
    <2>1. server' \in [Servers -> Server \cup {NULL}]
        BY <1>1 DEF DeleteServer, TypeOK
    <2>2. role' \in [Roles -> Role \cup {NULL}]
        BY <1>1 DEF DeleteServer, TypeOK
    <2>3. invitation' \in [InvitationIds -> Invitation \cup {NULL}]
        BY <1>1 DEF DeleteServer, TypeOK
    <2> QED
        BY <1>1, <1>2, <2>1, <2>2, <2>3 DEF TypeOK
<1>4. /\ StoredServers' = StoredServers \ {s}
      /\ StoredRoles' = {o \in StoredRoles : role[o].server # s}
      /\ StoredInvitations' = {i \in StoredInvitations : invitation[i].server # s}
    BY <1>2 DEF StoredServers, StoredRoles, StoredInvitations
<1>5. ServersComplete'
    <2> SUFFICES ASSUME NEW x \in Servers, x \in StoredServers, x # s
                 PROVE  /\ <<x, server'[x].owner>> \in members'
                        /\ role'[x] = [server |-> x, basic |-> TRUE]
        BY <1>4 DEF ServersComplete, StoredServers
    <2>1. <<x, server[x].owner>> \in members /\ role[x] = [server |-> x, basic |-> TRUE]
        BY <1>1 DEF ServersComplete
    <2> QED
        BY <1>2, <2>1, NullIsNothing
<1>6. RolesStayInServer'
    <2> SUFFICES ASSUME NEW h \in held, h[1][1] # s, role[h[2]].server # s
                 PROVE  h[1] \in members' /\ h[2] \in StoredRoles' /\ role'[h[2]].server = h[1][1]
        BY <1>2 DEF RolesStayInServer
    <2>1. h[1] \in members /\ h[2] \in StoredRoles /\ role[h[2]].server = h[1][1]
        BY <1>1 DEF RolesStayInServer
    <2> QED
        BY <1>2, <1>4, <2>1 DEF StoredRoles
<1>7. NoOrphans'
    BY <1>1, <1>2, <1>4 DEF NoOrphans, StoredRoles, StoredInvitations
<1>8. PrivateByInvitation'
    <2> SUFFICES ASSUME NEW m \in members, m[1] # s,
                        ~server'[m[1]].public, m[2] # server'[m[1]].owner
                 PROVE  \E i \in StoredInvitations' :
                            <<i, m>> \in admitted' /\ invitation'[i].server = m[1]
        BY <1>2 DEF PrivateByInvitation
    <2>1. server'[m[1]] = server[m[1]]
        BY <1>1, <1>2 DEF TypeOK, Seat
    <2>2. PICK i \in StoredInvitations : <<i, m>> \in admitted /\ invitation[i].server = m[1]
        BY <1>1, <2>1 DEF PrivateByInvitation
    <2>3. <<i, m>> \in admitted' /\ i \in StoredInvitations' /\ invitation'[i].server = m[1]
        BY <1>2, <1>4, <2>2 DEF StoredInvitations
    <2> QED
        BY <2>3
<1>9. DefaultRoles'
    BY <1>1, <1>2, NullIsNothing DEF DefaultRoles
<1>10. JoinsOK'
    <2> SUFFICES ASSUME NEW r \in Requests
                 PROVE  JoinOK(req[r], server', role', invitation')
        BY <1>2 DEF JoinsOK
    <2>1. JoinOK(req[r], server, role, invitation)
        BY <1>1 DEF JoinsOK
    <2> QED
        BY <1>2, <2>1 DEF JoinOK, StoredRoles, StoredInvitations
<1> QED
    BY <1>3, <1>5, <1>6, <1>7, <1>8, <1>9, <1>10 DEF Inv

\* An invitation gets an id that no row and no join has.
LEMMA CreateInvitationKeeps ==
    ASSUME Inv, NEW i \in InvitationIds, NEW s \in Servers, NEW unique \in BOOLEAN,
           CreateInvitation(i, s, unique)
    PROVE  Inv'
<1> DEFINE row == [server |-> s, status |-> IF unique THEN "Pending" ELSE "Unlimited"]
<1>1. row \in Invitation /\ row.server = s
    BY DEF Invitation
<1>2. /\ TypeOK /\ ServersComplete /\ RolesStayInServer /\ NoOrphans
      /\ PrivateByInvitation /\ DefaultRoles /\ JoinsOK
    BY DEF Inv
<1>3. /\ invitation' = [invitation EXCEPT ![i] = row]
      /\ invitation[i] = NULL /\ s \in StoredServers
      /\ UNCHANGED <<server, role, members, held, req, admitted>>
    BY DEF CreateInvitation
<1> HIDE DEF row
<1>4. \A j \in InvitationIds : invitation'[j] = IF j = i THEN row ELSE invitation[j]
    BY <1>2, <1>3 DEF TypeOK
<1>5. row # NULL
    BY <1>1, NullIsNothing
<1>6. /\ StoredServers' = StoredServers /\ StoredRoles' = StoredRoles
      /\ StoredInvitations' = StoredInvitations \cup {i}
    BY <1>3, <1>4, <1>5 DEF StoredServers, StoredRoles, StoredInvitations
<1>7. TypeOK'
    BY <1>1, <1>2, <1>3 DEF TypeOK
<1>8. ServersComplete' /\ RolesStayInServer' /\ DefaultRoles'
    BY <1>2, <1>3, <1>6 DEF ServersComplete, RolesStayInServer, DefaultRoles
<1>9. NoOrphans'
    BY <1>1, <1>2, <1>3, <1>4, <1>6 DEF NoOrphans, StoredInvitations
<1>10. PrivateByInvitation'
    <2> SUFFICES ASSUME NEW m \in members,
                        ~server[m[1]].public, m[2] # server[m[1]].owner
                 PROVE  \E j \in StoredInvitations' :
                            <<j, m>> \in admitted /\ invitation'[j].server = m[1]
        BY <1>3 DEF PrivateByInvitation
    <2>1. PICK j \in StoredInvitations : <<j, m>> \in admitted /\ invitation[j].server = m[1]
        BY <1>2 DEF PrivateByInvitation
    <2>2. j # i /\ j \in InvitationIds
        BY <1>3 DEF StoredInvitations
    <2> QED
        BY <1>4, <1>6, <2>1, <2>2
<1>11. JoinsOK'
    <2> SUFFICES ASSUME NEW r \in Requests
                 PROVE  JoinOK(req[r], server, role, invitation')
        BY <1>3 DEF JoinsOK
    <2>1. JoinOK(req[r], server, role, invitation)
        BY <1>2 DEF JoinsOK
    <2> QED
        BY <1>3, <1>4, <2>1 DEF JoinOK
<1> QED
    BY <1>7, <1>8, <1>9, <1>10, <1>11 DEF Inv

-----------------------------------------------------------------------------
(* Roles.                                                                  *)

\* A step that writes roles other than default ones, keeping their server, and
\* drops what refers to a deleted one.
LEMMA RoleWriteKeeps ==
    ASSUME Inv, TypeOK',
           UNCHANGED <<server, invitation, members, req, admitted>>,
           held' \subseteq held,
           \A o \in StoredRoles : role[o].server = o => role'[o] = role[o],
           \A o \in StoredRoles : role'[o] # NULL => role'[o].server = role[o].server,
           \A o \in Roles : role[o] = NULL /\ role'[o] # NULL =>
               /\ o \in CustomRoles
               /\ role'[o].server \in StoredServers
               /\ \A r \in Requests : req[r].role # o,
           \A h \in held' : role'[h[2]] # NULL
    PROVE  Inv'
<1>1. /\ TypeOK /\ ServersComplete /\ RolesStayInServer /\ NoOrphans
      /\ PrivateByInvitation /\ DefaultRoles /\ JoinsOK
    BY DEF Inv
<1>2. StoredServers' = StoredServers /\ StoredInvitations' = StoredInvitations
    BY DEF StoredServers, StoredInvitations
<1>3. ServersComplete'
    <2> SUFFICES ASSUME NEW s \in StoredServers
                 PROVE  /\ <<s, server[s].owner>> \in members
                        /\ role'[s] = [server |-> s, basic |-> TRUE]
        BY <1>2 DEF ServersComplete
    <2>1. <<s, server[s].owner>> \in members /\ role[s] = [server |-> s, basic |-> TRUE]
        BY <1>1 DEF ServersComplete
    <2>2. s \in Roles /\ role[s] # NULL
        <3>1. s \in Servers
            BY DEF StoredServers
        <3>2. role[s] \in Role
            BY <2>1, <3>1 DEF Role
        <3> QED
            BY <3>1, <3>2, NullIsNothing
    <2> QED
        BY <2>1, <2>2 DEF StoredRoles
<1>4. RolesStayInServer'
    <2> SUFFICES ASSUME NEW h \in held'
                 PROVE  h[1] \in members /\ h[2] \in StoredRoles' /\ role'[h[2]].server = h[1][1]
        BY DEF RolesStayInServer
    <2>1. h[1] \in members /\ h[2] \in StoredRoles /\ role[h[2]].server = h[1][1]
        BY <1>1 DEF RolesStayInServer
    <2> QED
        BY <2>1 DEF StoredRoles
<1>5. NoOrphans'
    <2> SUFFICES ASSUME NEW o \in Roles, role'[o] # NULL
                 PROVE  role'[o].server \in StoredServers
        BY <1>1, <1>2 DEF NoOrphans, StoredRoles
    <2>1. CASE role[o] = NULL
        BY <2>1
    <2>2. CASE role[o] # NULL
        BY <1>1, <2>2 DEF NoOrphans, StoredRoles
    <2> QED
        BY <2>1, <2>2
<1>6. PrivateByInvitation'
    BY <1>1, <1>2 DEF PrivateByInvitation
<1>7. DefaultRoles'
    BY <1>1, NullIsNothing DEF DefaultRoles, StoredRoles
<1>8. JoinsOK'
    <2> SUFFICES ASSUME NEW r \in Requests
                 PROVE  JoinOK(req[r], server, role', invitation)
        BY DEF JoinsOK
    <2>1. JoinOK(req[r], server, role, invitation)
        BY <1>1 DEF JoinsOK
    <2> QED
        BY <2>1 DEF JoinOK, StoredRoles
<1> QED
    BY <1>3, <1>4, <1>5, <1>6, <1>7, <1>8 DEF Inv

LEMMA CreateRoleKeeps ==
    ASSUME Inv, NEW o \in Roles, NEW s \in Servers, NEW basic \in BOOLEAN,
           CreateRole(o, s, basic)
    PROVE  Inv'
<1> DEFINE row == [server |-> s, basic |-> basic]
<1>1. row \in Role /\ row.server = s
    BY DEF Role
<1>2. TypeOK /\ RolesStayInServer
    BY DEF Inv
<1>3. /\ o \in CustomRoles /\ role[o] = NULL /\ s \in StoredServers
      /\ \A r \in Requests : req[r].role # o
      /\ role' = [role EXCEPT ![o] = row]
      /\ UNCHANGED <<server, invitation, members, held, req, admitted>>
    BY DEF CreateRole
<1> HIDE DEF row
<1>4. \A x \in Roles : role'[x] = IF x = o THEN row ELSE role[x]
    BY <1>2, <1>3 DEF TypeOK
<1>5. TypeOK'
    BY <1>1, <1>2, <1>3 DEF TypeOK
<1>6. \A h \in held : h[2] \in Roles /\ role'[h[2]] # NULL
    BY <1>1, <1>2, <1>4, NullIsNothing DEF RolesStayInServer, StoredRoles
<1> QED
    BY <1>1, <1>3, <1>4, <1>5, <1>6, RoleWriteKeeps DEF StoredRoles

LEMMA RenameRoleKeeps ==
    ASSUME Inv, NEW o \in Roles, NEW basic \in BOOLEAN, RenameRole(o, basic)
    PROVE  Inv'
<1> DEFINE row == [role[o] EXCEPT !.basic = basic]
<1>1. TypeOK /\ RolesStayInServer
    BY DEF Inv
<1>2. /\ o \in StoredRoles /\ o # role[o].server
      /\ role' = [role EXCEPT ![o] = row]
      /\ UNCHANGED <<server, invitation, members, held, req, admitted>>
    BY DEF RenameRole
<1>3. row \in Role /\ row.server = role[o].server
    <2>1. role[o] \in Role
        BY <1>1, <1>2 DEF TypeOK, StoredRoles
    <2> QED
        BY <2>1 DEF Role
<1> HIDE DEF row
<1>4. \A x \in Roles : role'[x] = IF x = o THEN row ELSE role[x]
    BY <1>1, <1>2 DEF TypeOK
<1>5. TypeOK'
    BY <1>1, <1>2, <1>3 DEF TypeOK
<1>6. \A h \in held : role'[h[2]] # NULL
    BY <1>1, <1>3, <1>4, NullIsNothing DEF RolesStayInServer, StoredRoles
<1> QED
    BY <1>2, <1>3, <1>4, <1>5, <1>6, RoleWriteKeeps DEF StoredRoles

LEMMA DeleteRoleKeeps ==
    ASSUME Inv, NEW o \in Roles, DeleteRole(o)
    PROVE  Inv'
<1>1. TypeOK /\ RolesStayInServer
    BY DEF Inv
<1>2. /\ o \in StoredRoles /\ o # role[o].server
      /\ role' = [role EXCEPT ![o] = NULL]
      /\ held' = {h \in held : h[2] # o}
      /\ UNCHANGED <<server, invitation, members, req, admitted>>
    BY DEF DeleteRole
<1>3. \A x \in Roles : role'[x] = IF x = o THEN NULL ELSE role[x]
    BY <1>1, <1>2 DEF TypeOK
<1>4. TypeOK'
    BY <1>1, <1>2 DEF TypeOK
<1>5. \A h \in held' : role'[h[2]] # NULL
    BY <1>1, <1>2, <1>3 DEF RolesStayInServer, StoredRoles
<1> QED
    BY <1>2, <1>3, <1>4, <1>5, RoleWriteKeeps DEF StoredRoles

\* A step that only changes member_role, adding rows within one server.
LEMMA HeldWriteKeeps ==
    ASSUME Inv, NEW more, held' \subseteq held \cup more,
           \A h \in more : /\ h \in Seat \X Roles
                           /\ h[1] \in members
                           /\ h[2] \in StoredRoles
                           /\ role[h[2]].server = h[1][1],
           UNCHANGED <<server, role, invitation, members, admitted>>,
           req' \in [Requests -> Request], JoinsOK'
    PROVE  Inv'
<1>1. /\ TypeOK /\ ServersComplete /\ RolesStayInServer /\ NoOrphans
      /\ PrivateByInvitation /\ DefaultRoles
    BY DEF Inv
<1>2. /\ StoredServers' = StoredServers /\ StoredRoles' = StoredRoles
      /\ StoredInvitations' = StoredInvitations
    BY DEF StoredServers, StoredRoles, StoredInvitations
<1>3. TypeOK'
    BY <1>1 DEF TypeOK
<1>4. RolesStayInServer'
    BY <1>1, <1>2 DEF RolesStayInServer
<1>5. ServersComplete' /\ NoOrphans' /\ PrivateByInvitation' /\ DefaultRoles'
    BY <1>1, <1>2 DEF ServersComplete, NoOrphans, PrivateByInvitation, DefaultRoles
<1> QED
    BY <1>3, <1>4, <1>5 DEF Inv

LEMMA HeldShrinkKeeps ==
    ASSUME Inv, held' \subseteq held,
           UNCHANGED <<server, role, invitation, members, admitted>>,
           req' \in [Requests -> Request], JoinsOK'
    PROVE  Inv'
<1> DEFINE none == {}
<1>1. /\ held' \subseteq held \cup none
      /\ \A h \in none : /\ h \in Seat \X Roles
                         /\ h[1] \in members
                         /\ h[2] \in StoredRoles
                         /\ role[h[2]].server = h[1][1]
    OBVIOUS
<1> HIDE DEF none
<1> QED
    BY <1>1, HeldWriteKeeps

LEMMA AssignKeeps ==
    ASSUME Inv, NEW o \in Roles, NEW seats \in SUBSET members, Assign(o, seats)
    PROVE  Inv'
<1>1. TypeOK /\ JoinsOK
    BY DEF Inv
<1>2. /\ o \in StoredRoles /\ \A m \in seats : m \in members /\ m[1] = role[o].server
      /\ held' = held \cup (seats \X {o})
      /\ UNCHANGED <<server, role, invitation, members, req, admitted>>
    BY DEF Assign
<1>3. \A h \in seats \X {o} : /\ h \in Seat \X Roles
                              /\ h[1] \in members
                              /\ h[2] \in StoredRoles
                              /\ role[h[2]].server = h[1][1]
    BY <1>1, <1>2 DEF TypeOK
<1>4. req' \in [Requests -> Request] /\ JoinsOK'
    BY <1>1, <1>2 DEF TypeOK, JoinsOK
<1> QED
    BY <1>2, <1>3, <1>4, HeldWriteKeeps

LEMMA UnassignKeeps ==
    ASSUME Inv, NEW o \in Roles, NEW m \in members, Unassign(o, m)
    PROVE  Inv'
<1>1. TypeOK /\ JoinsOK
    BY DEF Inv
<1>2. /\ held' \subseteq held
      /\ UNCHANGED <<server, role, invitation, members, req, admitted>>
    BY DEF Unassign
<1>3. req' \in [Requests -> Request] /\ JoinsOK'
    BY <1>1, <1>2 DEF TypeOK, JoinsOK
<1> QED
    BY <1>2, <1>3, HeldShrinkKeeps

-----------------------------------------------------------------------------
(* Joins.                                                                  *)

\* A step of a join that writes no table.
LEMMA LocalStepKeeps ==
    ASSUME Inv, NEW r \in Requests, NEW q \in Request,
           req' = [req EXCEPT ![r] = q],
           JoinOK(q, server, role, invitation),
           UNCHANGED <<rows, admitted>>
    PROVE  Inv'
<1>1. /\ TypeOK /\ ServersComplete /\ RolesStayInServer /\ NoOrphans
      /\ PrivateByInvitation /\ DefaultRoles /\ JoinsOK
    BY DEF Inv
<1>2. UNCHANGED <<server, role, invitation, members, held, admitted>>
    BY DEF rows
<1>3. req \in [Requests -> Request]
    BY <1>1 DEF TypeOK
<1>4. req' \in [Requests -> Request] /\ JoinsOK'
    BY <1>1, <1>2, <1>3, SlotUpdate, JoinsKept
<1> QED
    BY <1>2, <1>4, HeldShrinkKeeps

LEMMA JoinPublicKeeps ==
    ASSUME Inv, NEW r \in Requests, NEW u \in Users, NEW s \in Servers,
           JoinPublic(r, u, s)
    PROVE  Inv'
<1> DEFINE q == [Idle EXCEPT !.pc = "insertMember", !.server = s, !.user = u]
<1>1. q \in Request /\ JoinOK(q, server, role, invitation)
    <2>1. q.pc = "insertMember" /\ q.server = s /\ q.user = u
        BY DEF Idle
    <2>2. q \in Request
        BY IdleOK DEF Request, Labels
    <2> HIDE DEF q
    <2>3. server[s].public
        BY DEF JoinPublic
    <2> QED
        BY <2>1, <2>2, <2>3 DEF JoinOK
<1>2. req' = [req EXCEPT ![r] = q] /\ UNCHANGED <<rows, admitted>>
    BY DEF JoinPublic
<1> HIDE DEF q
<1> QED
    BY <1>1, <1>2, LocalStepKeeps

LEMMA JoinPrivateKeeps ==
    ASSUME Inv, NEW r \in Requests, NEW u \in Users, NEW i \in InvitationIds,
           JoinPrivate(r, u, i)
    PROVE  Inv'
<1> DEFINE q == [pc |-> "insertMember", server |-> invitation[i].server, user |-> u,
                 inv |-> i, save |-> invitation[i].status # "Unlimited", role |-> NULL]
<1>1. i \in StoredInvitations /\ invitation[i] \in Invitation
    BY DEF Inv, TypeOK, JoinPrivate, StoredInvitations
<1>2. q \in Request /\ JoinOK(q, server, role, invitation)
    <2>1. invitation[i].server \in Servers /\ invitation[i] # NULL
        BY <1>1, NullIsNothing DEF Invitation
    <2>2. q \in Request
        BY <2>1 DEF Request, Labels
    <2> QED
        BY <2>1, <2>2 DEF JoinOK
<1>3. req' = [req EXCEPT ![r] = q] /\ UNCHANGED <<rows, admitted>>
    BY DEF JoinPrivate
<1> HIDE DEF q
<1> QED
    BY <1>2, <1>3, LocalStepKeeps

\* The join that saves an invitation leaves every invitation in its server.
LEMMA SaveInvitationKeeps ==
    ASSUME Inv, NEW r \in Requests, SaveInvitation(r)
    PROVE  Inv'
<1>1. /\ TypeOK /\ ServersComplete /\ RolesStayInServer /\ NoOrphans
      /\ PrivateByInvitation /\ DefaultRoles /\ JoinsOK
    BY DEF Inv
<1>2. UNCHANGED <<server, role, members, held, admitted>>
    BY DEF SaveInvitation
<1>3. \A i \in InvitationIds :
        /\ invitation[i] = NULL <=> invitation'[i] = NULL
        /\ invitation[i] # NULL => /\ invitation'[i] \in Invitation
                                   /\ invitation'[i].server = invitation[i].server
    <2> SUFFICES ASSUME NEW i \in InvitationIds
                 PROVE  /\ invitation[i] = NULL <=> invitation'[i] = NULL
                        /\ invitation[i] # NULL =>
                              /\ invitation'[i] \in Invitation
                              /\ invitation'[i].server = invitation[i].server
        OBVIOUS
    <2>1. CASE invitation' = invitation
        BY <1>1, <2>1 DEF TypeOK
    <2>2. CASE /\ req[r].inv \in StoredInvitations
               /\ invitation' = [invitation EXCEPT ![req[r].inv].status = "Accepted"]
        <3>1. CASE i # req[r].inv
            BY <1>1, <2>2, <3>1 DEF TypeOK, StoredInvitations
        <3>2. CASE i = req[r].inv
            <4>1. invitation[i] \in Invitation
                BY <1>1, <2>2, <3>2 DEF TypeOK, StoredInvitations
            <4>2. invitation'[i] = [invitation[i] EXCEPT !.status = "Accepted"]
                BY <1>1, <2>2, <3>2 DEF TypeOK, StoredInvitations
            <4>3. /\ invitation'[i] \in Invitation
                  /\ invitation'[i].server = invitation[i].server
                BY <4>1, <4>2 DEF Invitation
            <4> QED
                BY <4>1, <4>3, NullIsNothing
        <3> QED
            BY <3>1, <3>2
    <2> QED
        BY <2>1, <2>2 DEF SaveInvitation
<1>4. DOMAIN invitation' = InvitationIds /\ invitation' = [i \in InvitationIds |-> invitation'[i]]
    BY <1>1 DEF SaveInvitation, TypeOK, StoredInvitations
<1>5. PICK q \in Request : /\ req' = [req EXCEPT ![r] = q]
                           /\ JoinOK(q, server, role, invitation)
    <2>1. JoinOK(req[r], server, role, invitation) /\ req \in [Requests -> Request]
        BY <1>1 DEF JoinsOK, TypeOK
    <2> QED
        BY <2>1, Saved DEF SaveInvitation
<1>6. JoinOK(q, server', role', invitation')
    BY <1>2, <1>3, <1>5 DEF JoinOK
<1>7. req' \in [Requests -> Request] /\ JoinsOK'
    BY <1>1, <1>2, <1>3, <1>5, <1>6, SlotUpdate, JoinsKept DEF TypeOK
<1>8. /\ StoredServers' = StoredServers /\ StoredRoles' = StoredRoles
      /\ StoredInvitations' = StoredInvitations
    BY <1>2, <1>3 DEF StoredServers, StoredRoles, StoredInvitations
<1>9. TypeOK'
    <2>1. invitation' \in [InvitationIds -> Invitation \cup {NULL}]
        BY <1>3, <1>4
    <2> QED
        BY <1>1, <1>2, <1>7, <2>1 DEF TypeOK
<1>10. ServersComplete' /\ RolesStayInServer' /\ DefaultRoles'
    BY <1>1, <1>2, <1>8 DEF ServersComplete, RolesStayInServer, DefaultRoles
<1>11. NoOrphans' /\ PrivateByInvitation'
    BY <1>1, <1>2, <1>3, <1>8 DEF NoOrphans, PrivateByInvitation, StoredInvitations
<1> QED
    BY <1>7, <1>9, <1>10, <1>11 DEF Inv

\* What the join read two awaits ago is still enough to insert the member.
LEMMA InsertMemberKeeps ==
    ASSUME Inv, NEW r \in Requests, InsertMember(r)
    PROVE  Inv'
<1>1. /\ TypeOK /\ ServersComplete /\ RolesStayInServer /\ NoOrphans
      /\ PrivateByInvitation /\ DefaultRoles /\ JoinsOK
    BY DEF Inv
<1>2. /\ req[r].pc = "insertMember" /\ UNCHANGED <<server, role, invitation, held>>
      /\ req \in [Requests -> Request] /\ JoinOK(req[r], server, role, invitation)
    BY <1>1 DEF InsertMember, JoinsOK, TypeOK
<1>3. req[r].server \in Servers /\ req[r].user \in Users
    BY <1>2 DEF JoinOK
<1>4. CASE EndCreation(r) /\ UNCHANGED <<members, admitted>>
    <2>1. PICK q \in Request : /\ req' = [req EXCEPT ![r] = q]
                               /\ \A srv, rol, inv : JoinOK(q, srv, rol, inv)
        BY <1>2, <1>3, <1>4, Ended
    <2>2. UNCHANGED <<rows, admitted>>
        BY <1>2, <1>4 DEF rows
    <2> QED
        BY <2>1, <2>2, LocalStepKeeps
<1>5. CASE /\ req[r].server \in StoredServers
           /\ members' = members \cup {SeatOf(r)}
           /\ admitted' = admitted \cup ({req[r].inv} \ {NULL}) \X {SeatOf(r)}
           /\ req' = [req EXCEPT ![r].pc = "findDefaultRole"]
    <2> DEFINE q == [req[r] EXCEPT !.pc = "findDefaultRole"]
    <2>1. q \in Request /\ q.pc = "findDefaultRole"
          /\ q.server = req[r].server /\ q.user = req[r].user
        BY <1>2 DEF Request, Labels
    <2>2. req' = [req EXCEPT ![r] = q]
        BY <1>2, <1>5
    <2> HIDE DEF q
    <2>3. JoinOK(q, server', role', invitation')
        BY <1>3, <2>1 DEF JoinOK
    <2>4. req' \in [Requests -> Request] /\ JoinsOK'
        BY <1>1, <1>2, <2>1, <2>2, <2>3, SlotUpdate, JoinsKept
    <2>5. /\ SeatOf(r) \in Seat /\ SeatOf(r)[1] = req[r].server
          /\ ({req[r].inv} \ {NULL}) \X {SeatOf(r)} \subseteq InvitationIds \X Seat
        BY <1>2, <1>3 DEF SeatOf, Seat, Request
    <2>6. TypeOK'
        BY <1>1, <1>2, <1>5, <2>4, <2>5 DEF TypeOK
    <2>7. /\ StoredServers' = StoredServers /\ StoredRoles' = StoredRoles
          /\ StoredInvitations' = StoredInvitations
        BY <1>2 DEF StoredServers, StoredRoles, StoredInvitations
    <2>8. ServersComplete' /\ RolesStayInServer' /\ DefaultRoles'
        BY <1>1, <1>2, <1>5, <2>7 DEF ServersComplete, RolesStayInServer, DefaultRoles
    <2>9. NoOrphans'
        BY <1>1, <1>2, <1>5, <2>5, <2>7 DEF NoOrphans
    <2>10. PrivateByInvitation'
        <3> SUFFICES ASSUME NEW m \in members',
                            ~server[m[1]].public, m[2] # server[m[1]].owner
                     PROVE  \E i \in StoredInvitations :
                                <<i, m>> \in admitted' /\ invitation[i].server = m[1]
            BY <1>2, <2>7 DEF PrivateByInvitation
        <3>1. CASE m \in members
            BY <1>1, <1>5, <3>1 DEF PrivateByInvitation
        <3>2. CASE m = SeatOf(r)
            <4>1. /\ req[r].inv \in StoredInvitations
                  /\ invitation[req[r].inv].server = req[r].server
                BY <1>2, <1>5, <2>5, <3>2 DEF JoinOK, StoredServers, StoredInvitations
            <4>2. <<req[r].inv, m>> \in admitted'
                BY <1>5, <3>2, <4>1, NullIsNothing DEF StoredInvitations
            <4> QED
                BY <2>5, <3>2, <4>1, <4>2
        <3> QED
            BY <1>5, <3>1, <3>2
    <2> QED
        BY <2>4, <2>6, <2>8, <2>9, <2>10 DEF Inv
<1> QED
    BY <1>4, <1>5 DEF InsertMember

LEMMA FindDefaultRoleKeeps ==
    ASSUME Inv, NEW r \in Requests, FindDefaultRole(r)
    PROVE  Inv'
<1>1. /\ DefaultRoles /\ req \in [Requests -> Request]
      /\ JoinOK(req[r], server, role, invitation)
    BY DEF Inv, TypeOK, JoinsOK
<1>2. req[r].pc = "findDefaultRole" /\ UNCHANGED <<rows, admitted>>
    BY DEF FindDefaultRole
<1>3. req[r].server \in Servers /\ req[r].user \in Users
    BY <1>1, <1>2 DEF JoinOK
<1>4. CASE EndCreation(r)
    <2>1. PICK q \in Request : /\ req' = [req EXCEPT ![r] = q]
                               /\ \A srv, rol, inv : JoinOK(q, srv, rol, inv)
        BY <1>1, <1>3, <1>4, Ended
    <2> QED
        BY <1>2, <2>1, LocalStepKeeps
<1>5. ASSUME NEW o \in StoredRoles, role[o].server = req[r].server,
             req' = [req EXCEPT ![r].pc = "attachRole", ![r].role = o]
      PROVE  Inv'
    <2> DEFINE q == [req[r] EXCEPT !.pc = "attachRole", !.role = o]
    <2>1. o \in Roles
        BY DEF StoredRoles
    <2>2. q \in Request /\ q.pc = "attachRole" /\ q.role = o
          /\ q.server = req[r].server /\ q.user = req[r].user
        BY <1>1, <2>1 DEF Request, Labels
    <2>3. req' = [req EXCEPT ![r] = q]
        BY <1>1, <1>5
    <2> HIDE DEF q
    <2>4. o \in Servers => o = req[r].server
        BY <1>1, <1>5 DEF DefaultRoles, StoredRoles
    <2>5. JoinOK(q, server, role, invitation)
        BY <1>3, <1>5, <2>1, <2>2, <2>4 DEF JoinOK
    <2> QED
        BY <1>2, <2>2, <2>3, <2>5, LocalStepKeeps
<1> QED
    BY <1>4, <1>5 DEF FindDefaultRole

\* The role found is of the member's server, if it is still there.
LEMMA AttachRoleKeeps ==
    ASSUME Inv, NEW r \in Requests, AttachRole(r)
    PROVE  Inv'
<1> DEFINE row == <<SeatOf(r), req[r].role>>
           more == IF SeatOf(r) \in members /\ req[r].role \in StoredRoles
                     THEN {row} ELSE {}
<1>1. /\ TypeOK /\ JoinsOK /\ req \in [Requests -> Request]
      /\ JoinOK(req[r], server, role, invitation)
    BY DEF Inv, TypeOK, JoinsOK
<1>2. /\ req[r].pc = "attachRole" /\ EndCreation(r)
      /\ UNCHANGED <<server, role, invitation, members, admitted>>
      /\ held' = held \cup more
    BY DEF AttachRole
<1>3. /\ req[r].server \in Servers /\ req[r].user \in Users /\ req[r].role \in Roles
      /\ req[r].role \in StoredRoles => role[req[r].role].server = req[r].server
    BY <1>1, <1>2 DEF JoinOK, StoredRoles
<1>4. PICK q \in Request : /\ req' = [req EXCEPT ![r] = q]
                           /\ \A srv, rol, inv : JoinOK(q, srv, rol, inv)
    BY <1>1, <1>2, <1>3, Ended
<1>5. req' \in [Requests -> Request] /\ JoinsOK'
    BY <1>1, <1>2, <1>4, SlotUpdate, JoinsKept
<1>6. \A h \in more : /\ h \in Seat \X Roles
                      /\ h[1] \in members
                      /\ h[2] \in StoredRoles
                      /\ role[h[2]].server = h[1][1]
    BY <1>3 DEF SeatOf, Seat
<1>7. held' \subseteq held \cup more
    BY <1>2
<1> HIDE DEF more
<1> QED
    BY <1>2, <1>5, <1>6, <1>7, HeldWriteKeeps

LEMMA FailKeeps ==
    ASSUME Inv, NEW r \in Requests, FailCreation(r) \/ FailSave(r)
    PROVE  Inv'
<1>1. req \in [Requests -> Request] /\ JoinOK(req[r], server, role, invitation)
    BY DEF Inv, TypeOK, JoinsOK
<1>2. UNCHANGED <<rows, admitted>>
    BY DEF FailCreation, FailSave
<1>3. CASE FailCreation(r)
    <2>1. req[r].server \in Servers /\ req[r].user \in Users /\ EndCreation(r)
        BY <1>1, <1>3 DEF JoinOK, FailCreation
    <2>2. PICK q \in Request : /\ req' = [req EXCEPT ![r] = q]
                               /\ \A srv, rol, inv : JoinOK(q, srv, rol, inv)
        BY <1>1, <2>1, Ended
    <2> QED
        BY <1>2, <2>2, LocalStepKeeps
<1>4. CASE FailSave(r)
    <2>1. PICK q \in Request : /\ req' = [req EXCEPT ![r] = q]
                               /\ JoinOK(q, server, role, invitation)
        BY <1>1, <1>4, Saved DEF FailSave
    <2> QED
        BY <1>2, <2>1, LocalStepKeeps
<1> QED
    BY <1>3, <1>4

-----------------------------------------------------------------------------
(* The invariant of the specification.                                     *)

\* No row and no join.
LEMMA InitInv == Init => Inv
<1> SUFFICES ASSUME Init PROVE Inv
    OBVIOUS
<1>1. TypeOK
    BY IdleOK DEF Init, TypeOK
<1>2. /\ StoredServers = {} /\ StoredRoles = {} /\ StoredInvitations = {}
      /\ members = {} /\ held = {}
    BY NullIsNothing DEF Init, StoredServers, StoredRoles, StoredInvitations
<1>3. ServersComplete /\ RolesStayInServer /\ NoOrphans /\ PrivateByInvitation
    BY <1>2 DEF ServersComplete, RolesStayInServer, NoOrphans, PrivateByInvitation
<1>4. DefaultRoles
    BY NullIsNothing DEF Init, DefaultRoles
<1>5. JoinsOK
    BY IdleOK DEF Init, JoinsOK
<1> QED
    BY <1>1, <1>3, <1>4, <1>5 DEF Inv

\* Every step keeps the invariant.
LEMMA StepInv == Inv /\ [Next]_vars => Inv'
<1> SUFFICES ASSUME Inv, [Next]_vars PROVE Inv'
    OBVIOUS
<1>1. CASE Manage
    BY <1>1, CreateServerKeeps, DeleteServerKeeps, CreateInvitationKeeps,
       CreateRoleKeeps, RenameRoleKeeps, DeleteRoleKeeps, AssignKeeps, UnassignKeeps
       DEF Manage
<1>2. ASSUME NEW r \in Requests, Join(r) PROVE Inv'
    BY <1>2, JoinPublicKeeps, JoinPrivateKeeps DEF Join
<1>3. ASSUME NEW r \in Requests, Create(r) PROVE Inv'
    BY <1>3, InsertMemberKeeps, FindDefaultRoleKeeps, AttachRoleKeeps DEF Create
<1>4. ASSUME NEW r \in Requests, SaveInvitation(r) PROVE Inv'
    BY <1>4, SaveInvitationKeeps
<1>5. ASSUME NEW r \in Requests, FailCreation(r) \/ FailSave(r) PROVE Inv'
    BY <1>5, FailKeeps
<1>6. CASE UNCHANGED vars
    <2>1. UNCHANGED <<server, role, invitation, members, held, req, admitted>>
        BY <1>6 DEF vars
    <2>2. TypeOK' /\ JoinsOK'
        BY <2>1 DEF Inv, TypeOK, JoinsOK
    <2>3. held' \subseteq held /\ req' \in [Requests -> Request]
        BY <2>1, <2>2 DEF TypeOK
    <2> QED
        BY <2>1, <2>2, <2>3, HeldShrinkKeeps
<1> QED
    BY <1>1, <1>2, <1>3, <1>4, <1>5, <1>6 DEF Next

LEMMA Invariant == Spec => []Inv
<1> QED
    BY InitInv, StepInv, PTL DEF Spec

\* Every table and every local keeps the values its columns allow.
THEOREM MembershipTyped == Spec => []TypeOK
<1>1. Inv => TypeOK
    BY DEF Inv
<1> QED
    BY <1>1, Invariant, PTL

\* Every stored server has its owner and its default role, so that no policy
\* ever fails for lack of them: no operation deletes, renames or moves that role.
THEOREM ServersStayComplete == Spec => []ServersComplete
<1>1. Inv => ServersComplete
    BY DEF Inv
<1> QED
    BY <1>1, Invariant, PTL

\* Members hold roles of their own server only, however joins race with the
\* creation, renaming and deletion of roles and servers.
THEOREM RolesNeverCross == Spec => []RolesStayInServer
<1>1. Inv => RolesStayInServer
    BY DEF Inv
<1> QED
    BY <1>1, Invariant, PTL

\* The deletion of a server leaves no member, role or invitation of it behind.
THEOREM NeverOrphans == Spec => []NoOrphans
<1>1. Inv => NoOrphans
    BY DEF Inv
<1> QED
    BY <1>1, Invariant, PTL

\* Members of private servers came through one of its invitations.
THEOREM PrivateOnlyByInvitation == Spec => []PrivateByInvitation
<1>1. Inv => PrivateByInvitation
    BY DEF Inv
<1> QED
    BY <1>1, Invariant, PTL

-----------------------------------------------------------------------------
(* Unique invitations.  The status is read when a join starts and saved beside   *)
(* the insertion of the member, in either order: that a unique invitation lets   *)
(* one user in holds of every behaviour in which no two joins use the same one   *)
(* at the same time and no save fails, however many joins there are and whatever *)
(* insertions fail.                                                              *)

UniqueInvitations == {i \in StoredInvitations : invitation[i].status # "Unlimited"}

JoinsApart ==
    \A i \in UniqueInvitations : \A r, q \in Requests :
        req[r].inv = i /\ req[q].inv = i => r = q

AdmittedBy(i) == {a \in admitted : a[1] = i}

\* Of a unique invitation: who it let in.
UseOK(i) ==
    /\ \A a, b \in AdmittedBy(i) : a = b
    /\ invitation[i].status = "Pending" /\ AdmittedBy(i) # {}
         => \E r \in Requests : req[r].inv = i /\ req[r].save
    /\ \A r \in Requests : req[r].inv = i =>
          /\ req[r].pc = "insertMember" => AdmittedBy(i) = {}
          /\ ~req[r].save => invitation[i].status # "Pending"

\* The invitation of a join, as long as there is a row
JoinUses(r) ==
    LET q == req[r]
    IN  /\ q.save => /\ q.inv \in InvitationIds
                     /\ q.inv \in StoredInvitations => q.inv \in UniqueInvitations
        /\ q.pc = "insertMember" /\ q.inv # NULL /\ q.server \in StoredServers
             => q.inv \in StoredInvitations /\ invitation[q.inv].server = q.server

Uses ==
    /\ \A i \in UniqueInvitations : UseOK(i)
    /\ \A r \in Requests : JoinUses(r)
    /\ \A a \in admitted : /\ a[1] \in StoredInvitations
                           /\ invitation[a[1]].server = a[2][1]

\* The step is not the failure of a save.
SavesSucceed == [][\A r \in Requests : ~FailSave(r)]_vars

\* What r does to the other slots: nothing.
OthersWait(r) == \A q \in Requests : q # r => req'[q] = req[q]

LEMMA IdleUsesNothing ==
    /\ Idle.pc = "idle" /\ Idle.inv = NULL /\ Idle.save = FALSE
    /\ \A i \in InvitationIds : i # NULL
BY NullIsNothing DEF Idle

LEMMA EndEffect ==
    ASSUME TypeOK, NEW r \in Requests, EndCreation(r)
    PROVE  /\ OthersWait(r) /\ req'[r].pc # "insertMember"
           /\ \/ req'[r].inv = req[r].inv /\ req'[r].save = req[r].save
              \/ req'[r] = Idle /\ ~req[r].save
<1>1. req[r] \in Request
    BY DEF TypeOK
<1>2. CASE req[r].save
    BY <1>1, <1>2 DEF EndCreation, TypeOK, Request, OthersWait
<1>3. CASE ~req[r].save
    BY <1>3, IdleUsesNothing DEF EndCreation, TypeOK, OthersWait
<1> QED
    BY <1>2, <1>3

\* A step of r that writes none of the three tables and does not start or stop a
\* save.
LEMMA UsesUntouched ==
    ASSUME Uses, NEW r \in Requests, UNCHANGED <<server, invitation, admitted>>,
           OthersWait(r), req'[r].pc # "insertMember",
           \/ req'[r].inv = req[r].inv /\ req'[r].save = req[r].save
           \/ req'[r] = Idle /\ ~req[r].save
    PROVE  Uses'
<1>1. /\ StoredServers' = StoredServers /\ StoredInvitations' = StoredInvitations
      /\ UniqueInvitations' = UniqueInvitations
    BY DEF StoredServers, StoredInvitations, UniqueInvitations
<1>2. ASSUME NEW i \in UniqueInvitations PROVE UseOK(i)'
    <2>1. UseOK(i) /\ i \in InvitationIds /\ AdmittedBy(i)' = AdmittedBy(i)
        BY DEF Uses, UniqueInvitations, StoredInvitations, AdmittedBy
    <2>2. \A q \in Requests : req[q].inv = i /\ req[q].save
                                <=> req'[q].inv = i /\ req'[q].save
        BY <2>1, IdleUsesNothing DEF OthersWait
    <2>3. \A q \in Requests : req'[q].inv = i =>
              /\ req'[q].pc = "insertMember" => req[q].inv = i /\ req[q].pc = "insertMember"
              /\ ~req'[q].save => req[q].inv = i /\ ~req[q].save
        BY <2>1, IdleUsesNothing DEF OthersWait
    <2> QED
        BY <2>1, <2>2, <2>3 DEF UseOK, AdmittedBy
<1>3. ASSUME NEW q \in Requests PROVE JoinUses(q)'
    BY <1>1, IdleUsesNothing DEF Uses, JoinUses, OthersWait
<1> QED
    BY <1>1, <1>2, <1>3 DEF Uses

\* Operations on roles, and the creation of a server, leave the uses alone.
LEMMA ManageUses ==
    ASSUME Inv, Uses, Manage
    PROVE  Uses'
<1>1. CASE UNCHANGED <<server, invitation, admitted, req>>
    BY <1>1 DEF Uses, UseOK, JoinUses, AdmittedBy, UniqueInvitations, StoredInvitations,
                StoredServers
<1>2. ASSUME NEW s \in Servers, NEW u \in Users, NEW public \in BOOLEAN,
             CreateServer(s, u, public)
      PROVE  Uses'
    <2>1. /\ UNCHANGED <<invitation, admitted, req>>
          /\ \A r \in Requests : req[r].server # s
          /\ \A x \in Servers : x # s => server'[x] = server[x]
        BY <1>2 DEF CreateServer, Inv, TypeOK
    <2>2. \A r \in Requests : req[r].server \in StoredServers' => req[r].server \in StoredServers
        BY <2>1 DEF StoredServers
    <2>3. \A r \in Requests : JoinUses(r)'
        BY <2>1, <2>2 DEF Uses, JoinUses, StoredInvitations, UniqueInvitations
    <2> QED
        BY <2>1, <2>3 DEF Uses, UseOK, AdmittedBy, UniqueInvitations, StoredInvitations
<1>3. ASSUME NEW s \in Servers, DeleteServer(s) PROVE Uses'
    <2>1. /\ \A x \in Servers : server'[x] = IF x = s THEN NULL ELSE server[x]
          /\ \A i \in InvitationIds : invitation'[i] =
                IF i \in StoredInvitations /\ invitation[i].server = s
                  THEN NULL ELSE invitation[i]
          /\ admitted' = {a \in admitted : a[2][1] # s}
          /\ req' = req
        BY <1>3 DEF DeleteServer, Inv, TypeOK
    <2>2. /\ StoredServers' = StoredServers \ {s}
          /\ StoredInvitations' = {i \in StoredInvitations : invitation[i].server # s}
          /\ \A i \in StoredInvitations' : invitation'[i] = invitation[i]
        BY <2>1 DEF StoredServers, StoredInvitations
    <2>3. UniqueInvitations' = {i \in UniqueInvitations : invitation[i].server # s}
        BY <2>2 DEF UniqueInvitations
    <2>4. ASSUME NEW i \in UniqueInvitations' PROVE UseOK(i)'
        <3>1. UseOK(i) /\ invitation'[i] = invitation[i]
            BY <2>2, <2>3, <2>4 DEF Uses, UniqueInvitations
        <3>2. AdmittedBy(i)' \subseteq AdmittedBy(i)
            BY <2>1 DEF AdmittedBy
        <3> QED
            BY <2>1, <3>1, <3>2 DEF UseOK, AdmittedBy
    <2>5. ASSUME NEW r \in Requests PROVE JoinUses(r)'
        BY <2>1, <2>2, <2>3, <2>5 DEF Uses, JoinUses
    <2>6. \A a \in admitted' : /\ a[1] \in StoredInvitations'
                               /\ invitation'[a[1]].server = a[2][1]
        BY <2>1, <2>2 DEF Uses
    <2> QED
        BY <2>4, <2>5, <2>6 DEF Uses
<1>4. ASSUME NEW i \in InvitationIds, NEW s \in Servers, NEW unique \in BOOLEAN,
             CreateInvitation(i, s, unique)
      PROVE  Uses'
    <2> DEFINE row == [server |-> s, status |-> IF unique THEN "Pending" ELSE "Unlimited"]
    <2>1. /\ UNCHANGED <<server, admitted, req>> /\ i \notin StoredInvitations
          /\ \A r \in Requests : req[r].inv # i
          /\ invitation'[i] = row
          /\ \A j \in InvitationIds : j # i => invitation'[j] = invitation[j]
        BY <1>4 DEF CreateInvitation, Inv, TypeOK, StoredInvitations
    <2>2. row \in Invitation /\ row # NULL
        BY NullIsNothing DEF Invitation
    <2>3. StoredInvitations' = StoredInvitations \cup {i}
        BY <2>1, <2>2 DEF StoredInvitations
    <2>4. ASSUME NEW j \in UniqueInvitations', j # i PROVE UseOK(j)'
        <3>1. j \in UniqueInvitations /\ invitation'[j] = invitation[j]
            BY <2>1, <2>3, <2>4 DEF UniqueInvitations, StoredInvitations
        <3> QED
            BY <2>1, <3>1 DEF Uses, UseOK, AdmittedBy
    <2>5. UseOK(i)'
        <3>1. AdmittedBy(i)' = {}
            BY <2>1 DEF Uses, AdmittedBy
        <3> QED
            BY <2>1, <3>1 DEF UseOK
    <2>6. ASSUME NEW r \in Requests PROVE JoinUses(r)'
        BY <2>1, <2>3 DEF Uses, JoinUses, UniqueInvitations, StoredInvitations, StoredServers
    <2>7. \A a \in admitted' : /\ a[1] \in StoredInvitations'
                               /\ invitation'[a[1]].server = a[2][1]
        BY <2>1, <2>3 DEF Uses, StoredInvitations
    <2> QED
        BY <2>4, <2>5, <2>6, <2>7 DEF Uses
<1> QED
    BY <1>1, <1>2, <1>3, <1>4
       DEF Manage, CreateRole, RenameRole, DeleteRole, Assign, Unassign

\* A join starts: nobody uses the invitation, and if it is still pending it has
\* let nobody in.
LEMMA JoinStarts ==
    ASSUME Inv, Uses, JoinsApart', NEW r \in Requests, Join(r)
    PROVE  Uses'
<1>1. CASE \E u \in Users, s \in Servers : JoinPublic(r, u, s)
    <2>1. PICK u \in Users, s \in Servers : JoinPublic(r, u, s)
        BY <1>1
    <2>2. /\ UNCHANGED <<server, invitation, admitted>> /\ req[r] = Idle /\ OthersWait(r)
          /\ req'[r].inv = NULL /\ req'[r].save = FALSE
        BY <2>1 DEF JoinPublic, rows, Inv, TypeOK, Idle, OthersWait
    <2>3. \A q \in Requests, i \in InvitationIds :
              /\ req'[q].inv = i => q # r /\ req'[q] = req[q]
              /\ req[q].inv = i => q # r /\ req'[q] = req[q]
        BY <2>2, IdleUsesNothing DEF OthersWait
    <2>4. ASSUME NEW i \in UniqueInvitations' PROVE UseOK(i)'
        BY <2>2, <2>3 DEF Uses, UseOK, AdmittedBy, UniqueInvitations, StoredInvitations
    <2>5. ASSUME NEW q \in Requests PROVE JoinUses(q)'
        BY <2>2 DEF Uses, JoinUses, OthersWait, UniqueInvitations, StoredInvitations,
                    StoredServers
    <2> QED
        BY <2>2, <2>4, <2>5 DEF Uses, StoredInvitations
<1>2. CASE \E u \in Users, i \in InvitationIds : JoinPrivate(r, u, i)
    <2>1. PICK u \in Users, i \in InvitationIds : JoinPrivate(r, u, i)
        BY <1>2
    <2>2. /\ UNCHANGED <<server, invitation, admitted>> /\ req[r] = Idle /\ OthersWait(r)
          /\ req'[r] = [pc |-> "insertMember", server |-> invitation[i].server, user |-> u,
                        inv |-> i, save |-> invitation[i].status # "Unlimited",
                        role |-> NULL]
          /\ i \in StoredInvitations
          /\ invitation[i].status \in {"Pending", "Unlimited"}
        BY <2>1 DEF JoinPrivate, rows, Inv, TypeOK, OthersWait
    <2>3. /\ req'[r].inv = i /\ req'[r].server = invitation[i].server
          /\ req'[r].save <=> i \in UniqueInvitations
        <3>1. i \in UniqueInvitations <=> invitation[i].status # "Unlimited"
            BY <2>2 DEF UniqueInvitations
        <3>2. /\ req'[r].inv = i /\ req'[r].server = invitation[i].server
              /\ req'[r].save = (invitation[i].status # "Unlimited")
            BY <2>2
        <3> QED
            BY <3>1, <3>2
    <2>4. ASSUME NEW j \in UniqueInvitations' PROVE UseOK(j)'
        <3>1. j \in UniqueInvitations /\ UseOK(j) /\ AdmittedBy(j)' = AdmittedBy(j)
            BY <2>2 DEF Uses, UniqueInvitations, StoredInvitations, AdmittedBy
        <3>2. CASE j # i
            BY <2>2, <2>3, <3>1, <3>2, IdleUsesNothing
               DEF UseOK, AdmittedBy, OthersWait, UniqueInvitations, StoredInvitations
        <3>3. CASE j = i
            <4>1. \A q \in Requests : req'[q].inv = i => q = r
                BY <2>3, <2>4, <3>3 DEF JoinsApart
            <4>2. \A q \in Requests : req[q].inv = i => req'[q] = req[q] /\ q # r
                BY <2>1, <2>2, IdleUsesNothing DEF OthersWait
            <4>3. AdmittedBy(i) = {}
                BY <2>2, <3>1, <3>3, <4>1, <4>2 DEF UseOK, UniqueInvitations
            <4> QED
                BY <2>3, <3>1, <3>3, <4>1, <4>3 DEF UseOK
        <3> QED
            BY <3>2, <3>3
    <2>5. ASSUME NEW q \in Requests PROVE JoinUses(q)'
        <3>1. CASE q = r
            BY <2>2, <2>3, <3>1 DEF JoinUses, UniqueInvitations, StoredInvitations
        <3>2. CASE q # r
            BY <2>2, <3>2 DEF Uses, JoinUses, OthersWait, UniqueInvitations,
                              StoredInvitations, StoredServers
        <3> QED
            BY <3>1, <3>2
    <2> QED
        BY <2>2, <2>4, <2>5 DEF Uses, StoredInvitations
<1> QED
    BY <1>1, <1>2 DEF Join

\* The save marks the invitation of a join that no other join uses.
LEMMA SaveUses ==
    ASSUME Inv, Uses, NEW r \in Requests, SaveInvitation(r)
    PROVE  Uses'
<1> DEFINE i == req[r].inv
<1>1. /\ UNCHANGED <<server, admitted>> /\ i \in InvitationIds
      /\ i \in StoredInvitations => i \in UniqueInvitations
      /\ req[r] \in Request /\ TypeOK
    BY DEF SaveInvitation, Uses, JoinUses, Inv, TypeOK
<1>2. /\ \A j \in InvitationIds : j # i => invitation'[j] = invitation[j]
      /\ i \notin StoredInvitations => invitation'[i] = invitation[i]
      /\ i \in StoredInvitations =>
            /\ invitation'[i].server = invitation[i].server
            /\ invitation'[i].status = "Accepted"
            /\ invitation'[i] \in Invitation /\ invitation'[i] # NULL
    <2>1. CASE i \notin StoredInvitations
        BY <2>1 DEF SaveInvitation
    <2>2. CASE i \in StoredInvitations
        <3>1. invitation[i] \in Invitation
            BY <1>1, <2>2 DEF TypeOK, StoredInvitations
        <3>2. /\ invitation'[i] = [invitation[i] EXCEPT !.status = "Accepted"]
              /\ \A j \in InvitationIds : j # i => invitation'[j] = invitation[j]
            BY <1>1, <2>2 DEF SaveInvitation, TypeOK
        <3>3. /\ invitation'[i].server = invitation[i].server
              /\ invitation'[i].status = "Accepted" /\ invitation'[i] \in Invitation
            BY <3>1, <3>2 DEF Invitation
        <3> QED
            BY <3>2, <3>3, <2>2, NullIsNothing
    <2> QED
        BY <2>1, <2>2
<1>3. StoredInvitations' = StoredInvitations /\ UniqueInvitations' = UniqueInvitations
    BY <1>1, <1>2 DEF StoredInvitations, UniqueInvitations
<1>4. /\ OthersWait(r)
      /\ req'[r] = Idle \/ /\ req'[r].pc = req[r].pc /\ req'[r].inv = i
                           /\ req'[r].server = req[r].server /\ req'[r].save = FALSE
    BY <1>1 DEF SaveInvitation, TypeOK, Request, OthersWait
<1>5. ASSUME NEW j \in UniqueInvitations PROVE UseOK(j)'
    <2>1. UseOK(j) /\ AdmittedBy(j)' = AdmittedBy(j) /\ j \in InvitationIds
        BY <1>1 DEF Uses, AdmittedBy, UniqueInvitations, StoredInvitations
    <2>2. CASE j = i
        <3>1. invitation'[j].status = "Accepted"
            BY <1>2, <2>2, <1>5 DEF UniqueInvitations
        <3>2. \A q \in Requests : req'[q].inv = j /\ req'[q].pc = "insertMember"
                                    => req[q].inv = j /\ req[q].pc = "insertMember"
            BY <1>4, <2>1, <2>2, IdleUsesNothing DEF OthersWait
        <3> QED
            BY <2>1, <3>1, <3>2 DEF UseOK, AdmittedBy
    <2>3. CASE j # i
        <3>1. invitation'[j] = invitation[j]
            BY <1>2, <2>1, <2>3
        <3>2. \A q \in Requests : /\ req'[q].inv = j => q # r /\ req'[q] = req[q]
                                  /\ req[q].inv = j => q # r /\ req'[q] = req[q]
            BY <1>4, <2>1, <2>3, IdleUsesNothing DEF OthersWait
        <3> QED
            BY <2>1, <3>1, <3>2 DEF UseOK, AdmittedBy
    <2> QED
        BY <2>2, <2>3
<1>6. ASSUME NEW q \in Requests PROVE JoinUses(q)'
    <2>1. \A j \in StoredInvitations : invitation'[j].server = invitation[j].server
        BY <1>2 DEF StoredInvitations
    <2>2. JoinUses(q) /\ StoredServers' = StoredServers
        BY <1>1 DEF Uses, StoredServers
    <2>3. CASE q = r
        BY <1>3, <1>4, <2>1, <2>2, <2>3, IdleUsesNothing DEF JoinUses
    <2>4. CASE q # r
        BY <1>3, <1>4, <2>1, <2>2, <2>4 DEF JoinUses, OthersWait
    <2> QED
        BY <2>3, <2>4
<1>7. \A a \in admitted' : /\ a[1] \in StoredInvitations'
                           /\ invitation'[a[1]].server = a[2][1]
    BY <1>1, <1>2, <1>3 DEF Uses, StoredInvitations
<1> QED
    BY <1>3, <1>5, <1>6, <1>7 DEF Uses

\* The insertion admits the first user of a unique invitation, and one that is
\* still to be saved or already is.
LEMMA InsertUses ==
    ASSUME Inv, Uses, JoinsApart, NEW r \in Requests, InsertMember(r)
    PROVE  Uses'
<1>1. TypeOK /\ req[r].pc = "insertMember" /\ UNCHANGED <<server, invitation>>
    BY DEF InsertMember, Inv
<1>2. CASE EndCreation(r) /\ UNCHANGED admitted
    BY <1>1, <1>2, EndEffect, UsesUntouched
<1>3. CASE /\ req[r].server \in StoredServers
           /\ admitted' = admitted \cup ({req[r].inv} \ {NULL}) \X {SeatOf(r)}
           /\ req' = [req EXCEPT ![r].pc = "findDefaultRole"]
    <2>1. /\ OthersWait(r) /\ req'[r].pc = "findDefaultRole"
          /\ req'[r].inv = req[r].inv /\ req'[r].save = req[r].save
        BY <1>1, <1>3 DEF TypeOK, Request, OthersWait
    <2>2. CASE req[r].inv = NULL
        <3>1. admitted' = admitted
            BY <1>3, <2>2
        <3> QED
            BY <1>1, <2>1, <3>1, UsesUntouched
    <2>3. CASE req[r].inv # NULL
        <3> DEFINE i == req[r].inv
                   a == <<i, SeatOf(r)>>
        <3>1. admitted' = admitted \cup {a} /\ a[1] = i /\ a[2][1] = req[r].server
            BY <1>3, <2>3 DEF SeatOf
        <3>2. i \in StoredInvitations /\ invitation[i].server = req[r].server
            BY <1>1, <1>3, <2>3 DEF Uses, JoinUses
        <3>3. /\ StoredServers' = StoredServers /\ StoredInvitations' = StoredInvitations
              /\ UniqueInvitations' = UniqueInvitations
            BY <1>1 DEF StoredServers, StoredInvitations, UniqueInvitations
        <3>4. ASSUME NEW j \in UniqueInvitations PROVE UseOK(j)'
            <4>1. UseOK(j) /\ invitation'[j] = invitation[j]
                BY <1>1 DEF Uses
            <4>2. \A q \in Requests :
                      /\ req'[q].inv = req[q].inv /\ req'[q].save = req[q].save
                      /\ req'[q].pc = "insertMember" => q # r /\ req[q].pc = "insertMember"
                BY <2>1 DEF OthersWait
            <4>3. CASE j # i
                <5>1. AdmittedBy(j)' = AdmittedBy(j)
                    BY <3>1, <4>3 DEF AdmittedBy
                <5> QED
                    BY <4>1, <4>2, <5>1 DEF UseOK
            <4>4. CASE j = i
                <5>1. AdmittedBy(j) = {}
                    BY <1>1, <4>1, <4>4 DEF UseOK
                <5>2. AdmittedBy(j)' = {a}
                    BY <3>1, <4>4, <5>1 DEF AdmittedBy
                <5>3. invitation[j].status = "Pending" => req[r].save
                    BY <4>1, <4>4 DEF UseOK
                <5>4. \A q \in Requests : req[q].inv = j => q = r
                    BY <4>4 DEF JoinsApart
                <5> HIDE DEF a
                <5> QED
                    BY <2>1, <4>1, <4>2, <4>4, <5>2, <5>3, <5>4 DEF UseOK
            <4> QED
                BY <4>3, <4>4
        <3>5. ASSUME NEW q \in Requests PROVE JoinUses(q)'
            <4>1. JoinUses(q) /\ invitation' = invitation
                BY <1>1 DEF Uses
            <4>2. CASE q = r
                BY <2>1, <3>3, <4>1, <4>2 DEF JoinUses
            <4>3. CASE q # r
                BY <2>1, <3>3, <4>1, <4>3 DEF JoinUses, OthersWait
            <4> QED
                BY <4>2, <4>3
        <3>6. \A b \in admitted' : /\ b[1] \in StoredInvitations'
                                   /\ invitation'[b[1]].server = b[2][1]
            BY <1>1, <3>1, <3>2, <3>3 DEF Uses
        <3> QED
            BY <3>3, <3>4, <3>5, <3>6 DEF Uses
    <2> QED
        BY <2>2, <2>3
<1> QED
    BY <1>2, <1>3 DEF InsertMember

\* The rest of the creation does not touch the invitation.
LEMMA CreationUses ==
    ASSUME Inv, Uses, NEW r \in Requests,
           FindDefaultRole(r) \/ AttachRole(r) \/ FailCreation(r)
    PROVE  Uses'
<1>1. TypeOK /\ UNCHANGED <<server, invitation, admitted>>
    BY DEF FindDefaultRole, AttachRole, FailCreation, rows, Inv
<1>2. CASE EndCreation(r)
    BY <1>1, <1>2, EndEffect, UsesUntouched
<1>3. CASE \E o \in StoredRoles :
             req' = [req EXCEPT ![r].pc = "attachRole", ![r].role = o]
    <2>1. /\ OthersWait(r) /\ req'[r].pc = "attachRole"
          /\ req'[r].inv = req[r].inv /\ req'[r].save = req[r].save
        BY <1>1, <1>3 DEF TypeOK, Request, OthersWait
    <2> QED
        BY <1>1, <2>1, UsesUntouched
<1> QED
    BY <1>2, <1>3 DEF FindDefaultRole, AttachRole, FailCreation

LEMMA StepUses ==
    ASSUME Inv, Uses, JoinsApart, JoinsApart', [Next]_vars,
           [\A r \in Requests : ~FailSave(r)]_vars
    PROVE  Uses'
<1>1. CASE UNCHANGED vars
    BY <1>1 DEF vars, Uses, UseOK, JoinUses, AdmittedBy, UniqueInvitations,
                StoredInvitations, StoredServers
<1>2. CASE Next /\ \A r \in Requests : ~FailSave(r)
    BY <1>2, ManageUses, JoinStarts, SaveUses, InsertUses, CreationUses DEF Next, Create
<1> QED
    BY <1>1, <1>2

LEMMA AlwaysUses == Spec /\ []JoinsApart /\ SavesSucceed => []Uses
<1>1. Init => Uses
    BY IdleUsesNothing
       DEF Init, Uses, JoinUses, UniqueInvitations, StoredInvitations
<1>2. Uses /\ Inv /\ JoinsApart /\ JoinsApart' /\ [Next]_vars
          /\ [\A r \in Requests : ~FailSave(r)]_vars => Uses'
    BY StepUses
<1> QED
    BY <1>1, <1>2, Invariant, PTL DEF Spec, SavesSucceed

\* The status is worth what it says: one unique invitation, one member.
THEOREM OneUserPerInvitation ==
    Spec /\ []JoinsApart /\ SavesSucceed => []AdmitsOne
<1>1. Uses => AdmitsOne
    <2> SUFFICES ASSUME Uses, NEW i \in UniqueInvitations
                 PROVE  Cardinality({a \in admitted : a[1] = i}) <= 1
        BY DEF AdmitsOne, UniqueInvitations
    <2>1. \A a, b \in AdmittedBy(i) : a = b
        BY DEF Uses, UseOK
    <2>2. AdmittedBy(i) = {} \/ \E a : AdmittedBy(i) = {a}
        BY <2>1
    <2>3. Cardinality(AdmittedBy(i)) \in {0, 1}
        <3>1. CASE AdmittedBy(i) = {}
            BY <3>1, FS_EmptySet
        <3>2. ASSUME NEW a, AdmittedBy(i) = {a}
              PROVE  Cardinality(AdmittedBy(i)) = 1
            BY <3>2, FS_Singleton
        <3> QED
            BY <2>2, <3>1, <3>2
    <2> QED
        BY <2>3 DEF AdmittedBy
<1> QED
    BY <1>1, AlwaysUses, PTL

-----------------------------------------------------------------------------
(* The refinement of Communities, under the same two conditions.           *)

LEMMA WorthOfRow ==
    ASSUME TypeOK, NEW i \in InvitationIds
    PROVE  /\ i \notin StoredInvitations => Invites[i] = NULL
           /\ i \in StoredInvitations =>
                 /\ Invites[i] = [server |-> invitation[i].server, status |-> Worth(i)]
                 /\ Invites[i] # NULL
                 /\ invitation[i] \in Invitation
<1>1. CASE i \notin StoredInvitations
    BY <1>1 DEF Invites
<1>2. CASE i \in StoredInvitations
    <2>1. invitation[i] \in Invitation /\ Worth(i) \in {"Unlimited", "Pending", "Accepted"}
        BY <1>2 DEF TypeOK, StoredInvitations, Worth
    <2>2. Invites[i] = [invitation[i] EXCEPT !.status = Worth(i)]
        BY <1>2 DEF Invites
    <2>3. Invites[i] = [server |-> invitation[i].server, status |-> Worth(i)]
        BY <2>1, <2>2 DEF Invitation
    <2>4. Invites[i] \in Invitation
        BY <2>1, <2>3 DEF Invitation
    <2> QED
        BY <1>2, <2>1, <2>3, <2>4, NullIsNothing
<1> QED
    BY <1>1, <1>2

\* Rows that are stored on and worth the same.
LEMMA SameInvites ==
    ASSUME UNCHANGED invitation, \A i \in StoredInvitations : Worth(i)' = Worth(i)
    PROVE  Invites' = Invites
BY DEF Invites, StoredInvitations

\* One of them is spent.
LEMMA OneSpent ==
    ASSUME TypeOK, TypeOK', UNCHANGED invitation, NEW i \in StoredInvitations,
           Worth(i)' = "Accepted",
           \A j \in StoredInvitations \ {i} : Worth(j)' = Worth(j)
    PROVE  Invites' = [Invites EXCEPT ![i].status = "Accepted"]
<1>1. i \in InvitationIds /\ StoredInvitations' = StoredInvitations
    BY DEF StoredInvitations
<1>2. Invites'[i] = [Invites[i] EXCEPT !.status = "Accepted"]
    <2>1. Invites[i] = [server |-> invitation[i].server, status |-> Worth(i)]
        BY <1>1, WorthOfRow
    <2>2. Invites'[i] = [invitation[i] EXCEPT !.status = "Accepted"]
        BY <1>1 DEF Invites
    <2>3. invitation[i] \in Invitation
        BY <1>1, WorthOfRow
    <2> QED
        BY <2>1, <2>2, <2>3 DEF Invitation
<1>3. \A j \in InvitationIds \ {i} : Invites'[j] = Invites[j]
    BY <1>1 DEF Invites
<1> QED
    BY <1>1, <1>2, <1>3 DEF Invites

\* A request that keeps no invitation, before or after, and goes on saving the same
\* one, or none, changes the worth of none.
LEMMA WorthUntouched ==
    ASSUME NEW r \in Requests, UNCHANGED invitation, OthersWait(r),
           \A i \in StoredInvitations :
               /\ req[r].inv = i /\ req[r].pc = "insertMember"
                    <=> req'[r].inv = i /\ req'[r].pc = "insertMember"
               /\ req[r].inv = i /\ req[r].save <=> req'[r].inv = i /\ req'[r].save
    PROVE  Invites' = Invites
<1>1. ASSUME NEW i \in StoredInvitations PROVE Worth(i)' = Worth(i)
    <2>1. Kept(i)' <=> Kept(i)
        BY DEF Kept, OthersWait
    <2>2. ToSave(i)' <=> ToSave(i)
        BY DEF ToSave, OthersWait
    <2> QED
        BY <2>1, <2>2 DEF Worth
<1> QED
    BY <1>1, SameInvites

\* Servers that come and go, and new invitations; roles are not seen.
LEMMA ManageCommunity ==
    ASSUME Inv, Manage
    PROVE  Community!Next \/ UNCHANGED <<server, members, Invites>>
<1>1. TypeOK
    BY DEF Inv
<1>2. CASE UNCHANGED <<server, members, invitation, req>>
    <2>1. \A i \in StoredInvitations : Worth(i)' = Worth(i)
        BY <1>2 DEF Worth, Kept, ToSave
    <2> QED
        BY <1>2, <2>1, SameInvites
<1>3. ASSUME NEW s \in Servers, NEW u \in Users, NEW public \in BOOLEAN,
             CreateServer(s, u, public)
      PROVE  Community!Found(s, u, public)
    <2>1. UNCHANGED <<invitation, req>>
        BY <1>3 DEF CreateServer
    <2>2. \A i \in StoredInvitations : Worth(i)' = Worth(i)
        BY <2>1 DEF Worth, Kept, ToSave
    <2>3. UNCHANGED Invites
        BY <2>1, <2>2, SameInvites
    <2> QED
        BY <1>3, <2>3 DEF CreateServer, Community!Found
<1>4. ASSUME NEW s \in Servers, DeleteServer(s) PROVE Community!Disband(s)
    <2>1. /\ \A i \in InvitationIds : invitation'[i] =
                IF i \in StoredInvitations /\ invitation[i].server = s
                  THEN NULL ELSE invitation[i]
          /\ req' = req
        BY <1>1, <1>4 DEF DeleteServer, TypeOK
    <2>2. StoredInvitations' = {i \in StoredInvitations : invitation[i].server # s}
        BY <2>1 DEF StoredInvitations
    <2>3. \A i \in StoredInvitations' : Worth(i)' = Worth(i) /\ invitation'[i] = invitation[i]
        BY <2>1, <2>2 DEF Worth, Kept, ToSave, StoredInvitations
    <2>4. ASSUME NEW i \in InvitationIds
          PROVE  Invites'[i] = IF Invites[i] # NULL /\ Invites[i].server = s
                                 THEN NULL ELSE Invites[i]
        <3>1. CASE i \notin StoredInvitations
            BY <1>1, <2>2, <3>1, WorthOfRow DEF Invites
        <3>2. CASE i \in StoredInvitations /\ invitation[i].server = s
            BY <1>1, <2>2, <3>2, WorthOfRow DEF Invites
        <3>3. CASE i \in StoredInvitations'
            BY <1>1, <2>2, <2>3, <3>3, WorthOfRow DEF Invites
        <3> QED
            BY <2>2, <3>1, <3>2, <3>3
    <2>5. Invites' = [i \in InvitationIds |->
                        IF Invites[i] # NULL /\ Invites[i].server = s THEN NULL ELSE Invites[i]]
        BY <2>4 DEF Invites
    <2> QED
        BY <1>4, <2>5 DEF DeleteServer, StoredServers, Community!Disband
<1>5. ASSUME NEW i \in InvitationIds, NEW s \in Servers, NEW unique \in BOOLEAN,
             CreateInvitation(i, s, unique)
      PROVE  Community!Invite(i, s, unique)
    <2> DEFINE row == [server |-> s, status |-> IF unique THEN "Pending" ELSE "Unlimited"]
    <2>1. /\ req' = req /\ i \notin StoredInvitations
          /\ \A r \in Requests : req[r].inv # i
          /\ \A j \in InvitationIds : invitation'[j] = IF j = i THEN row ELSE invitation[j]
          /\ row \in Invitation /\ row # NULL
        BY <1>1, <1>5, NullIsNothing
           DEF CreateInvitation, StoredInvitations, TypeOK, Invitation
    <2>2. StoredInvitations' = StoredInvitations \cup {i}
        BY <2>1 DEF StoredInvitations
    <2>3. Worth(i)' = row.status
        BY <2>1 DEF Worth, Kept, ToSave
    <2>4. \A j \in StoredInvitations : j # i /\ Worth(j)' = Worth(j) /\ invitation'[j] = invitation[j]
        BY <2>1 DEF Worth, Kept, ToSave, StoredInvitations
    <2>5. Invites'[i] = row
        <3>1. Invites'[i] = [row EXCEPT !.status = row.status]
            BY <2>1, <2>2, <2>3 DEF Invites
        <3> QED
            BY <3>1
    <2>6. \A j \in InvitationIds \ {i} : Invites'[j] = Invites[j]
        BY <2>2, <2>4 DEF Invites
    <2>7. Invites' = [Invites EXCEPT ![i] = row]
        BY <2>5, <2>6 DEF Invites
    <2>8. Invites[i] = NULL
        BY <1>1, <2>1, WorthOfRow
    <2> QED
        BY <1>5, <2>7, <2>8 DEF CreateInvitation, StoredServers, Community!Invite
<1> QED
    BY <1>2, <1>3, <1>4, <1>5
       DEF Manage, CreateRole, RenameRole, DeleteRole, Assign, Unassign, Community!Next

\* A join that starts, or saves, changes nothing that users are promised: it keeps
\* the invitation until it inserts the member.
LEMMA JoinCommunity ==
    ASSUME Inv, Uses, JoinsApart', NEW r \in Requests, Join(r)
    PROVE  UNCHANGED <<server, members, Invites>>
<1>1. TypeOK
    BY DEF Inv
<1>2. CASE \E u \in Users, s \in Servers : JoinPublic(r, u, s)
    <2>1. PICK u \in Users, s \in Servers : JoinPublic(r, u, s)
        BY <1>2
    <2>2. /\ UNCHANGED <<server, members, invitation>> /\ req[r] = Idle
          /\ OthersWait(r) /\ req'[r].inv = NULL
        BY <1>1, <2>1 DEF JoinPublic, rows, TypeOK, Idle, OthersWait
    <2>3. Invites' = Invites
        BY <1>1, <2>2, IdleUsesNothing, WorthUntouched DEF StoredInvitations
    <2> QED
        BY <2>2, <2>3
<1>3. CASE \E u \in Users, i \in InvitationIds : JoinPrivate(r, u, i)
    <2>1. PICK u \in Users, i \in InvitationIds : JoinPrivate(r, u, i)
        BY <1>3
    <2>2. /\ UNCHANGED <<server, members, invitation>> /\ req[r] = Idle
          /\ OthersWait(r) /\ i \in StoredInvitations
          /\ req'[r].pc = "insertMember" /\ req'[r].inv = i
          /\ invitation[i].status \in {"Pending", "Unlimited"}
        BY <1>1, <2>1 DEF JoinPrivate, rows, TypeOK, OthersWait
    <2>3. StoredInvitations' = StoredInvitations /\ UniqueInvitations' = UniqueInvitations
        BY <2>2 DEF StoredInvitations, UniqueInvitations
    <2>4. ASSUME NEW j \in StoredInvitations PROVE Worth(j)' = Worth(j)
        <3>1. CASE j = i /\ invitation[i].status = "Unlimited"
            BY <2>2, <3>1 DEF Worth
        <3>2. CASE j = i /\ invitation[i].status = "Pending"
            <4>1. Kept(i)'
                BY <2>2 DEF Kept
            <4>2. \A q \in Requests : req'[q].inv = i => q = r
                BY <2>2, <2>3, <3>2 DEF JoinsApart, UniqueInvitations
            <4>3. ~ToSave(i)
                BY <2>2, <4>2, IdleUsesNothing DEF ToSave, OthersWait
            <4> QED
                BY <2>2, <3>2, <4>1, <4>3 DEF Worth
        <3>3. CASE j # i
            <4>1. Kept(j)' <=> Kept(j)
                BY <2>2, <3>3, IdleUsesNothing DEF Kept, OthersWait
            <4>2. ToSave(j)' <=> ToSave(j)
                BY <2>2, <3>3, IdleUsesNothing DEF ToSave, OthersWait
            <4> QED
                BY <2>2, <4>1, <4>2 DEF Worth
        <3> QED
            BY <2>2, <3>1, <3>2, <3>3
    <2> QED
        BY <2>2, <2>4, SameInvites
<1> QED
    BY <1>2, <1>3 DEF Join

LEMMA SaveCommunity ==
    ASSUME Inv, Uses, NEW r \in Requests, SaveInvitation(r)
    PROVE  UNCHANGED <<server, members, Invites>>
<1>1. PICK i : i = req[r].inv
    OBVIOUS
<1>2. /\ UNCHANGED <<server, members>> /\ i \in InvitationIds /\ req[r].save
      /\ i \in StoredInvitations => i \in UniqueInvitations
      /\ req[r] \in Request /\ TypeOK
    BY <1>1 DEF SaveInvitation, Uses, JoinUses, Inv, TypeOK
<1>3. /\ OthersWait(r) /\ req'[r].save = FALSE
      /\ \/ req'[r] = Idle /\ req[r].pc = "respond"
         \/ req'[r].pc = req[r].pc /\ req'[r].inv = i
    BY <1>1, <1>2, IdleUsesNothing DEF SaveInvitation, TypeOK, Request, OthersWait
<1>4. \A j \in InvitationIds : Kept(j)' <=> Kept(j)
    BY <1>1, <1>2, <1>3, IdleUsesNothing DEF Kept, OthersWait
<1>5. \A j \in InvitationIds \ {i} : ToSave(j)' <=> ToSave(j)
    BY <1>1, <1>2, <1>3, IdleUsesNothing DEF ToSave, OthersWait
<1>6. CASE i \notin StoredInvitations
    <2>1. invitation' = invitation
        BY <1>1, <1>6 DEF SaveInvitation
    <2>2. \A j \in StoredInvitations : Worth(j)' = Worth(j)
        BY <1>4, <1>5, <1>6, <2>1 DEF Worth, StoredInvitations
    <2> QED
        BY <1>2, <2>1, <2>2, SameInvites
<1>7. CASE i \in StoredInvitations
    <2>1. /\ invitation[i] \in Invitation /\ invitation[i].status # "Unlimited"
          /\ invitation'[i] = [invitation[i] EXCEPT !.status = "Accepted"]
          /\ \A j \in InvitationIds \ {i} : invitation'[j] = invitation[j]
        BY <1>1, <1>2, <1>7, WorthOfRow DEF SaveInvitation, UniqueInvitations, TypeOK
    <2>2. invitation'[i] \in Invitation /\ invitation'[i].status = "Accepted"
        BY <2>1 DEF Invitation
    <2>3. StoredInvitations' = StoredInvitations
        BY <1>2, <1>7, <2>1, <2>2, NullIsNothing DEF StoredInvitations
    <2>4. Worth(i)' = Worth(i)
        <3>1. ToSave(i)
            BY <1>1, <1>2 DEF ToSave
        <3> QED
            BY <1>2, <1>4, <2>1, <2>2, <3>1 DEF Worth
    <2>5. Invites'[i] = Invites[i]
        <3>1. Invites[i] = [server |-> invitation[i].server, status |-> Worth(i)]
            BY <1>2, <1>7, WorthOfRow
        <3>2. Invites'[i] = [invitation'[i] EXCEPT !.status = Worth(i)']
            BY <1>2, <1>7, <2>3 DEF Invites
        <3>3. invitation'[i].server = invitation[i].server
            BY <2>1 DEF Invitation
        <3>4. Invites'[i] = [server |-> invitation'[i].server, status |-> Worth(i)']
            BY <2>2, <3>2 DEF Invitation
        <3> QED
            BY <2>4, <3>1, <3>3, <3>4
    <2>6. \A j \in InvitationIds \ {i} : Invites'[j] = Invites[j]
        BY <1>4, <1>5, <2>1, <2>3 DEF Invites, Worth
    <2> QED
        BY <1>2, <2>5, <2>6 DEF Invites
<1> QED
    BY <1>6, <1>7

\* What EndCreation leaves of the invitation of r: spent, if it was unique.
LEMMA EndCommunity ==
    ASSUME Inv, Uses, JoinsApart, NEW r \in Requests,
           UNCHANGED <<server, members, invitation>>, EndCreation(r),
           TypeOK', req[r].pc # "idle"
    PROVE  Community!Next \/ UNCHANGED <<server, members, Invites>>
<1>1. PICK i : i = req[r].inv
    OBVIOUS
<1>2. /\ TypeOK /\ OthersWait(r) /\ req'[r].pc # "insertMember"
      /\ \/ req'[r].inv = i /\ req'[r].save = req[r].save
         \/ req'[r] = Idle /\ ~req[r].save
      /\ req[r] \in Request
    BY <1>1, EndEffect DEF Inv, TypeOK
<1>3. CASE req[r].pc = "insertMember" /\ i \in UniqueInvitations
    <2>1. i \in StoredInvitations /\ i \in InvitationIds /\ invitation[i].status # "Unlimited"
        BY <1>3 DEF UniqueInvitations, StoredInvitations
    <2>2. Worth(i) = "Pending"
        BY <1>1, <1>3, <2>1 DEF Worth, Kept
    <2>3. Worth(i)' = "Accepted"
        <3>1. \A q \in Requests : req[q].inv = i => q = r
            BY <1>1, <1>3 DEF JoinsApart
        <3>2. ~Kept(i)'
            BY <1>2, <3>1 DEF Kept, OthersWait
        <3>3. req[r].save => ToSave(i)'
            BY <1>1, <1>2, <2>1, IdleUsesNothing DEF ToSave
        <3>4. ~req[r].save => invitation[i].status = "Accepted"
            <4>1. invitation[i] \in Invitation
                BY <1>2, <2>1, WorthOfRow
            <4>2. ~req[r].save => invitation[i].status # "Pending"
                BY <1>1, <1>3 DEF Uses, UseOK
            <4> QED
                BY <2>1, <4>1, <4>2 DEF Invitation
        <3> QED
            BY <1>2, <2>1, <3>2, <3>3, <3>4 DEF Worth
    <2>4. \A j \in StoredInvitations \ {i} : Worth(j)' = Worth(j)
        <3> SUFFICES ASSUME NEW j \in StoredInvitations, j # i
                     PROVE  Worth(j)' = Worth(j)
            OBVIOUS
        <3>1. j \in InvitationIds
            BY DEF StoredInvitations
        <3>2. (Kept(j)' <=> Kept(j)) /\ (ToSave(j)' <=> ToSave(j))
            BY <1>1, <1>2, <3>1, IdleUsesNothing DEF Kept, ToSave, OthersWait
        <3> QED
            BY <3>2 DEF Worth
    <2>5. Invites' = [Invites EXCEPT ![i].status = "Accepted"]
        BY <1>2, <2>1, <2>3, <2>4, OneSpent
    <2>6. Invites[i] # NULL /\ Invites[i].status = "Pending"
        <3>1. Invites[i] = [server |-> invitation[i].server, status |-> Worth(i)]
            BY <1>2, <2>1, WorthOfRow
        <3>2. Invites[i] # NULL
            BY <1>2, <2>1, WorthOfRow
        <3> QED
            BY <2>2, <3>1, <3>2
    <2>7. Community!Waste(i)
        BY <2>5, <2>6 DEF Community!Waste, Community!Spent
    <2> QED
        BY <2>1, <2>7 DEF Community!Next
<1>4. CASE ~(req[r].pc = "insertMember" /\ i \in UniqueInvitations)
    <2>1. ASSUME NEW j \in StoredInvitations PROVE Worth(j)' = Worth(j)
        <3>1. j \in InvitationIds
            BY <2>1 DEF StoredInvitations
        <3>2. ToSave(j)' <=> ToSave(j)
            BY <1>1, <1>2, <3>1, IdleUsesNothing DEF ToSave, OthersWait
        <3>3. CASE j \notin UniqueInvitations
            BY <2>1, <3>3 DEF Worth, UniqueInvitations
        <3>4. CASE j \in UniqueInvitations
            <4>1. Kept(j)' <=> Kept(j)
                BY <1>1, <1>2, <1>4, <3>4, <3>1, IdleUsesNothing DEF Kept, OthersWait
            <4> QED
                BY <3>2, <4>1 DEF Worth
        <3> QED
            BY <3>3, <3>4
    <2> QED
        BY <2>1, SameInvites
<1> QED
    BY <1>3, <1>4

\* The insertion is the step in which somebody enters, and the invitation is spent.
LEMMA InsertCommunity ==
    ASSUME Inv, Inv', Uses, JoinsApart, NEW r \in Requests, InsertMember(r)
    PROVE  Community!Next \/ UNCHANGED <<server, members, Invites>>
<1>1. PICK i : i = req[r].inv
    OBVIOUS
<1>2. /\ TypeOK /\ TypeOK' /\ req[r].pc = "insertMember" /\ req[r] \in Request
      /\ UNCHANGED <<server, invitation>>
    BY DEF InsertMember, Inv, TypeOK
<1>3. CASE EndCreation(r) /\ UNCHANGED members
    BY <1>2, <1>3, EndCommunity
<1>4. CASE /\ req[r].server \in StoredServers /\ SeatOf(r) \notin members
           /\ members' = members \cup {SeatOf(r)}
           /\ req' = [req EXCEPT ![r].pc = "findDefaultRole"]
    <2>1. PICK s, u : s = req[r].server /\ u = req[r].user
        OBVIOUS
    <2>2. /\ s \in Servers /\ u \in Users /\ SeatOf(r) = <<s, u>>
          /\ server[s] # NULL
          /\ ~server[s].public => i \in InvitationIds
        BY <1>1, <1>2, <1>4, <2>1 DEF Inv, JoinsOK, JoinOK, SeatOf, StoredServers
    <2>3. /\ OthersWait(r) /\ req'[r].pc = "findDefaultRole"
          /\ req'[r].inv = i /\ req'[r].save = req[r].save
        BY <1>1, <1>2, <1>4 DEF TypeOK, Request, OthersWait
    <2>4. CASE i = NULL
        <3>1. Invites' = Invites
            BY <1>1, <1>2, <2>3, <2>4, IdleUsesNothing, WorthUntouched DEF StoredInvitations
        <3>2. server[s].public
            BY <2>2, <2>4, IdleUsesNothing
        <3>3. Community!Enter(s, u)
            BY <1>2, <1>4, <2>2, <3>1, <3>2 DEF Community!Enter
        <3> QED
            BY <2>2, <3>3 DEF Community!Next
    <2>5. CASE i # NULL
        <3>1. i \in StoredInvitations /\ i \in InvitationIds /\ invitation[i].server = s
            BY <1>1, <1>2, <1>4, <2>1, <2>5 DEF Uses, JoinUses, StoredInvitations
        <3>2. \A j \in StoredInvitations : ToSave(j)' <=> ToSave(j)
            BY <1>1, <2>3 DEF ToSave, OthersWait
        <3>3. /\ invitation[i] \in Invitation
              /\ Invites[i] = [server |-> s, status |-> Worth(i)] /\ Invites[i] # NULL
            BY <1>2, <3>1, WorthOfRow
        <3>4. \A j \in StoredInvitations \ {i} : Worth(j)' = Worth(j)
            <4> SUFFICES ASSUME NEW j \in StoredInvitations, j # i
                         PROVE  Worth(j)' = Worth(j)
                OBVIOUS
            <4>1. Kept(j)' <=> Kept(j)
                BY <1>1, <2>3 DEF Kept, OthersWait
            <4> QED
                BY <1>2, <3>2, <4>1 DEF Worth
        <3>5. CASE invitation[i].status = "Unlimited"
            <4>1. Worth(i) = "Unlimited" /\ Worth(i)' = "Unlimited"
                BY <1>2, <3>5 DEF Worth
            <4>2. Invites' = Invites
                BY <1>2, <3>4, <4>1, SameInvites
            <4>3. Community!EnterInvited(i, u)
                BY <1>2, <1>4, <2>2, <3>3, <4>1, <4>2 DEF Community!EnterInvited
            <4> QED
                BY <2>2, <3>1, <4>3 DEF Community!Next
        <3>6. CASE invitation[i].status # "Unlimited"
            <4>1. i \in UniqueInvitations
                BY <3>1, <3>6 DEF UniqueInvitations
            <4>2. Worth(i) = "Pending"
                BY <1>1, <1>2, <3>6 DEF Worth, Kept
            <4>3. ~Kept(i)'
                BY <1>1, <2>3, <4>1 DEF Kept, OthersWait, JoinsApart
            <4>4. req[r].save \/ invitation[i].status = "Accepted"
                BY <1>1, <3>3, <3>6, <4>1 DEF Uses, UseOK, Invitation
            <4>5. Worth(i)' = "Accepted"
                BY <1>1, <1>2, <2>3, <3>6, <4>3, <4>4 DEF Worth, ToSave
            <4>6. Invites' = [Invites EXCEPT ![i].status = "Accepted"]
                BY <1>2, <3>1, <3>4, <4>5, OneSpent
            <4>7. Community!EnterInvited(i, u)
                BY <1>2, <1>4, <2>2, <3>3, <4>2, <4>6
                   DEF Community!EnterInvited, Community!Spent
            <4> QED
                BY <2>2, <3>1, <4>7 DEF Community!Next
        <3> QED
            BY <3>5, <3>6
    <2> QED
        BY <2>4, <2>5
<1> QED
    BY <1>3, <1>4 DEF InsertMember

\* The rest of the creation is not seen, and a failure at most wastes the invitation.
LEMMA CreationCommunity ==
    ASSUME Inv, Inv', Uses, JoinsApart, NEW r \in Requests,
           FindDefaultRole(r) \/ AttachRole(r) \/ FailCreation(r)
    PROVE  Community!Next \/ UNCHANGED <<server, members, Invites>>
<1>1. /\ TypeOK /\ TypeOK' /\ UNCHANGED <<server, members, invitation>>
      /\ req[r].pc # "idle" /\ req[r] \in Request
    BY DEF FindDefaultRole, AttachRole, FailCreation, rows, Inv, TypeOK
<1>2. CASE EndCreation(r)
    BY <1>1, <1>2, EndCommunity
<1>3. CASE /\ req[r].pc = "findDefaultRole"
           /\ \E o \in StoredRoles :
                req' = [req EXCEPT ![r].pc = "attachRole", ![r].role = o]
    <2>1. /\ OthersWait(r) /\ req'[r].pc = "attachRole"
          /\ req'[r].inv = req[r].inv /\ req'[r].save = req[r].save
        BY <1>1, <1>3 DEF TypeOK, Request, OthersWait
    <2> QED
        BY <1>1, <1>3, <2>1, WorthUntouched
<1> QED
    BY <1>2, <1>3 DEF FindDefaultRole, AttachRole, FailCreation

\* Seen from outside every step is one of Communities or none, although a join reads
\* the invitation, inserts the member and saves the invitation at three moments.
THEOREM ImplementsCommunity ==
    Spec /\ []JoinsApart /\ SavesSucceed => ImplementsCommunities
<1>1. Init => Community!Init
    BY DEF Init, Community!Init, Invites, StoredInvitations
<1>2. Inv /\ Inv' /\ Uses /\ JoinsApart /\ JoinsApart' /\ [Next]_vars
          /\ [\A r \in Requests : ~FailSave(r)]_vars
        => [Community!Next]_<<server, members, Invites>>
    <2> SUFFICES ASSUME Inv, Inv', Uses, JoinsApart, JoinsApart', [Next]_vars,
                        [\A r \in Requests : ~FailSave(r)]_vars
                 PROVE  Community!Next \/ UNCHANGED <<server, members, Invites>>
        OBVIOUS
    <2>1. CASE UNCHANGED vars
        <3>1. UNCHANGED <<server, members, invitation, req>>
            BY <2>1 DEF vars
        <3> QED
            BY <3>1, SameInvites DEF Worth, Kept, ToSave
    <2>2. CASE Next /\ \A r \in Requests : ~FailSave(r)
        BY <2>2, ManageCommunity, JoinCommunity, SaveCommunity, InsertCommunity,
           CreationCommunity DEF Next, Create
    <2> QED
        BY <2>1, <2>2
<1>3. Inv /\ [Next]_vars => Inv'
    BY StepInv
<1> QED
    BY <1>1, <1>2, <1>3, Invariant, AlwaysUses, PTL
       DEF Spec, SavesSucceed, ImplementsCommunities, Community!Spec

\* One join at a time and no failures: a unique invitation admits one user, and
\* nothing is seen of the moments in between.
THEOREM OneAtATime ==
    ASSUME \A r, q \in Requests : r = q, ~MayFail
    PROVE  Spec => []AdmitsOne /\ ImplementsCommunities
<1>1. JoinsApart
    BY DEF JoinsApart
<1>2. [Next]_vars => [\A r \in Requests : ~FailSave(r)]_vars
    BY DEF FailSave
<1> QED
    BY <1>1, <1>2, OneUserPerInvitation, ImplementsCommunity, PTL DEF Spec, SavesSucceed
=============================================================================
