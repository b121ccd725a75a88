---------------------------- MODULE AccessProofs ----------------------------
(***************************************************************************)
(* The invariants of Access, for any number of users, roles, masks, routes *)
(* and concurrent requests.                                                *)
(*                                                                         *)
(* The invariant says what a request that is being decided knows: what it  *)
(* read of the roles, the caller held at some time (it is in ever), and it *)
(* did not miss what the caller holds all along (what is steady is held    *)
(* now, and a role that gives it was read, or the default role is yet to   *)
(* be).  The other requests only add to ever and take away from steady.    *)
(***************************************************************************)
EXTENDS Access, TLAPS

\* What the reads made so far for r found, and what they cannot have missed.
Reading(r) ==
    /\ What(Given(r)) \subseteq ever[r]
    /\ steady[r] \subseteq Given(r)
    /\ req[r].pc \in {"roles", "default"} =>
          "member" \in ever[r] /\ (Default \in roles => req[r].user \in members)
    /\ req[r].pc = "default" =>
          /\ req[r].mask \subseteq ever[r]
          /\ \A g \in steady[r] : g[1] \in CustomRoles => g[2] \in req[r].mask
    /\ ~req[r].hook =>
          Gate(req[r].route) \subseteq ever[r] /\ "ADMINISTRATOR" \notin What(steady[r])

SlotOK(r) ==
    /\ req[r].pc = "idle" => req[r] = Idle
    /\ req[r].pc # "idle" => req[r].route \in Routes
    /\ req[r].pc \in {"present", "roles", "default"} => Reading(r)
    /\ req[r].pc = "granted" => Admits(req[r].route, req[r].own, ever[r])
    /\ req[r].pc = "refused" => ~ Admits(req[r].route, req[r].own, What(steady[r]))

\* A server that is gone has no members.
NoGhosts == Default \notin roles => members = {}

Inv == TypeOK /\ NoGhosts /\ \A r \in Requests : SlotOK(r)

-----------------------------------------------------------------------------
(* Constants and helpers.                                                  *)

\* The rules and the gates ask for permissions of the enum.
LEMMA RulesAsk ==
    /\ \A x \in Rules : x.needs \subseteq Permissions
    /\ \A route : Gate(route) \subseteq Permissions
    /\ \A route, own : \A needs \in Ways(route, own) : needs \subseteq Permissions
<1>1. \A x \in Rules : x.needs \subseteq Permissions
  <2>1. \A x \in ServerRules \cup RoleRules \cup ChannelRules : x.needs \subseteq Permissions
    BY DEF ServerRules, RoleRules, ChannelRules, Rule, Permissions
  <2>2. \A x \in InvitationRules \cup MemberRules : x.needs \subseteq Permissions
    BY DEF InvitationRules, MemberRules, Rule, Permissions
  <2>3. \A x \in MessageRules : x.needs \subseteq Permissions
    BY DEF MessageRules, Rule, Permissions
  <2> QED BY <2>1, <2>2, <2>3 DEF Rules
<1>2. \A route : Gate(route) \subseteq Permissions
  BY DEF Gate, Permissions
<1> QED BY <1>1, <1>2 DEF Ways

\* An idle slot is well typed and fine.
LEMMA IdleOK == Idle \in Request /\ Idle.pc = "idle"
BY DEF Idle, Request, Labels

\* What tables of the right types give is of the right type.
LEMMA GivesType ==
    ASSUME mask \in [Roles -> SUBSET Permissions], held \subseteq Users \X Roles
    PROVE  \A u : Gives(u) \subseteq Sources \X Gifts
<1> SUFFICES ASSUME NEW u PROVE Gives(u) \subseteq Sources \X Gifts
  OBVIOUS
<1>1. <<"server", "member">> \in Sources \X Gifts /\ <<"server", "ADMINISTRATOR">> \in Sources \X Gifts
  BY DEF Sources, Gifts, Permissions
<1>2. \A o \in RolesOf(u) \cup {Default} : {o} \X mask[o] \subseteq Sources \X Gifts
  BY DEF RolesOf, Sources, Gifts, Roles
<1> QED BY <1>1, <1>2 DEF Gives

\* So do the tables after a step.
LEMMA GivesTypeNext ==
    ASSUME mask' \in [Roles -> SUBSET Permissions], held' \subseteq Users \X Roles
    PROVE  \A u : Gives(u)' \subseteq Sources \X Gifts
<1> SUFFICES ASSUME NEW u PROVE Gives(u)' \subseteq Sources \X Gifts
  OBVIOUS
<1>1. <<"server", "member">> \in Sources \X Gifts /\ <<"server", "ADMINISTRATOR">> \in Sources \X Gifts
  BY DEF Sources, Gifts, Permissions
<1>2. \A o \in RolesOf(u)' \cup {Default} : {o} \X mask'[o] \subseteq Sources \X Gifts
  BY DEF RolesOf, Sources, Gifts, Roles
<1> QED BY <1>1, <1>2 DEF Gives

\* A member is given its membership, what its roles and the default role permit,
\* and the administration when it owns the server.
LEMMA MemberGets ==
    ASSUME NEW u \in members
    PROVE  /\ "member" \in What(Gives(u))
           /\ MasksOf(RolesOf(u)) \subseteq What(Gives(u))
           /\ mask[Default] \subseteq What(Gives(u))
           /\ u = Owner => "ADMINISTRATOR" \in What(Gives(u))
<1>1. <<"server", "member">> \in Gives(u) /\ (u = Owner => <<"server", "ADMINISTRATOR">> \in Gives(u))
  BY DEF Gives
<1>2. \A o \in RolesOf(u) \cup {Default} : \A p \in mask[o] : <<o, p>> \in Gives(u)
  BY DEF Gives
<1>3. \A a, b : <<a, b>> \in Gives(u) => b \in What(Gives(u))
  BY DEF What
<1> QED BY <1>1, <1>2, <1>3 DEF MasksOf

\* Where what is given comes from.
LEMMA GivenFrom ==
    ASSUME NEW u, NEW g \in Gives(u)
    PROVE  /\ u \in members
           /\ \/ g = <<"server", "member">>
              \/ g = <<"server", "ADMINISTRATOR">> /\ u = Owner
              \/ g[1] \in RolesOf(u) \cup {Default} /\ g[2] \in mask[g[1]]
BY DEF Gives

\* The histories keep their types.
LEMMA ObserveType ==
    ASSUME TypeOK, Observe,
           mask' \in [Roles -> SUBSET Permissions], held' \subseteq Users \X Roles
    PROVE  /\ ever' \in [Requests -> SUBSET Gifts]
           /\ steady' \in [Requests -> SUBSET (Sources \X Gifts)]
<1>1. \A r \in Requests : Given(r)' \subseteq Sources \X Gifts
  BY GivesTypeNext DEF Given
<1>2. \A r \in Requests : What(Given(r)') \subseteq Gifts
  BY <1>1 DEF What
<1> QED BY <1>1, <1>2 DEF Observe, TypeOK

-----------------------------------------------------------------------------
(* Slots that a step does not write, and slots that it frees.              *)

\* A slot that a step leaves alone stays fine: its histories only weaken what is
\* claimed of a reading.
LEMMA OtherKept ==
    ASSUME Inv, NEW r \in Requests, Observe, req'[r] = req[r],
           \A u \in members : u \in members' \/ Default \notin roles',
           Default \in roles' => Default \in roles
    PROVE  SlotOK(r)'
<1> DEFINE q == req[r]
<1>0. SlotOK(r) /\ r \in Requests
  BY DEF Inv
<1>1. CASE q.pc = "idle"
  BY <1>0, <1>1 DEF SlotOK
<1>2. CASE q.pc \in {"granted", "refused"}
  <2>1. req'[r] # Idle /\ Decided(r)
    BY <1>2 DEF Idle, Decided
  <2>2. ever'[r] = ever[r] /\ steady'[r] = steady[r]
    BY <2>1 DEF Observe
  <2> QED BY <1>0, <1>2, <2>2 DEF SlotOK
<1>3. CASE q.pc \in {"present", "roles", "default"}
  <2>1. req[r] # Idle /\ req'[r] # Idle /\ ~Decided(r)
    BY <1>3 DEF Idle, Decided
  <2>2. ever'[r] = ever[r] \cup What(Given(r)') /\ steady'[r] = steady[r] \cap Given(r)'
    BY <2>1 DEF Observe
  <2>3. Reading(r)
    BY <1>0, <1>3 DEF SlotOK
  <2>4. What(steady'[r]) \subseteq What(steady[r])
    BY <2>2 DEF What
  <2>5. Reading(r)'
    <3>1. What(Given(r)') \subseteq ever'[r] /\ steady'[r] \subseteq Given(r)'
      BY <2>2
    <3>2. req[r].pc \in {"roles", "default"} =>
             "member" \in ever'[r] /\ (Default \in roles' => req[r].user \in members')
      BY <2>2, <2>3 DEF Reading
    <3>3. req[r].pc = "default" =>
             /\ req[r].mask \subseteq ever'[r]
             /\ \A g \in steady'[r] : g[1] \in CustomRoles => g[2] \in req[r].mask
      BY <2>2, <2>3 DEF Reading
    <3>4. ~req[r].hook =>
             Gate(req[r].route) \subseteq ever'[r] /\ "ADMINISTRATOR" \notin What(steady'[r])
      BY <2>2, <2>3, <2>4 DEF Reading
    <3> QED BY <3>1, <3>2, <3>3, <3>4 DEF Reading
  <2> QED BY <1>0, <1>3, <2>5 DEF SlotOK
<1>4. q.pc \in Labels
  BY DEF Inv, TypeOK, Request
<1> QED BY <1>1, <1>2, <1>3, <1>4 DEF Labels

\* Answering frees the slot, if it is one of this server's requests.
LEMMA FinishKeeps ==
    ASSUME Inv, NEW r \in Requests \cup {NULL}, Observe,
           (r \in Requests /\ Finish(r)) \/ UNCHANGED req,
           \A u \in members : u \in members' \/ Default \notin roles',
           Default \in roles' => Default \in roles
    PROVE  req' \in [Requests -> Request] /\ \A x \in Requests : SlotOK(x)'
<1>1. /\ req' \in [Requests -> Request]
      /\ \A x \in Requests : req'[x] = req[x] \/ req'[x] = Idle
  BY IdleOK DEF Inv, TypeOK, Finish
<1>2. ASSUME NEW x \in Requests, req'[x] = Idle PROVE SlotOK(x)'
  BY <1>2, IdleOK DEF SlotOK
<1>3. ASSUME NEW x \in Requests, req'[x] = req[x] PROVE SlotOK(x)'
  BY <1>3, OtherKept
<1> QED BY <1>1, <1>2, <1>3

\* A step of r's decision that leaves the tables alone.
LEMMA Move ==
    ASSUME Inv, NEW r \in Requests, NEW q \in Request,
           req' = [req EXCEPT ![r] = q], UNCHANGED rows, Observe, SlotOK(r)'
    PROVE  Inv'
<1>1. req' \in [Requests -> Request] /\ \A x \in Requests : x # r => req'[x] = req[x]
  BY DEF Inv, TypeOK
<1>2. \A x \in Requests : x # r => SlotOK(x)'
  BY <1>1, OtherKept DEF rows
<1>3. TypeOK'
  BY <1>1, ObserveType DEF Inv, TypeOK, rows
<1> QED BY <1>1, <1>2, <1>3 DEF Inv, NoGhosts, rows

-----------------------------------------------------------------------------
(* The steps of a decision.                                                *)

\* A request starts with what its caller is and holds then.
LEMMA AskKeeps ==
    ASSUME Inv, NEW r \in Requests, NEW u \in Users, NEW route \in Routes,
           NEW own \in BOOLEAN, Ask(r, u, route, own)
    PROVE  Inv'
<1> DEFINE q == [pc |-> "present", user |-> u, route |-> route,
                 own |-> own, hook |-> TRUE, mask |-> {}]
<1>1. q \in Request /\ q # Idle
  BY DEF Request, Labels, Idle
<1>2. req' = [req EXCEPT ![r] = q] /\ req'[r] = q /\ req[r] = Idle /\ UNCHANGED rows /\ Observe
  BY DEF Ask, Inv, TypeOK
<1>3. ~Decided(r)
  BY <1>2, IdleOK DEF Decided
<1>4. ever'[r] = ever[r] \cup What(Given(r)') /\ steady'[r] = Given(r)'
  BY <1>1, <1>2, <1>3 DEF Observe
<1>5. Reading(r)'
  BY <1>2, <1>4 DEF Reading
<1>6. SlotOK(r)'
  BY <1>2, <1>5 DEF SlotOK
<1> QED BY <1>1, <1>2, <1>6, Move

\* A step of the decision of r that leaves r reading, or decides: what the caller
\* is given does not change.
LEMMA SameGifts ==
    ASSUME Inv, NEW r \in Requests, req[r].pc \in {"present", "roles", "default"},
           UNCHANGED rows, req'[r].user = req[r].user, req'[r].pc # "idle", Observe
    PROVE  /\ Given(r)' = Given(r)
           /\ ever'[r] = ever[r] /\ steady'[r] = steady[r]
           /\ Reading(r)
<1>1. Reading(r)
  BY DEF Inv, SlotOK
<1>2. Given(r)' = Given(r)
  BY DEF Given, Gives, RolesOf, rows
<1>3. req[r] # Idle /\ req'[r] # Idle /\ ~Decided(r)
  BY DEF Idle, Decided
<1>4. ever'[r] = ever[r] \cup What(Given(r)') /\ steady'[r] = steady[r] \cap Given(r)'
  BY <1>3 DEF Observe
<1> QED BY <1>1, <1>2, <1>4 DEF Reading

\* Nobody is given anything who is not a member.
LEMMA StrangerRefused ==
    ASSUME Inv, NEW r \in Requests, Reading(r), req[r].user \notin members
    PROVE  "member" \notin What(steady[r])
BY DEF Reading, Given, Gives, What

LEMMA ReadMembersKeeps ==
    ASSUME Inv, NEW r \in Requests, ReadMembers(r)
    PROVE  Inv'
<1> DEFINE l == IF req[r].user \in members THEN "roles" ELSE "refused"
           q == [req[r] EXCEPT !.pc = l]
<1>1. /\ req[r].pc = "present" /\ UNCHANGED rows /\ Observe
      /\ req' = [req EXCEPT ![r] = q]
  BY DEF ReadMembers, Goto
<1>2. q \in Request /\ req'[r] = q /\ req[r] \in Request
  BY <1>1 DEF Inv, TypeOK, Request, Labels
<1>3. q.pc = l /\ q.user = req[r].user /\ q.route = req[r].route /\ q.own = req[r].own
      /\ q.hook = req[r].hook /\ q.mask = req[r].mask
  BY <1>2 DEF Request
<1>4. Given(r)' = Given(r) /\ ever'[r] = ever[r] /\ steady'[r] = steady[r] /\ Reading(r)
  BY <1>1, <1>2, <1>3, SameGifts
<1>5. SlotOK(r)'
  <2>1. q.route \in Routes
    BY <1>1, <1>3 DEF Inv, SlotOK
  <2>2. CASE req[r].user \in members
    <3>1. "member" \in What(Given(r))
      BY <2>2, MemberGets DEF Given
    <3>2. Reading(r)'
      BY <1>1, <1>2, <1>3, <1>4, <2>2, <3>1 DEF Reading, rows
    <3> QED BY <1>2, <1>3, <2>1, <2>2, <3>2 DEF SlotOK
  <2>3. CASE req[r].user \notin members
    BY <1>2, <1>3, <1>4, <2>1, <2>3, StrangerRefused DEF SlotOK, Admits
  <2> QED BY <2>2, <2>3
<1> QED BY <1>1, <1>2, <1>5, Move

LEMMA ReadRolesKeeps ==
    ASSUME Inv, NEW r \in Requests, ReadRoles(r)
    PROVE  Inv'
<1> DEFINE u == req[r].user
<1>1. req[r].pc = "roles" /\ UNCHANGED rows /\ Observe /\ req[r] \in Request /\ req[r].route \in Routes
  BY DEF ReadRoles, Inv, TypeOK, SlotOK
<1>2. CASE u \in members
  <2> DEFINE q == [req[r] EXCEPT !.pc = "default", !.mask = MasksOf(RolesOf(u))]
  <2>1. req' = [req EXCEPT ![r] = q] /\ req'[r] = q
    BY <1>2 DEF ReadRoles, Inv, TypeOK
  <2>2. q.pc = "default" /\ q.user = u /\ q.route = req[r].route /\ q.own = req[r].own
        /\ q.hook = req[r].hook /\ q.mask = MasksOf(RolesOf(u))
    BY <1>1 DEF Request
  <2>3. q \in Request
    <3>1. MasksOf(RolesOf(u)) \subseteq Permissions
      BY DEF MasksOf, RolesOf, Inv, TypeOK
    <3> QED BY <1>1, <3>1 DEF Request, Labels
  <2>4. Given(r)' = Given(r) /\ ever'[r] = ever[r] /\ steady'[r] = steady[r] /\ Reading(r)
    BY <1>1, <2>1, <2>2, SameGifts
  <2>5. MasksOf(RolesOf(u)) \subseteq ever[r]
    BY <1>2, <2>4, MemberGets DEF Reading, Given
  <2>6. \A g \in steady[r] : g[1] \in CustomRoles => g[2] \in MasksOf(RolesOf(u))
    <3> SUFFICES ASSUME NEW g \in steady[r], g[1] \in CustomRoles
                 PROVE  g[2] \in MasksOf(RolesOf(u))
      OBVIOUS
    <3>1. g \in Gives(u)
      BY <2>4 DEF Reading, Given
    <3>2. g[1] # "server" /\ g[1] # Default
      BY AccessAssumption DEF Roles
    <3>3. g[1] \in RolesOf(u) /\ g[2] \in mask[g[1]]
      BY <3>1, <3>2, GivenFrom
    <3> QED BY <3>3 DEF MasksOf
  <2>7. Reading(r)'
    BY <1>1, <1>2, <2>1, <2>2, <2>4, <2>5, <2>6 DEF Reading, rows
  <2>8. SlotOK(r)'
    BY <1>1, <2>1, <2>2, <2>7 DEF SlotOK
  <2> QED BY <1>1, <2>1, <2>3, <2>8, Move
<1>3. CASE u \notin members
  <2> DEFINE q == [req[r] EXCEPT !.pc = "refused"]
  <2>1. req' = [req EXCEPT ![r] = q] /\ req'[r] = q
    BY <1>3 DEF ReadRoles, Goto, Inv, TypeOK
  <2>2. q.pc = "refused" /\ q.user = u /\ q.route = req[r].route /\ q.own = req[r].own /\ q \in Request
    BY <1>1 DEF Request, Labels
  <2>3. Given(r)' = Given(r) /\ ever'[r] = ever[r] /\ steady'[r] = steady[r] /\ Reading(r)
    BY <1>1, <2>1, <2>2, SameGifts
  <2>4. SlotOK(r)'
    BY <1>1, <1>3, <2>1, <2>2, <2>3, StrangerRefused DEF SlotOK, Admits
  <2> QED BY <1>1, <2>1, <2>2, <2>4, Move
<1> QED BY <1>2, <1>3

\* What the second read completes: all that is steady, and nothing never held.
LEMMA ReadsAll ==
    ASSUME Inv, NEW r \in Requests, Reading(r), req[r].pc = "default", Alive,
           NEW read, read = req[r].mask \cup mask[Default] \cup
                            (IF req[r].user = Owner THEN {"ADMINISTRATOR"} ELSE {})
    PROVE  /\ "member" \in ever[r]
           /\ read \subseteq ever[r]
           /\ What(steady[r]) \cap Permissions \subseteq read
<1>1. req[r].user \in members /\ "member" \in ever[r] /\ req[r].mask \subseteq ever[r]
  BY DEF Reading, Alive
<1>2. mask[Default] \subseteq ever[r] /\ (req[r].user = Owner => "ADMINISTRATOR" \in ever[r])
  BY <1>1, MemberGets DEF Reading, Given
<1>3. \A g \in steady[r] : g[2] \in Permissions => g[2] \in read
  <2> SUFFICES ASSUME NEW g \in steady[r], g[2] \in Permissions PROVE g[2] \in read
    OBVIOUS
  <2>1. g \in Gives(req[r].user)
    BY DEF Reading, Given
  <2>2. CASE g = <<"server", "member">>
    BY <2>2 DEF Permissions
  <2>3. CASE g = <<"server", "ADMINISTRATOR">> /\ req[r].user = Owner
    BY <2>3
  <2>4. CASE g[1] \in RolesOf(req[r].user) \cup {Default} /\ g[2] \in mask[g[1]]
    <3>1. g[1] = Default \/ g[1] \in CustomRoles
      BY <2>4 DEF RolesOf, Roles
    <3> QED BY <2>4, <3>1 DEF Reading
  <2> QED BY <2>1, <2>2, <2>3, <2>4, GivenFrom
<1> QED BY <1>1, <1>2, <1>3 DEF What

LEMMA ReadDefaultKeeps ==
    ASSUME Inv, NEW r \in Requests, ReadDefault(r)
    PROVE  Inv'
<1> DEFINE u == req[r].user
           route == req[r].route
           own == req[r].own
<1>1. /\ req[r].pc = "default" /\ UNCHANGED rows /\ Observe
      /\ req[r] \in Request /\ route \in Routes
  BY DEF ReadDefault, Inv, TypeOK, SlotOK
<1>2. CASE ~Alive
  <2> DEFINE q == [req[r] EXCEPT !.pc = "refused"]
  <2>1. req' = [req EXCEPT ![r] = q] /\ req'[r] = q
    BY <1>2 DEF ReadDefault, Goto, Inv, TypeOK
  <2>2. q.pc = "refused" /\ q.user = u /\ q.route = route /\ q.own = own /\ q \in Request
    BY <1>1 DEF Request, Labels
  <2>3. Given(r)' = Given(r) /\ ever'[r] = ever[r] /\ steady'[r] = steady[r] /\ Reading(r)
    BY <1>1, <2>1, <2>2, SameGifts
  <2>4. u \notin members
    BY <1>2 DEF Inv, NoGhosts, Alive
  <2>5. SlotOK(r)'
    BY <1>1, <2>1, <2>2, <2>3, <2>4, StrangerRefused DEF SlotOK, Admits
  <2> QED BY <1>1, <2>1, <2>2, <2>5, Move
<1>3. CASE Alive
  <2> DEFINE read == req[r].mask \cup mask[Default] \cup
                     (IF u = Owner THEN {"ADMINISTRATOR"} ELSE {})
             ways == Ways(route, own)
             l == IF req[r].hook /\ "ADMINISTRATOR" \in read THEN "granted"
                  ELSE IF req[r].hook /\ ~ Gate(route) \subseteq read THEN "refused"
                  ELSE IF {} \in ways THEN "granted"
                  ELSE IF req[r].hook THEN "roles"
                  ELSE IF \E needs \in ways : needs \subseteq read THEN "granted"
                  ELSE "refused"
             q == [req[r] EXCEPT !.pc = l, !.hook = FALSE, !.mask = {}]
  <2>1. req' = [req EXCEPT ![r] = q] /\ req'[r] = q
    BY <1>3 DEF ReadDefault, Decide, Inv, TypeOK
  <2>2. q.pc = l /\ q.user = u /\ q.route = route /\ q.own = own /\ q.hook = FALSE /\ q.mask = {}
    BY <1>1 DEF Request
  <2>3. l \in {"granted", "refused", "roles"} /\ q \in Request
    BY <1>1 DEF Request, Labels
  <2>4. Given(r)' = Given(r) /\ ever'[r] = ever[r] /\ steady'[r] = steady[r] /\ Reading(r)
    BY <1>1, <2>1, <2>2, <2>3, SameGifts
  <2>5. "member" \in ever[r] /\ read \subseteq ever[r] /\ What(steady[r]) \cap Permissions \subseteq read
    BY <1>1, <1>3, <2>4, ReadsAll
  <2> HIDE DEF q, read
  <2>6. Gate(route) \subseteq Permissions /\ \A needs \in ways : needs \subseteq Permissions
    BY RulesAsk
  <2>7. "ADMINISTRATOR" \in Permissions
    BY DEF Permissions
  <2>8. ~req[r].hook => Gate(route) \subseteq ever[r] /\ "ADMINISTRATOR" \notin What(steady[r])
    BY <2>4 DEF Reading
  <2>9. l = "granted" => Admits(route, own, ever[r])
    BY <2>5, <2>8 DEF Admits
  <2>10. l = "refused" => ~ Admits(route, own, What(steady[r]))
    <3>1. l = "refused" => "ADMINISTRATOR" \notin What(steady[r])
      BY <2>5, <2>7, <2>8
    <3>2. l = "refused" => \/ ~ Gate(route) \subseteq read
                           \/ \A needs \in ways : ~ needs \subseteq read
      OBVIOUS
    <3>3. \A X \in SUBSET Permissions : X \subseteq What(steady[r]) => X \subseteq read
      BY <2>5
    <3> QED BY <2>6, <3>1, <3>2, <3>3 DEF Admits
  <2>11. l = "roles" => Reading(r)'
    <3> SUFFICES ASSUME l = "roles" PROVE Reading(r)'
      OBVIOUS
    <3>1. Gate(route) \subseteq read /\ "ADMINISTRATOR" \notin read
      OBVIOUS
    <3>2. Gate(route) \subseteq ever[r] /\ "ADMINISTRATOR" \notin What(steady[r])
      BY <2>5, <2>7, <3>1
    <3> HIDE DEF l
    <3>3. req'[r].pc = "roles" /\ req'[r].user = u /\ req'[r].route = route
      BY <2>1, <2>2
    <3>4. Default \in roles => u \in members
      BY <1>1, <2>4 DEF Reading
    <3>5. What(Given(r)') \subseteq ever'[r] /\ steady'[r] \subseteq Given(r)'
      BY <2>4 DEF Reading
    <3> QED BY <1>1, <2>4, <2>5, <3>2, <3>3, <3>4, <3>5 DEF Reading, rows
  <2> HIDE DEF l
  <2>12. SlotOK(r)'
    BY <1>1, <2>1, <2>2, <2>3, <2>4, <2>9, <2>10, <2>11 DEF SlotOK
  <2> QED BY <1>1, <2>1, <2>3, <2>12, Move
<1> QED BY <1>2, <1>3

-----------------------------------------------------------------------------
(* The steps that change the tables.                                       *)

\* A step that keeps the members, and frees the slot of its request.
LEMMA WriteKeeps ==
    ASSUME Inv, NEW r \in Requests \cup {NULL}, (r \in Requests /\ Finish(r)) \/ UNCHANGED req,
           Observe, members' = members,
           roles' \subseteq Roles, Default \in roles <=> Default \in roles',
           mask' \in [Roles -> SUBSET Permissions], held' \subseteq Users \X Roles
    PROVE  Inv'
<1>1. req' \in [Requests -> Request] /\ \A x \in Requests : SlotOK(x)'
  BY FinishKeeps
<1>2. TypeOK'
  BY <1>1, ObserveType DEF Inv, TypeOK
<1> QED BY <1>1, <1>2 DEF Inv, NoGhosts

LEMMA RolesKeep ==
    ASSUME Inv, NEW r \in Requests \cup {NULL}, ChangeRoles(r)
    PROVE  Inv'
<1> USE DEF Inv, TypeOK
<1>1. ASSUME Admitted(r) PROVE (r \in Requests /\ Finish(r)) \/ UNCHANGED req
  BY <1>1, AccessAssumption DEF Admitted
<1>2. ASSUME NEW o \in Roles, NEW m \in Masks, UpdateRole(r, o, m) PROVE Inv'
  BY <1>1, <1>2, WriteKeeps DEF UpdateRole, isValidMask
<1>3. ASSUME NEW o \in Roles, DestroyRole(r, o) PROVE Inv'
  BY <1>1, <1>3, WriteKeeps DEF DestroyRole
<1>4. ASSUME NEW o \in Roles, NEW users \in SUBSET Users, AssignRole(r, o, users) PROVE Inv'
  BY <1>1, <1>4, WriteKeeps DEF AssignRole
<1>5. ASSUME NEW o \in Roles, NEW u \in Users, UnassignRole(r, o, u) PROVE Inv'
  BY <1>1, <1>5, WriteKeeps DEF UnassignRole
<1> QED BY <1>2, <1>3, <1>4, <1>5 DEF ChangeRoles

LEMMA CreateKeeps ==
    ASSUME Inv, NEW r \in Requests, NEW o \in CustomRoles, NEW m \in Masks, CreateRole(r, o, m)
    PROVE  Inv'
<1>1. Default \notin {o} /\ o \in Roles
  BY AccessAssumption DEF Roles
<1> QED BY <1>1, WriteKeeps DEF CreateRole, isValidMask, Inv, TypeOK

LEMMA AnswerKeeps ==
    ASSUME Inv, NEW r \in Requests, Answer(r)
    PROVE  Inv'
BY WriteKeeps DEF Answer, rows, Inv, TypeOK

\* Joining, and the deletion of the server, leave the slots alone.
LEMMA MembersKeep ==
    ASSUME Inv, (\E u \in Users : Join(u)) \/ DeleteServer
    PROVE  Inv'
<1>1. /\ req' = req /\ Observe
      /\ \A u \in members : u \in members' \/ Default \notin roles'
      /\ Default \in roles' => Default \in roles
      /\ Default \notin roles' => members' = {}
      /\ members' \subseteq Users /\ roles' \subseteq Roles
      /\ mask' \in [Roles -> SUBSET Permissions] /\ held' \subseteq Users \X Roles
  BY DEF Join, DeleteServer, Alive, Inv, TypeOK, Roles
<1>2. \A x \in Requests : SlotOK(x)'
  BY <1>1, OtherKept
<1>3. TypeOK'
  BY <1>1, ObserveType DEF Inv, TypeOK
<1> QED BY <1>1, <1>2, <1>3 DEF Inv, NoGhosts

-----------------------------------------------------------------------------
\* The invariant holds when the server has just been created...
LEMMA InitInv == Init => Inv
<1> SUFFICES ASSUME Init PROVE Inv
  OBVIOUS
<1>1. TypeOK
  BY AccessAssumption, IdleOK DEF Init, TypeOK, Roles, Permissions, Sources, Gifts
<1>2. NoGhosts
  BY DEF Init, NoGhosts
<1>3. \A r \in Requests : SlotOK(r)
  BY IdleOK DEF Init, SlotOK
<1> QED BY <1>1, <1>2, <1>3 DEF Inv

\* ... and every step preserves it.
LEMMA StepInv == Inv /\ [Next]_vars => Inv'
<1> SUFFICES ASSUME Inv, [Next]_vars PROVE Inv'
  OBVIOUS
<1>1. ASSUME NEW r \in Requests, Evaluate(r) PROVE Inv'
  BY <1>1, AskKeeps, ReadMembersKeeps, ReadRolesKeeps, ReadDefaultKeeps, CreateKeeps,
     AnswerKeeps DEF Evaluate
<1>2. CASE UNCHANGED vars
  <2>1. TypeOK' /\ NoGhosts'
    BY <1>2 DEF Inv, TypeOK, NoGhosts, vars, rows
  <2>2. ASSUME NEW r \in Requests PROVE SlotOK(r)'
    <3>1. SlotOK(r) /\ Given(r)' = Given(r)
      BY <1>2 DEF Inv, Given, Gives, RolesOf, vars, rows
    <3>2. Reading(r) => Reading(r)'
      BY <1>2, <3>1 DEF Reading, vars, rows
    <3> QED BY <1>2, <3>1, <3>2 DEF SlotOK, vars
  <2> QED BY <2>1, <2>2 DEF Inv
<1> QED BY <1>1, <1>2, RolesKeep, MembersKeep DEF Next

\* The tables, the requests and the histories keep their types: a role never has
\* a permission that is not in the enum.
THEOREM TypeCorrect == Spec => []TypeOK
<1>1. Spec => []Inv
  BY InitInv, StepInv, PTL DEF Spec
<1>2. Inv => TypeOK
  BY DEF Inv
<1> QED BY <1>1, <1>2, PTL

\* A policy admits only those who, at some time since the request was asked, were
\* members and held what the route needs.
THEOREM GrantsSound == Spec => []GrantsOnlyHeld
<1>1. Spec => []Inv
  BY InitInv, StepInv, PTL DEF Spec
<1>2. Inv => GrantsOnlyHeld
  BY DEF Inv, SlotOK, GrantsOnlyHeld
<1> QED BY <1>1, <1>2, PTL

\* A policy refuses nobody who had what the route needs all along, by a role that
\* lasted.
THEOREM RefusalsSound == Spec => []RefusesOnlyLacking
<1>1. Spec => []Inv
  BY InitInv, StepInv, PTL DEF Spec
<1>2. Inv => RefusesOnlyLacking
  BY DEF Inv, SlotOK, RefusesOnlyLacking
<1> QED BY <1>1, <1>2, PTL
=============================================================================
