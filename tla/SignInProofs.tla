----------------------------- MODULE SignInProofs -----------------------------
(***************************************************************************)
(* The invariants of SignIn, for any number of users, codes, passkeys and  *)
(* concurrent requests, whatever the lifetime of an entry, whenever keys   *)
(* expire and whether or not calls fail; and, at the end, those of         *)
(* Credentials, which is instantiated: its names are those of SignIn.      *)
(*                                                                         *)
(* The inductive invariant has a part for each of the three things that    *)
(* requests share.  UsersOK: a user found under a code has validated it.   *)
(* KeysOK: a passkey that was drawn and is not set yet is known to nobody  *)
(* (a client may have guessed it: it is refused), and one that is about to *)
(* sign somebody in is no longer there.  ListsOK: an entry is as a listing *)
(* read it, unless it is gone or was renewed.                              *)
(*                                                                         *)
(* What a browser is told needs a second one, on top of the first: on a    *)
(* code where nothing interfered at most one request is at work, and the   *)
(* label where it is tells how far the keys are from what was announced.   *)
(* The refinement of Codes needs a third: what happens to such a code      *)
(* happens for the first time.                                             *)
(***************************************************************************)
EXTENDS SignIn, TLAPS

\* A passkey was drawn for the code, and is not set yet.
Drawn(q) == q.pc \in {"setValidated", "setUser", "setPassKey"}
Retrieving(q) ==
    q.pc \in {"readPassKey", "readUser", "delUser", "delState", "delPassKey", "signIn"}

\* The locals that are set at each label.
SlotOK(r) ==
    LET q == req[r]
    IN  /\ q.pc \in {"idle", "drop"} => q.on = NULL /\ q.key = NULL
        /\ q.pc \notin {"idle", "drop"} => q.on \in Tokens
        /\ Drawn(q) \/ q.pc = "announce" => q.user \in Users
        /\ Drawn(q) \/ q.pc = "announce" \/ Retrieving(q) => q.key \in PassKeys
        /\ q.pc = "signIn" => q.user \in Users
        /\ q.pc = "drop" <=> q.listed # NULL
        /\ q.pc = "idle" => q = Idle

\* Whoever it works for has validated the code.
Entitled(q) ==
    q.pc \in {"setUser", "setPassKey", "announce", "delUser", "delState", "delPassKey", "signIn"}

UsersOK ==
    /\ \A t \in Tokens : user[t] # NULL => <<t, user[t]>> \in validated
    /\ \A r \in Requests :
          Entitled(req[r]) /\ req[r].user # NULL => <<req[r].on, req[r].user>> \in validated

\* Nobody but a client that guesses has the passkey that r drew.
Secret(r) ==
    /\ \A t \in Tokens : passkey[t] # req[r].key /\ <<t, req[r].key>> \notin spent
    /\ \A s \in Requests : s # r /\ req[s].key = req[r].key => req[s].pc = "readPassKey"

KeysOK ==
    /\ SpentIsGone
    /\ \A r \in Requests : req[r].pc = "signIn" => passkey[req[r].on] # req[r].key
    /\ \A r \in Requests : Drawn(req[r]) => Secret(r)

ListsOK ==
    \A r \in Requests : req[r].pc = "drop" =>
        \A u \in Users : \/ req[r].listed[u] = NULL
                         \/ online[u] \in {NULL, req[r].listed[u]}
                         \/ u \in renewed[r]

Inv ==
    /\ TypeOK
    /\ \A r \in Requests : SlotOK(r)
    /\ UsersOK /\ KeysOK /\ ListsOK

-----------------------------------------------------------------------------
(* Helpers.                                                                *)

LEMMA NullApart ==
    /\ NULL \notin Users /\ NULL \notin Tokens /\ NULL \notin PassKeys
    /\ NULL \notin Nat /\ NULL \notin States /\ NULL \notin Grant
    /\ NULL \notin [Users -> Remaining \cup {NULL}]
BY SignInAssumption

LEMMA IdleOK ==
    /\ Idle \in Request /\ Idle.pc = "idle" /\ Idle.on = NULL /\ Idle.user = NULL
    /\ Idle.key = NULL /\ Idle.listed = NULL
BY DEF Idle, Request, Labels

\* What a step of r does to the requests.
LEMMA Slots ==
    ASSUME TypeOK, NEW r \in Requests, NEW q \in Request, req' = [req EXCEPT ![r] = q]
    PROVE  /\ req' \in [Requests -> Request] /\ req'[r] = q
           /\ \A s \in Requests : s # r => req'[s] = req[s]
BY DEF TypeOK

\* A request goes on to another label with the same locals.
LEMMA Continues ==
    ASSUME TypeOK, NEW r \in Requests, NEW l \in Labels, Goto(r, l)
    PROVE  /\ req' \in [Requests -> Request]
           /\ \A s \in Requests : s # r => req'[s] = req[s]
           /\ req'[r].pc = l /\ req'[r].on = req[r].on /\ req'[r].user = req[r].user
           /\ req'[r].key = req[r].key /\ req'[r].listed = req[r].listed
<1>1. req[r] \in Request
  BY DEF TypeOK
<1> QED BY <1>1 DEF TypeOK, Goto, Request

LEMMA Ends ==
    ASSUME TypeOK, NEW r \in Requests, Finish(r)
    PROVE  /\ req' \in [Requests -> Request] /\ req'[r] = Idle
           /\ \A s \in Requests : s # r => req'[s] = req[s]
BY IdleOK DEF TypeOK, Finish

\* The slots stay fine when that of r does.
LEMMA SlotsKept ==
    ASSUME \A s \in Requests : SlotOK(s), NEW r \in Requests, SlotOK(r)',
           \A s \in Requests : s # r => req'[s] = req[s]
    PROVE  \A s \in Requests : SlotOK(s)'
BY DEF SlotOK

\* A slot that is freed is fine.
LEMMA FreeOK ==
    ASSUME NEW r \in Requests, req'[r] = Idle
    PROVE  SlotOK(r)'
BY IdleOK, NullApart DEF SlotOK, Drawn, Retrieving

\* A step of r that stores no user and forgets no validation keeps UsersOK, when
\* what r knows of a user is validated.
LEMMA UsersKept ==
    ASSUME UsersOK, NEW r \in Requests,
           \A s \in Requests : s # r => req'[s] = req[s],
           validated \subseteq validated',
           \A t \in Tokens : user'[t] \in {user[t], NULL} \/ <<t, user'[t]>> \in validated',
           Entitled(req'[r]) /\ req'[r].user # NULL
             => <<req'[r].on, req'[r].user>> \in validated'
    PROVE  UsersOK'
BY DEF UsersOK

\* A step of r that sets no passkey and spends none keeps KeysOK, when r keeps its
\* passkey, or gives it up.
LEMMA KeysKept ==
    ASSUME Inv, NEW r \in Requests,
           \A s \in Requests : s # r => req'[s] = req[s],
           spent' \subseteq spent,
           \A t \in Tokens : passkey'[t] \in {passkey[t], NULL},
           req'[r].key \in {req[r].key, NULL},
           req'[r].key = req[r].key /\ req'[r].key # NULL =>
               /\ Drawn(req'[r]) => Drawn(req[r])
               /\ req'[r].pc # "readPassKey" =>
                     req[r].pc # "readPassKey" \/ passkey[req[r].on] = req[r].key,
           Drawn(req'[r]) \/ req'[r].pc = "signIn" => req'[r].key \in PassKeys,
           req'[r].pc = "signIn" => req'[r].on \in Tokens /\ passkey'[req'[r].on] # req'[r].key
    PROVE  KeysOK'
<1>1. SpentIsGone'
  <2> SUFFICES ASSUME NEW x \in spent PROVE passkey'[x[1]] # x[2]
    BY DEF SpentIsGone
  <2>1. x[1] \in Tokens /\ x[2] \in PassKeys
    BY DEF Inv, TypeOK
  <2> QED BY <2>1, NullApart DEF Inv, KeysOK, SpentIsGone
<1>2. ASSUME NEW s \in Requests, req'[s].pc = "signIn" PROVE passkey'[req'[s].on] # req'[s].key
  <2>1. CASE s = r
    BY <1>2, <2>1
  <2>2. CASE s # r
    <3>1. req[s].on \in Tokens /\ req[s].key \in PassKeys
      BY <1>2, <2>2 DEF Inv, SlotOK, Retrieving
    <3> QED BY <1>2, <2>2, <3>1, NullApart DEF Inv, KeysOK
  <2> QED BY <2>1, <2>2
<1>3. ASSUME NEW s \in Requests, Drawn(req'[s]) PROVE Secret(s)'
  <2>1. Drawn(req[s]) /\ req'[s].key = req[s].key /\ req[s].key \in PassKeys
    <3>1. CASE s = r
      BY <1>3, <3>1, NullApart
    <3>2. CASE s # r
      BY <1>3, <3>2 DEF Inv, SlotOK
    <3> QED BY <3>1, <3>2
  <2>2. Secret(s)
    BY <2>1 DEF Inv, KeysOK
  <2>3. ASSUME NEW t \in Tokens PROVE passkey'[t] # req'[s].key /\ <<t, req'[s].key>> \notin spent'
    BY <2>1, <2>2, NullApart DEF Secret
  <2>4. ASSUME NEW x \in Requests, x # s, req'[x].key = req'[s].key PROVE req'[x].pc = "readPassKey"
    <3>1. CASE x # r
      BY <2>1, <2>2, <2>4, <3>1 DEF Secret
    <3>2. CASE x = r
      <4>1. req'[r].key = req[r].key /\ req[r].pc = "readPassKey"
        BY <2>1, <2>2, <2>4, <3>2, NullApart DEF Secret
      <4>2. passkey[req[r].on] # req[r].key
        <5>1. req[r].on \in Tokens
          BY <4>1 DEF Inv, SlotOK
        <5> QED BY <5>1, <2>1, <2>2, <2>4, <3>2, <4>1 DEF Secret
      <4> QED BY <2>1, <2>4, <3>2, <4>1, <4>2, NullApart
    <3> QED BY <3>1, <3>2
  <2> QED BY <2>3, <2>4 DEF Secret
<1> QED BY <1>1, <1>2, <1>3 DEF KeysOK

\* A step of r that brings nobody online keeps ListsOK, when r lists nothing.
LEMMA ListsKept ==
    ASSUME ListsOK, NEW r \in Requests, req'[r].pc # "drop",
           \A s \in Requests : s # r => req'[s] = req[s] /\ renewed'[s] = renewed[s],
           \A u \in Users : online'[u] \in {NULL, online[u]}
    PROVE  ListsOK'
BY DEF ListsOK

-----------------------------------------------------------------------------
(* The QR code.                                                            *)

LEMMA GenerateKeeps ==
    ASSUME Inv, NEW t \in Tokens, GenerateQRCode(t)
    PROVE  Inv'
<1>1. /\ user[t] = NULL /\ passkey[t] = NULL /\ \A r \in Requests : req[r].on # t
      /\ UNCHANGED <<user, passkey, online, req, renewed>>
  BY DEF GenerateQRCode, NewToken, Quiet
<1>2. validated' = {v \in validated : v[1] # t} /\ spent' = {s \in spent : s[1] # t}
  BY DEF GenerateQRCode
<1>3. TypeOK'
  BY <1>1, <1>2 DEF GenerateQRCode, Inv, TypeOK, States
<1>4. \A r \in Requests : SlotOK(r)'
  BY <1>1 DEF Inv, SlotOK
<1>5. UsersOK'
  <2>1. \A x \in Tokens : \A u : <<x, u>> \in validated /\ x # t => <<x, u>> \in validated'
    BY <1>2
  <2>2. \A r \in Requests : Entitled(req[r]) => req[r].on \in Tokens
    BY DEF Inv, SlotOK, Entitled
  <2> QED BY <1>1, <2>1, <2>2 DEF Inv, UsersOK
<1>6. KeysOK'
  BY <1>1, <1>2 DEF Inv, KeysOK, SpentIsGone, Secret
<1>7. ListsOK'
  BY <1>1 DEF Inv, ListsOK
<1> QED BY <1>3, <1>4, <1>5, <1>6, <1>7 DEF Inv

\* A request that reads the state of a code, and goes on with q.
LEMMA StartKeeps ==
    ASSUME Inv, NEW r \in Requests, NEW t \in Tokens, NEW q \in Request,
           StartOn(r, t, q), UNCHANGED <<keys, online, past, renewed>>,
           q.on = t, q.listed = NULL, q.pc \in {"setPending", "setValidated", "readPassKey"},
           q.pc = "setValidated" => q.user \in Users /\ NewPassKey(q.key),
           q.pc \in {"setValidated", "readPassKey"} => q.key \in PassKeys,
           q.pc = "setPending" => q.key = NULL
    PROVE  Inv'
<1>1. /\ req[r].pc = "idle" /\ req' = [req EXCEPT ![r] = q] /\ contended' \subseteq Tokens
  BY DEF StartOn, Inv, TypeOK
<1>2. req' \in [Requests -> Request] /\ req'[r] = q /\ \A s \in Requests : s # r => req'[s] = req[s]
  BY <1>1, Slots DEF Inv
<1>3. TypeOK'
  BY <1>1, <1>2 DEF Inv, TypeOK, keys, past
<1>4. \A s \in Requests : SlotOK(s)'
  <2>1. SlotOK(r)'
    BY <1>2 DEF SlotOK, Drawn, Retrieving
  <2> QED BY <1>2, <2>1, SlotsKept DEF Inv
<1>5. UsersOK'
  BY <1>2, UsersKept DEF Inv, keys, past, Entitled
<1>6. KeysOK'
  <2>1. SpentIsGone'
    BY DEF Inv, KeysOK, SpentIsGone, keys, past
  <2>2. \A s \in Requests : req'[s].pc = "signIn" => passkey'[req'[s].on] # req'[s].key
    BY <1>2 DEF Inv, KeysOK, keys
  <2>3. ASSUME NEW s \in Requests, Drawn(req'[s]) PROVE Secret(s)'
    <3>1. CASE s = r
      <4>1. NewPassKey(q.key)
        BY <1>2, <2>3, <3>1 DEF Drawn
      <4> QED BY <1>2, <3>1, <4>1 DEF NewPassKey, Secret, keys, past
    <3>2. CASE s # r
      <4>1. Drawn(req[s]) /\ req'[s] = req[s] /\ Secret(s)
        BY <1>2, <2>3, <3>2 DEF Inv, KeysOK
      <4>2. req[s].key \in PassKeys
        BY <4>1 DEF Inv, SlotOK
      <4>3. q.key = req[s].key => q.pc = "readPassKey"
        BY <4>2, NullApart DEF NewPassKey
      <4> QED BY <1>2, <4>1, <4>3 DEF Secret, keys, past
    <3> QED BY <3>1, <3>2
  <2> QED BY <2>1, <2>2, <2>3 DEF KeysOK
<1>7. ListsOK'
  BY <1>2, ListsKept DEF Inv
<1> QED BY <1>3, <1>4, <1>5, <1>6, <1>7 DEF Inv

LEMMA StartsKeep ==
    ASSUME Inv, NEW r \in Requests, NEW t \in Tokens,
           \/ StartSubscribe(r, t)
           \/ \E u \in Users, k \in PassKeys : StartValidate(r, t, u, k)
           \/ \E k \in PassKeys : StartRetrieve(r, t, k)
    PROVE  Inv'
<1>1. CASE StartSubscribe(r, t)
  <2> DEFINE q == [Idle EXCEPT !.pc = "setPending", !.on = t]
  <2>1. q \in Request /\ q.pc = "setPending" /\ q.on = t /\ q.listed = NULL /\ q.key = NULL
    BY DEF Idle, Request, Labels
  <2>2. StartOn(r, t, q) /\ UNCHANGED <<keys, online, past, renewed>>
    BY <1>1 DEF StartSubscribe
  <2> HIDE DEF q
  <2> QED BY <2>1, <2>2, StartKeeps
<1>2. ASSUME NEW u \in Users, NEW k \in PassKeys, StartValidate(r, t, u, k) PROVE Inv'
  <2> DEFINE q == [Idle EXCEPT !.pc = "setValidated", !.on = t, !.user = u, !.key = k]
  <2>1. q \in Request /\ q.pc = "setValidated" /\ q.on = t /\ q.listed = NULL /\ q.user = u /\ q.key = k
    BY DEF Idle, Request, Labels
  <2>2. StartOn(r, t, q) /\ NewPassKey(k) /\ UNCHANGED <<keys, online, past, renewed>>
    BY <1>2 DEF StartValidate
  <2> HIDE DEF q
  <2> QED BY <2>1, <2>2, StartKeeps
<1>3. ASSUME NEW k \in PassKeys, StartRetrieve(r, t, k) PROVE Inv'
  <2> DEFINE q == [Idle EXCEPT !.pc = "readPassKey", !.on = t, !.key = k]
  <2>1. q \in Request /\ q.pc = "readPassKey" /\ q.on = t /\ q.listed = NULL /\ q.key = k
    BY DEF Idle, Request, Labels
  <2>2. StartOn(r, t, q) /\ UNCHANGED <<keys, online, past, renewed>>
    BY <1>3 DEF StartRetrieve
  <2> HIDE DEF q
  <2> QED BY <2>1, <2>2, StartKeeps
<1> QED BY <1>1, <1>2, <1>3

\* A step of r on its code that neither sets nor spends a passkey, and brings nobody
\* online.
LEMMA WorkKeeps ==
    ASSUME Inv, NEW r \in Requests, req[r].pc \notin {"idle", "drop"},
           req' \in [Requests -> Request], req'[r].pc # "drop",
           \A s \in Requests : s # r => req'[s] = req[s],
           UNCHANGED <<online, spent, renewed, contended>>,
           state' \in [Tokens -> States \cup {NULL}],
           user' \in [Tokens -> Users \cup {NULL}],
           passkey' \in [Tokens -> PassKeys \cup {NULL}],
           announced' \in [Tokens -> Grant \cup {NULL}],
           validated' \subseteq Tokens \X Users, validated \subseteq validated',
           \A t \in Tokens : passkey'[t] \in {passkey[t], NULL},
           \A t \in Tokens : user'[t] \in {user[t], NULL} \/ <<t, user'[t]>> \in validated',
           SlotOK(r)',
           req'[r].key \in {req[r].key, NULL},
           Drawn(req'[r]) => Drawn(req[r]),
           req[r].pc = "readPassKey" /\ req'[r].key # NULL => passkey[req[r].on] = req[r].key,
           req'[r].pc # "readPassKey",
           req'[r].pc = "signIn" => passkey'[req'[r].on] = NULL,
           Entitled(req'[r]) /\ req'[r].user # NULL
             => <<req'[r].on, req'[r].user>> \in validated'
    PROVE  Inv'
<1>1. TypeOK'
  BY DEF Inv, TypeOK
<1>2. \A s \in Requests : SlotOK(s)'
  BY SlotsKept DEF Inv
<1>3. UsersOK'
  BY UsersKept DEF Inv
<1>4. KeysOK'
  <2>1. Drawn(req'[r]) \/ req'[r].pc = "signIn" => req'[r].key \in PassKeys
    BY DEF SlotOK, Retrieving
  <2>2. req'[r].pc = "signIn" => req'[r].on \in Tokens /\ passkey'[req'[r].on] # req'[r].key
    BY <2>1, NullApart DEF SlotOK
  <2> QED BY <2>1, <2>2, KeysKept
<1>5. ListsOK'
  BY ListsKept DEF Inv
<1> QED BY <1>1, <1>2, <1>3, <1>4, <1>5 DEF Inv

LEMMA ValidationKeeps ==
    ASSUME Inv, NEW r \in Requests,
           SetPending(r) \/ SetValidated(r) \/ SetUser(r) \/ Announce(r)
    PROVE  Inv'
<1> DEFINE q == req[r]
<1>1. q \in Request /\ SlotOK(r) /\ TypeOK
  BY DEF Inv, TypeOK
<1>2. CASE SetPending(r)
  <2>1. req' \in [Requests -> Request] /\ req'[r] = Idle /\ \A s \in Requests : s # r => req'[s] = req[s]
    BY <1>1, <1>2, Ends DEF SetPending
  <2>2. SlotOK(r)'
    BY <2>1, FreeOK
  <2> QED BY <1>1, <1>2, <2>1, <2>2, IdleOK, WorkKeeps DEF SetPending, TypeOK, States, past, Drawn
<1>3. CASE SetValidated(r)
  <2>1. q.pc = "setValidated" /\ q.on \in Tokens /\ q.user \in Users /\ Goto(r, "setUser")
    BY <1>1, <1>3 DEF SetValidated, SlotOK, Drawn
  <2>2. /\ req' \in [Requests -> Request] /\ \A s \in Requests : s # r => req'[s] = req[s]
        /\ req'[r].pc = "setUser" /\ req'[r].on = q.on /\ req'[r].user = q.user
        /\ req'[r].key = q.key /\ req'[r].listed = q.listed
    BY <1>1, <2>1, Continues DEF Labels
  <2>3. SlotOK(r)'
    BY <1>1, <2>1, <2>2 DEF SlotOK, Drawn, Retrieving
  <2>4. /\ state' \in [Tokens -> States \cup {NULL}]
        /\ validated' \subseteq Tokens \X Users /\ validated \subseteq validated'
        /\ <<q.on, q.user>> \in validated'
        /\ UNCHANGED <<user, passkey, online, announced, spent, renewed, contended>>
    BY <1>1, <1>3, <2>1 DEF SetValidated, TypeOK, States
  <2> QED BY <1>1, <2>1, <2>2, <2>3, <2>4, WorkKeeps DEF TypeOK, Drawn
<1>4. CASE SetUser(r)
  <2>1. q.pc = "setUser" /\ q.on \in Tokens /\ q.user \in Users /\ Goto(r, "setPassKey")
    BY <1>1, <1>4 DEF SetUser, SlotOK, Drawn
  <2>2. /\ req' \in [Requests -> Request] /\ \A s \in Requests : s # r => req'[s] = req[s]
        /\ req'[r].pc = "setPassKey" /\ req'[r].on = q.on /\ req'[r].user = q.user
        /\ req'[r].key = q.key /\ req'[r].listed = q.listed
    BY <1>1, <2>1, Continues DEF Labels
  <2>3. SlotOK(r)'
    BY <1>1, <2>1, <2>2 DEF SlotOK, Drawn, Retrieving
  <2>4. <<q.on, q.user>> \in validated
    BY <2>1, NullApart DEF Inv, UsersOK, Entitled
  <2> QED BY <1>1, <1>4, <2>1, <2>2, <2>3, <2>4, WorkKeeps DEF SetUser, TypeOK, past, Drawn
<1>5. CASE Announce(r)
  <2>1. q.pc = "announce" /\ q.on \in Tokens /\ q.user \in Users /\ q.key \in PassKeys
    BY <1>1, <1>5 DEF Announce, SlotOK
  <2>2. req' \in [Requests -> Request] /\ req'[r] = Idle /\ \A s \in Requests : s # r => req'[s] = req[s]
    BY <1>1, <1>5, Ends DEF Announce
  <2>3. SlotOK(r)'
    BY <2>2, FreeOK
  <2>4. announced' \in [Tokens -> Grant \cup {NULL}]
    BY <1>1, <1>5, <2>1 DEF Announce, TypeOK, Grant
  <2> QED BY <1>1, <1>5, <2>1, <2>2, <2>3, <2>4, IdleOK, WorkKeeps DEF Announce, TypeOK, keys, Drawn
<1> QED BY <1>2, <1>3, <1>4, <1>5

\* The passkey drawn is set: no longer secret, it is nobody else's.
LEMMA SetPassKeyKeeps ==
    ASSUME Inv, NEW r \in Requests, SetPassKey(r)
    PROVE  Inv'
<1>1. PICK t \in Tokens, k \in PassKeys : req[r].on = t /\ req[r].key = k
  BY DEF SetPassKey, Inv, SlotOK, Drawn
<1>2. /\ req[r].pc = "setPassKey" /\ Goto(r, "announce") /\ passkey' = [passkey EXCEPT ![t] = k]
      /\ UNCHANGED <<state, user, online, past, renewed, contended>>
  BY <1>1 DEF SetPassKey
<1>3. /\ req' \in [Requests -> Request] /\ \A s \in Requests : s # r => req'[s] = req[s]
      /\ req'[r].pc = "announce" /\ req'[r].on = t /\ req'[r].user = req[r].user
      /\ req'[r].key = k /\ req'[r].listed = req[r].listed
  BY <1>1, <1>2, Continues DEF Labels, Inv
<1>4. TypeOK'
  BY <1>2, <1>3 DEF Inv, TypeOK, past
<1>5. \A s \in Requests : SlotOK(s)'
  <2>1. SlotOK(r)'
    BY <1>1, <1>2, <1>3 DEF Inv, SlotOK, Drawn, Retrieving
  <2> QED BY <1>3, <2>1, SlotsKept DEF Inv
<1>6. UsersOK'
  <2>1. req[r].user # NULL => <<t, req[r].user>> \in validated
    BY <1>1, <1>2 DEF Inv, UsersOK, Entitled
  <2> QED BY <1>2, <1>3, <2>1, UsersKept DEF Inv, past
<1>7. Secret(r) /\ passkey'[t] = k /\ \A x \in Tokens : x # t => passkey'[x] = passkey[x]
  BY <1>2 DEF Inv, KeysOK, Drawn, TypeOK
<1>8. KeysOK'
  <2>1. SpentIsGone'
    <3> SUFFICES ASSUME NEW x \in spent PROVE passkey'[x[1]] # x[2]
      BY <1>2 DEF SpentIsGone, past
    <3>1. x[1] \in Tokens /\ x = <<x[1], x[2]>>
      BY DEF Inv, TypeOK
    <3>2. x[1] = t => x[2] # k
      BY <1>1, <1>7, <3>1 DEF Secret
    <3> QED BY <1>7, <3>1, <3>2 DEF Inv, KeysOK, SpentIsGone
  <2>2. ASSUME NEW s \in Requests, req'[s].pc = "signIn" PROVE passkey'[req'[s].on] # req'[s].key
    <3>1. s # r /\ req'[s] = req[s] /\ req[s].on \in Tokens
      BY <1>3, <2>2 DEF Inv, SlotOK
    <3>2. req[s].key # k
      BY <1>1, <1>7, <2>2, <3>1 DEF Secret
    <3> QED BY <1>7, <2>2, <3>1, <3>2 DEF Inv, KeysOK
  <2>3. ASSUME NEW s \in Requests, Drawn(req'[s]) PROVE Secret(s)'
    <3>1. s # r /\ req'[s] = req[s] /\ Secret(s)
      BY <1>3, <2>3 DEF Drawn, Inv, KeysOK
    <3>2. req[s].key # k
      BY <1>1, <1>2, <3>1 DEF Secret
    <3>3. \A x \in Tokens : passkey'[x] # req[s].key /\ <<x, req[s].key>> \notin spent'
      BY <1>2, <1>7, <3>1, <3>2 DEF Secret, past
    <3> QED BY <1>3, <3>1, <3>2, <3>3 DEF Secret
  <2> QED BY <2>1, <2>2, <2>3 DEF KeysOK
<1>9. ListsOK'
  BY <1>2, <1>3, ListsKept DEF Inv
<1> QED BY <1>4, <1>5, <1>6, <1>8, <1>9 DEF Inv

LEMMA RetrievalKeeps ==
    ASSUME Inv, NEW r \in Requests,
           ReadPassKey(r) \/ ReadUser(r) \/ DelUser(r) \/ DelState(r) \/ DelPassKey(r)
    PROVE  Inv'
<1>1. PICK t \in Tokens, q \in Request : q = req[r] /\ t = q.on
  BY DEF ReadPassKey, ReadUser, DelUser, DelState, DelPassKey, Inv, TypeOK, SlotOK
<1>2. /\ SlotOK(r) /\ TypeOK /\ q.key \in PassKeys
      /\ \A x \in Tokens : user[x] # NULL => <<x, user[x]>> \in validated
      /\ q.pc \in {"delUser", "delState", "delPassKey"} /\ q.user # NULL => <<t, q.user>> \in validated
  BY <1>1 DEF ReadPassKey, ReadUser, DelUser, DelState, DelPassKey, Inv, SlotOK, Retrieving, UsersOK, Entitled
<1>3. ASSUME Finish(r)
      PROVE  /\ req' \in [Requests -> Request] /\ req'[r] = Idle /\ SlotOK(r)'
             /\ \A s \in Requests : s # r => req'[s] = req[s]
  BY <1>2, <1>3, Ends, FreeOK
<1>4. ASSUME NEW l \in {"readUser", "delState", "delPassKey", "signIn"}, Goto(r, l),
             Retrieving(q), l = "signIn" => q.user \in Users
      PROVE  /\ req' \in [Requests -> Request] /\ SlotOK(r)'
             /\ \A s \in Requests : s # r => req'[s] = req[s]
             /\ req'[r].pc = l /\ req'[r].on = t /\ req'[r].user = q.user /\ req'[r].key = q.key
  <2>1. /\ req' \in [Requests -> Request]
        /\ \A s \in Requests : s # r => req'[s] = req[s]
        /\ req'[r].pc = l /\ req'[r].on = t /\ req'[r].user = q.user /\ req'[r].key = q.key
        /\ req'[r].listed = q.listed
    BY <1>1, <1>2, <1>4, Continues DEF Labels
  <2> QED BY <1>1, <1>2, <1>4, <2>1 DEF SlotOK, Drawn, Retrieving
<1>5. CASE ReadPassKey(r)
  <2>1. q.pc = "readPassKey" /\ UNCHANGED <<keys, online, past, renewed, contended>>
    BY <1>1, <1>5 DEF ReadPassKey
  <2>2. CASE passkey[t] = q.key
    <3>1. Goto(r, "readUser") /\ Retrieving(q)
      BY <1>1, <1>5, <2>1, <2>2 DEF ReadPassKey, Retrieving
    <3> QED BY <1>1, <1>2, <1>4, <2>1, <2>2, <3>1, WorkKeeps DEF keys, past, TypeOK, Drawn, Entitled
  <2>3. CASE passkey[t] # q.key
    <3>1. Finish(r)
      BY <1>1, <1>5, <2>3 DEF ReadPassKey
    <3> QED BY <1>1, <1>2, <1>3, <2>1, <3>1, IdleOK, WorkKeeps DEF keys, past, TypeOK, Drawn
  <2> QED BY <2>2, <2>3
<1>6. CASE ReadUser(r)
  <2> DEFINE w == [q EXCEPT !.pc = "delUser", !.user = user[t]]
  <2>1. q.pc = "readUser" /\ req' = [req EXCEPT ![r] = w] /\ UNCHANGED <<keys, online, past, renewed, contended>>
    BY <1>1, <1>6 DEF ReadUser
  <2>2. /\ w \in Request /\ w.pc = "delUser" /\ w.on = t /\ w.user = user[t] /\ w.key = q.key
        /\ w.listed = q.listed
    BY <1>1, <1>2 DEF Request, Labels, TypeOK
  <2> HIDE DEF w
  <2>3. req' \in [Requests -> Request] /\ req'[r] = w /\ \A s \in Requests : s # r => req'[s] = req[s]
    BY <1>2, <2>1, <2>2, Slots
  <2>4. SlotOK(r)'
    BY <1>1, <1>2, <2>1, <2>2, <2>3 DEF SlotOK, Drawn, Retrieving
  <2> QED BY <1>1, <1>2, <2>1, <2>2, <2>3, <2>4, WorkKeeps DEF keys, past, TypeOK, Drawn
<1>7. CASE DelUser(r)
  <2>1. /\ q.pc = "delUser" /\ Goto(r, "delState") /\ user' = [user EXCEPT ![t] = NULL] /\ Retrieving(q)
        /\ UNCHANGED <<state, passkey, online, past, renewed, contended>>
    BY <1>1, <1>7 DEF DelUser, Retrieving
  <2> QED BY <1>1, <1>2, <1>4, <2>1, WorkKeeps DEF past, TypeOK, Drawn
<1>8. CASE DelState(r)
  <2>1. /\ q.pc = "delState" /\ Goto(r, "delPassKey") /\ state' = [state EXCEPT ![t] = NULL] /\ Retrieving(q)
        /\ UNCHANGED <<user, passkey, online, past, renewed, contended>>
    BY <1>1, <1>8 DEF DelState, Retrieving
  <2> QED BY <1>1, <1>2, <1>4, <2>1, WorkKeeps DEF past, TypeOK, Drawn
<1>9. CASE DelPassKey(r)
  <2>1. /\ q.pc = "delPassKey" /\ passkey' = [passkey EXCEPT ![t] = NULL] /\ Retrieving(q)
        /\ announced' = [announced EXCEPT ![t] = NULL]
        /\ UNCHANGED <<state, user, online, validated, spent, renewed, contended>>
    BY <1>1, <1>9 DEF DelPassKey, Retrieving
  <2>2. CASE q.user = NULL
    <3>1. Finish(r)
      BY <1>1, <1>9, <2>2 DEF DelPassKey
    <3> QED BY <1>1, <1>2, <1>3, <2>1, <3>1, IdleOK, WorkKeeps DEF TypeOK, Drawn
  <2>3. CASE q.user # NULL
    <3>1. Goto(r, "signIn") /\ q.user \in Users
      BY <1>1, <1>9, <2>3 DEF DelPassKey, Request
    <3> QED BY <1>1, <1>2, <1>4, <2>1, <3>1, WorkKeeps DEF TypeOK, Drawn
  <2> QED BY <2>2, <2>3
<1> QED BY <1>5, <1>6, <1>7, <1>8, <1>9

\* The passkey that signs in is spent: it is nobody's secret, and no longer there.
LEMMA SignInKeeps ==
    ASSUME Inv, NEW r \in Requests, HandleSignIn(r)
    PROVE  Inv'
<1>1. PICK t \in Tokens, k \in PassKeys, u \in Users :
          req[r].on = t /\ req[r].key = k /\ req[r].user = u
  BY DEF HandleSignIn, Inv, SlotOK, Retrieving
<1>2. /\ req[r].pc = "signIn" /\ ComeOnline(u) /\ spent' = spent \cup {<<t, k>>} /\ Finish(r)
      /\ UNCHANGED <<keys, announced, validated, contended>>
  BY <1>1 DEF HandleSignIn
<1>3. req' \in [Requests -> Request] /\ req'[r] = Idle /\ \A s \in Requests : s # r => req'[s] = req[s]
  BY <1>2, Ends DEF Inv
<1>4. TypeOK'
  BY <1>2, <1>3, SignInAssumption DEF ComeOnline, Inv, TypeOK, keys, Remaining
<1>5. \A s \in Requests : SlotOK(s)'
  BY <1>3, FreeOK, SlotsKept DEF Inv
<1>6. UsersOK'
  BY <1>2, <1>3, IdleOK, UsersKept DEF Inv, keys
<1>7. KeysOK'
  <2>1. passkey[t] # k
    BY <1>1, <1>2 DEF Inv, KeysOK
  <2>2. SpentIsGone'
    BY <1>2, <2>1 DEF Inv, KeysOK, SpentIsGone, keys
  <2>3. \A s \in Requests : req'[s].pc = "signIn" => passkey'[req'[s].on] # req'[s].key
    BY <1>2, <1>3, IdleOK DEF Inv, KeysOK, keys
  <2>4. ASSUME NEW s \in Requests, Drawn(req'[s]) PROVE Secret(s)'
    <3>1. s # r /\ req'[s] = req[s] /\ Secret(s) /\ req[s].key \in PassKeys
      BY <1>3, <2>4, IdleOK DEF Drawn, Inv, KeysOK, SlotOK
    <3>2. req[s].key # k
      BY <1>1, <1>2, <3>1 DEF Secret
    <3> QED BY <1>2, <1>3, <3>1, <3>2, IdleOK, NullApart DEF Secret, keys
  <2> QED BY <2>2, <2>3, <2>4 DEF KeysOK
<1>8. ListsOK'
  BY <1>2, <1>3, IdleOK DEF Inv, TypeOK, ListsOK, ComeOnline
<1> QED BY <1>4, <1>5, <1>6, <1>7, <1>8 DEF Inv

-----------------------------------------------------------------------------
(* Presence.                                                               *)

\* A step that leaves the codes alone, and no slot a work it had not.
LEMMA PresenceKeeps ==
    ASSUME Inv, UNCHANGED <<keys, past, contended>>, TypeOK', ListsOK',
           \A s \in Requests : SlotOK(s)',
           \A s \in Requests : \/ req'[s].pc \in {"idle", "drop"}
                               \/ req'[s] = req[s]
    PROVE  Inv'
<1>1. UsersOK'
  BY DEF Inv, UsersOK, keys, past, Entitled
<1>2. SpentIsGone' /\ \A s \in Requests : req'[s].pc = "signIn" => passkey'[req'[s].on] # req'[s].key
  BY DEF Inv, KeysOK, SpentIsGone, keys, past
<1>3. ASSUME NEW s \in Requests, Drawn(req'[s]) PROVE Secret(s)'
  <2>1. req'[s] = req[s] /\ Secret(s) /\ req[s].key \in PassKeys
    BY <1>3 DEF Drawn, Inv, KeysOK, SlotOK
  <2>2. \A x \in Requests : x # s /\ req'[x].key = req'[s].key => req'[x].pc = "readPassKey"
    BY <2>1, NullApart DEF Secret, SlotOK
  <2> QED BY <2>1, <2>2 DEF Secret, keys, past
<1> QED BY <1>1, <1>2, <1>3 DEF Inv, KeysOK

LEMMA ConnectKeeps ==
    ASSUME Inv, NEW u \in Users, Connect(u) \/ Disconnect(u)
    PROVE  Inv'
<1>1. UNCHANGED <<keys, req, past, contended>>
  BY DEF Connect, Disconnect
<1>2. TypeOK'
  BY <1>1, SignInAssumption DEF Connect, Disconnect, ComeOnline, Inv, TypeOK, keys, past, Remaining
<1>3. ListsOK'
  BY <1>1 DEF Connect, Disconnect, ComeOnline, Inv, TypeOK, ListsOK
<1>4. \A s \in Requests : SlotOK(s)'
  BY <1>1 DEF Inv, SlotOK
<1> QED BY <1>1, <1>2, <1>3, <1>4, PresenceKeeps

LEMMA ListingKeeps ==
    ASSUME Inv, NEW r \in Requests, Onlines(r)
    PROVE  Inv'
<1>1. UNCHANGED <<keys, past, contended>>
  BY DEF Onlines, StartOnlines, EndOnlines, Drop, Skip
<1>2. CASE StartOnlines(r)
  <2> DEFINE q == [Idle EXCEPT !.pc = "drop", !.listed = online]
  <2>1. /\ q \in Request /\ q.pc = "drop" /\ q.on = NULL /\ q.key = NULL /\ q.listed = online
        /\ online # NULL
    BY NullApart DEF Idle, Request, Labels, Inv, TypeOK
  <2>2. req' = [req EXCEPT ![r] = q] /\ renewed' = [renewed EXCEPT ![r] = {}] /\ online' = online
    BY <1>2 DEF StartOnlines
  <2> HIDE DEF q
  <2>3. req' \in [Requests -> Request] /\ req'[r] = q /\ \A s \in Requests : s # r => req'[s] = req[s]
    BY <2>1, <2>2, Slots DEF Inv
  <2>4. TypeOK'
    BY <1>1, <2>2, <2>3 DEF Inv, TypeOK, keys, past
  <2>5. SlotOK(r)'
    BY <2>1, <2>3 DEF SlotOK, Drawn, Retrieving
  <2>6. \A s \in Requests : SlotOK(s)'
    BY <2>3, <2>5, SlotsKept DEF Inv
  <2>7. ListsOK'
    BY <2>1, <2>2, <2>3 DEF Inv, ListsOK, TypeOK
  <2> QED BY <1>1, <2>1, <2>3, <2>4, <2>6, <2>7, PresenceKeeps
<1>3. CASE EndOnlines(r)
  <2>1. req' \in [Requests -> Request] /\ req'[r] = Idle /\ \A s \in Requests : s # r => req'[s] = req[s]
    BY <1>3, Ends DEF Inv, EndOnlines
  <2>2. TypeOK'
    BY <1>1, <1>3, <2>1 DEF EndOnlines, Inv, TypeOK, keys, past
  <2>3. \A s \in Requests : SlotOK(s)'
    BY <2>1, FreeOK, SlotsKept DEF Inv
  <2>4. ListsOK'
    BY <1>3, <2>1, IdleOK DEF EndOnlines, Inv, ListsOK, TypeOK
  <2> QED BY <1>1, <2>1, <2>2, <2>3, <2>4, IdleOK, PresenceKeeps
<1>4. ASSUME NEW u \in Users, Drop(r, u) \/ Skip(r, u) PROVE Inv'
  <2> DEFINE l == [req[r].listed EXCEPT ![u] = NULL]
             q == [req[r] EXCEPT !.listed = l]
  <2>1. /\ req[r].pc = "drop" /\ req' = [req EXCEPT ![r] = q] /\ renewed' = renewed
        /\ online' \in [Users -> Remaining \cup {NULL}]
        /\ \A x \in Users : online'[x] \in {NULL, online[x]}
    BY <1>4 DEF Drop, Skip, Inv, TypeOK
  <2>2. req[r] \in Request /\ req[r].listed \in [Users -> Remaining \cup {NULL}] /\ SlotOK(r)
    <3>1. req[r] \in Request /\ SlotOK(r)
      BY DEF Inv, TypeOK
    <3> QED BY <2>1, <3>1 DEF SlotOK, Request
  <2>3. /\ l \in [Users -> Remaining \cup {NULL}] /\ l[u] = NULL
        /\ \A x \in Users : x # u => l[x] = req[r].listed[x]
    BY <2>2
  <2> HIDE DEF l
  <2>4. /\ q \in Request /\ q.pc = "drop" /\ q.on = req[r].on /\ q.key = req[r].key /\ q.listed = l
        /\ l # NULL
    BY <2>1, <2>2, <2>3, NullApart DEF Request
  <2> HIDE DEF q
  <2>5. req' \in [Requests -> Request] /\ req'[r] = q /\ \A s \in Requests : s # r => req'[s] = req[s]
    BY <2>1, <2>4, Slots DEF Inv
  <2>6. TypeOK'
    BY <1>1, <2>1, <2>5 DEF Inv, TypeOK, keys, past
  <2>7. SlotOK(r)'
    BY <2>1, <2>2, <2>4, <2>5 DEF SlotOK, Drawn, Retrieving
  <2>8. \A s \in Requests : SlotOK(s)'
    BY <2>5, <2>7, SlotsKept DEF Inv
  <2>9. ListsOK'
    BY <2>1, <2>3, <2>4, <2>5 DEF Inv, ListsOK
  <2> QED BY <1>1, <2>4, <2>5, <2>6, <2>8, <2>9, PresenceKeeps
<1> QED BY <1>2, <1>3, <1>4 DEF Onlines

LEMMA OlderOK ==
    \A x \in Remaining \cup {NULL} : /\ Older(x) \in Remaining \cup {NULL}
                                     /\ Older(x) = NULL <=> x = NULL
BY SignInAssumption DEF Older, Remaining

LEMMA TickKeeps ==
    ASSUME Inv, Tick
    PROVE  Inv'
<1>1. /\ UNCHANGED <<keys, past, renewed, contended>>
      /\ online' = [u \in Users |-> Older(online[u])]
  BY DEF Tick
<1>2. ASSUME NEW s \in Requests
      PROVE  /\ req'[s] \in Request /\ SlotOK(s)'
             /\ req'[s].pc # "drop" => req'[s] = req[s]
             /\ req'[s].pc = req[s].pc
             /\ req'[s].pc = "drop" =>
                   \A u \in Users : req'[s].listed[u] = Older(req[s].listed[u])
  <2>1. req[s] \in Request /\ SlotOK(s)
    BY DEF Inv, TypeOK
  <2>2. CASE req[s].listed = NULL
    <3>1. req'[s] = req[s]
      BY <2>2 DEF Tick
    <3> QED BY <2>1, <2>2, <3>1 DEF SlotOK
  <2>3. CASE req[s].listed # NULL
    <3> DEFINE l == [u \in Users |-> Older(req[s].listed[u])]
    <3>1. req[s].pc = "drop" /\ req[s].listed \in [Users -> Remaining \cup {NULL}]
      BY <2>1, <2>3 DEF SlotOK, Request
    <3>2. l \in [Users -> Remaining \cup {NULL}]
      BY <3>1, OlderOK
    <3>3. req'[s] = [req[s] EXCEPT !.listed = l]
      BY <2>3 DEF Tick
    <3>4. l # NULL
      BY <3>2, NullApart
    <3>5. \A u \in Users : l[u] = Older(req[s].listed[u])
      OBVIOUS
    <3> HIDE DEF l
    <3>6. /\ req'[s] \in Request /\ req'[s].pc = "drop" /\ req'[s].on = req[s].on
          /\ req'[s].key = req[s].key /\ req'[s].listed = l
      BY <2>1, <3>1, <3>2, <3>3 DEF Request
    <3>7. SlotOK(s)'
      BY <2>1, <3>1, <3>4, <3>6 DEF SlotOK, Drawn, Retrieving
    <3> QED BY <3>1, <3>5, <3>6, <3>7
  <2> QED BY <2>2, <2>3
<1>3. TypeOK'
  <2>1. req' \in [Requests -> Request]
    BY <1>2 DEF Tick
  <2>2. online' \in [Users -> Remaining \cup {NULL}]
    BY <1>1, OlderOK DEF Inv, TypeOK
  <2> QED BY <1>1, <2>1, <2>2 DEF Inv, TypeOK, keys, past
<1>4. ListsOK'
  <2> SUFFICES ASSUME NEW s \in Requests, req'[s].pc = "drop", NEW u \in Users,
                      req'[s].listed[u] # NULL, u \notin renewed'[s]
               PROVE  online'[u] \in {NULL, req'[s].listed[u]}
    BY DEF ListsOK
  <2>1. req[s].pc = "drop" /\ req'[s].listed[u] = Older(req[s].listed[u])
    BY <1>2
  <2>2. req[s].listed[u] \in Remaining \cup {NULL} /\ online[u] \in Remaining \cup {NULL}
    <3>1. req[s] \in Request /\ SlotOK(s)
      BY DEF Inv, TypeOK
    <3> QED BY <2>1, <3>1 DEF SlotOK, Request, Inv, TypeOK
  <2>3. req[s].listed[u] # NULL
    BY <2>1, <2>2, OlderOK
  <2>4. online[u] \in {NULL, req[s].listed[u]}
    BY <1>1, <2>1, <2>3 DEF Inv, ListsOK
  <2> QED BY <1>1, <2>1, <2>2, <2>4, OlderOK
<1> QED BY <1>1, <1>2, <1>3, <1>4, PresenceKeeps

-----------------------------------------------------------------------------
(* Expiry and failure.                                                     *)

LEMMA ExpireKeeps ==
    ASSUME Inv, NEW t \in Tokens, ExpireState(t) \/ ExpireUser(t) \/ ExpirePassKey(t)
    PROVE  Inv'
<1>1. /\ UNCHANGED <<online, req, validated, spent, renewed>>
      /\ \A x \in Tokens : user'[x] \in {user[x], NULL} /\ passkey'[x] \in {passkey[x], NULL}
  BY DEF ExpireState, ExpireUser, ExpirePassKey, past, Inv, TypeOK
<1>2. TypeOK'
  BY DEF ExpireState, ExpireUser, ExpirePassKey, past, Inv, TypeOK
<1>3. \A r \in Requests : SlotOK(r)'
  BY <1>1 DEF Inv, SlotOK
<1>4. UsersOK' /\ ListsOK'
  BY <1>1 DEF Inv, UsersOK, ListsOK
<1>5. KeysOK'
  <2>1. \A x \in Tokens, k \in PassKeys : passkey[x] # k => passkey'[x] # k
    BY <1>1, NullApart
  <2>2. \A r \in Requests : Drawn(req[r]) \/ req[r].pc = "signIn" =>
            req[r].on \in Tokens /\ req[r].key \in PassKeys
    BY DEF Inv, SlotOK, Drawn, Retrieving
  <2>3. SpentIsGone'
    BY <1>1, <2>1 DEF Inv, TypeOK, KeysOK, SpentIsGone
  <2>4. \A r \in Requests : Drawn(req[r]) => Secret(r)'
    BY <1>1, <2>1, <2>2 DEF Inv, KeysOK, Secret
  <2> QED BY <1>1, <2>1, <2>2, <2>3, <2>4 DEF Inv, KeysOK
<1> QED BY <1>2, <1>3, <1>4, <1>5 DEF Inv

LEMMA FailKeeps ==
    ASSUME Inv, NEW r \in Requests, Fail(r)
    PROVE  Inv'
<1>1. /\ Finish(r) /\ UNCHANGED <<keys, online, past>>
      /\ renewed' = [renewed EXCEPT ![r] = {}]
      /\ contended' = contended \cup ({req[r].on} \ {NULL})
  BY DEF Fail
<1>2. req' \in [Requests -> Request] /\ req'[r] = Idle /\ \A s \in Requests : s # r => req'[s] = req[s]
  BY <1>1, Ends DEF Inv
<1>3. TypeOK'
  <2>1. req[r].on \in Tokens \cup {NULL}
    BY DEF Inv, TypeOK, Request
  <2> QED BY <1>1, <1>2, <2>1 DEF Inv, TypeOK, keys, past
<1>4. \A s \in Requests : SlotOK(s)'
  BY <1>2, FreeOK, SlotsKept DEF Inv
<1>5. UsersOK'
  BY <1>1, <1>2, IdleOK, UsersKept DEF Inv, keys, past
<1>6. KeysOK'
  BY <1>1, <1>2, IdleOK, KeysKept DEF keys, past, Drawn
<1>7. ListsOK'
  BY <1>1, <1>2, IdleOK, ListsKept DEF Inv, TypeOK
<1> QED BY <1>3, <1>4, <1>5, <1>6, <1>7 DEF Inv

-----------------------------------------------------------------------------
LEMMA InitInv == Init => Inv
<1> SUFFICES ASSUME Init PROVE Inv
  OBVIOUS
<1>1. TypeOK
  BY IdleOK DEF Init, TypeOK
<1>2. \A r \in Requests : SlotOK(r)
  BY IdleOK DEF Init, SlotOK, Drawn, Retrieving
<1>3. UsersOK /\ KeysOK /\ ListsOK
  BY IdleOK DEF Init, UsersOK, KeysOK, SpentIsGone, ListsOK, Drawn
<1> QED BY <1>1, <1>2, <1>3 DEF Inv

LEMMA StepInv == Inv /\ [Next]_vars => Inv'
<1> SUFFICES ASSUME Inv, [Next]_vars PROVE Inv'
  OBVIOUS
<1>1. ASSUME NEW r \in Requests, QRCode(r) PROVE Inv'
  BY <1>1, StartsKeep, ValidationKeeps, SetPassKeyKeeps, RetrievalKeeps, SignInKeeps DEF QRCode
<1>2. CASE UNCHANGED vars
  BY <1>2 DEF vars, keys, past, Inv, TypeOK, SlotOK, UsersOK, KeysOK, SpentIsGone, Secret, ListsOK
<1> QED BY <1>1, <1>2, GenerateKeeps, ListingKeeps, FailKeeps, ExpireKeeps, ConnectKeeps,
           TickKeeps DEF Next

LEMMA AlwaysInv == Spec => []Inv
BY InitInv, StepInv, PTL DEF Spec

\* The keys, the requests and the histories keep their types.
THEOREM SignInTyped == Spec => []TypeOK
<1>1. Inv => TypeOK
  BY DEF Inv
<1> QED BY <1>1, AlwaysInv, PTL

\* A QR code signs in nobody but a user who validated that code, however the three
\* keys are written, read and deleted by others or expire.
THEOREM OnlyWhoValidated == Spec => []SignsInWhoValidated
<1>1. Inv => SignsInWhoValidated
  BY NullApart DEF Inv, UsersOK, SlotOK, SignsInWhoValidated, Entitled
<1> QED BY <1>1, AlwaysInv, PTL

\* What signed somebody in is no longer a passkey of its code, nor is it again.
THEOREM SpentForGood == Spec => []SpentIsGone
<1>1. Inv => SpentIsGone
  BY DEF Inv, KeysOK
<1> QED BY <1>1, AlwaysInv, PTL

\* A listing puts nobody offline whose entry lives, but those who came back since it
\* read the entries.
THEOREM OnlyStaleDropped == Spec => DropsOnlyStale
<1> DEFINE Drops(r, u) == req[r].pc = "drop" /\ req'[r] # req[r]
                          /\ online[u] \in Nat \ {0} /\ online'[u] = NULL
           Step == \A r \in Requests, u \in Users : Drops(r, u) => u \in renewed[r]
<1>1. Inv /\ [Next]_vars => [Step]_vars
  <2> SUFFICES ASSUME Inv, Next, NEW r \in Requests, NEW u \in Users, Drops(r, u)
               PROVE  u \in renewed[r]
    OBVIOUS
  <2>1. Drop(r, u)
    <3>1. online[u] # NULL /\ online[u] # online'[u] /\ online \in [Users -> Remaining \cup {NULL}]
      BY NullApart DEF Inv, TypeOK
    <3>2. ~ Tick
      BY <3>1, OlderOK DEF Tick
    <3>3. \A s \in Requests : ~ QRCode(s)
      <4> SUFFICES ASSUME NEW s \in Requests, QRCode(s) PROVE FALSE
        OBVIOUS
      <4>1. HandleSignIn(s)
        BY <3>1 DEF QRCode, StartSubscribe, StartValidate, StartRetrieve, SetPending,
           SetValidated, SetUser, SetPassKey, Announce, ReadPassKey, ReadUser, DelUser,
           DelState, DelPassKey
      <4>2. s # r
        BY <4>1 DEF HandleSignIn
      <4> QED BY <4>1, <4>2 DEF HandleSignIn, Finish, Inv, TypeOK
    <3>4. \A s \in Requests : ~ Fail(s)
      BY <3>1 DEF Fail
    <3>5. \A t \in Tokens : ~ (GenerateQRCode(t) \/ ExpireState(t) \/ ExpireUser(t) \/ ExpirePassKey(t))
      BY <3>1 DEF GenerateQRCode, ExpireState, ExpireUser, ExpirePassKey
    <3>6. \A x \in Users : ~ (Connect(x) \/ Disconnect(x))
      BY DEF Connect, Disconnect
    <3>7. PICK s \in Requests : Onlines(s)
      BY <3>2, <3>3, <3>4, <3>5, <3>6 DEF Next
    <3>8. PICK x \in Users : Drop(s, x)
      BY <3>1, <3>7 DEF Onlines, StartOnlines, EndOnlines, Skip
    <3>9. s = r
      BY <3>8 DEF Drop, Inv, TypeOK
    <3>10. x = u
      BY <3>1, <3>8 DEF Drop
    <3> QED BY <3>8, <3>9, <3>10
  <2>2. req[r].listed[u] = 0 /\ req[r].pc = "drop"
    BY <2>1 DEF Drop
  <2>3. req[r].listed[u] # NULL /\ online[u] \notin {NULL, req[r].listed[u]}
    BY <2>2, NullApart
  <2> QED BY <2>2, <2>3 DEF Inv, ListsOK
<1> QED BY <1>1, AlwaysInv, PTL DEF Spec, DropsOnlyStale

-----------------------------------------------------------------------------
(* What a browser is told.  Of a code on which nothing interfered, at most *)
(* one request is at work, and where it is tells how far the three keys    *)
(* are from what was announced.                                            *)

\* The keys are those of the validation that was announced, or none was.
AsAnnounced(t) ==
    /\ announced[t] = NULL <=> state[t] # "validated"
    /\ announced[t] # NULL => announced[t] = [user |-> user[t], key |-> passkey[t]]

\* The requests at work on t, which is r alone: nothing interferes.
Alone(t) == \A r, s \in Requests : req[r].on = t /\ req[s].on = t => r = s

\* What the keys are when r, alone on t, is at each label.  From readUser on, r
\* deletes them, then takes the announcement back.
Progress(t, r) ==
    LET q == req[r]
    IN  /\ q.pc = "setPending" => state[t] = "generated"
        /\ q.pc = "setValidated" => state[t] = "pending"
        /\ q.pc \in {"setUser", "setPassKey", "announce"} => state[t] = "validated"
        /\ q.pc \in {"setPassKey", "announce"} => user[t] = q.user
        /\ q.pc = "announce" => passkey[t] = q.key
        /\ q.pc \in {"setPending", "setValidated", "setUser", "setPassKey", "announce",
                     "signIn"} => announced[t] = NULL
        /\ q.pc = "readPassKey" => state[t] = "validated" /\ AsAnnounced(t)
        /\ q.pc \in {"readUser", "delUser", "delState", "delPassKey"} => announced[t] # NULL
        /\ q.pc = "readUser" => announced[t] = [user |-> user[t], key |-> q.key]
        /\ q.pc \in {"delUser", "delState", "delPassKey"} =>
              announced[t] = [user |-> q.user, key |-> q.key]
        /\ q.pc \in {"delPassKey", "signIn"} => state[t] = NULL

CodeOK(t) ==
    t \notin contended =>
        /\ Alone(t)
        /\ Quiet(t) => AsAnnounced(t)
        /\ \A r \in Requests : req[r].on = t => Progress(t, r)

CodesOK == \A t \in Tokens : CodeOK(t)

\* Neither the keys of t nor the requests on it change.
LEMMA CodeUntouched ==
    ASSUME NEW t \in Tokens, CodeOK(t), t \in contended => t \in contended',
           state'[t] = state[t], user'[t] = user[t], passkey'[t] = passkey[t],
           announced'[t] = announced[t],
           \A s \in Requests : req'[s] = req[s] \/ (req[s].on # t /\ req'[s].on # t)
    PROVE  CodeOK(t)'
<1>1. ASSUME NEW s \in Requests PROVE req'[s].on = t <=> req[s].on = t
  OBVIOUS
<1>2. ASSUME NEW s \in Requests, req'[s].on = t PROVE req'[s] = req[s]
  BY <1>2
<1>3. CASE t \notin contended'
  <2>1. Alone(t) /\ (Quiet(t) => AsAnnounced(t)) /\ \A s \in Requests : req[s].on = t => Progress(t, s)
    BY <1>3 DEF CodeOK
  <2>2. Alone(t)'
    BY <1>1, <2>1 DEF Alone
  <2>3. Quiet(t)' => AsAnnounced(t)'
    BY <1>1, <2>1 DEF Quiet, AsAnnounced
  <2>4. ASSUME NEW s \in Requests, req'[s].on = t PROVE Progress(t, s)'
    <3>1. req'[s] = req[s] /\ Progress(t, s)
      BY <1>1, <1>2, <2>1, <2>4
    <3> QED BY <3>1 DEF Progress, AsAnnounced
  <2> QED BY <2>2, <2>3, <2>4 DEF CodeOK
<1> QED BY <1>3 DEF CodeOK

\* A step of r on its code t: r is alone, and goes on with the keys it should leave,
\* or ends with them as announced.
LEMMA WorkOnCode ==
    ASSUME CodesOK, NEW r \in Requests, NEW t \in Tokens, req[r].on = t,
           \A s \in Requests : s # r => req'[s] = req[s],
           contended' = contended, req'[r].on \in {t, NULL},
           \A x \in Tokens : x # t =>
               /\ state'[x] = state[x] /\ user'[x] = user[x] /\ passkey'[x] = passkey[x]
               /\ announced'[x] = announced[x],
           Progress(t, r) => IF req'[r].on = t THEN Progress(t, r)' ELSE AsAnnounced(t)'
    PROVE  CodesOK'
<1>1. ASSUME NEW x \in Tokens, x # t PROVE CodeOK(x)'
  <2>1. \A s \in Requests : req'[s] = req[s] \/ (req[s].on # x /\ req'[s].on # x)
    BY <1>1, NullApart
  <2> QED BY <1>1, <2>1, CodeUntouched DEF CodesOK
<1>2. ASSUME t \notin contended PROVE CodeOK(t)'
  <2>1. Progress(t, r) /\ \A s \in Requests : s # r => req[s].on # t
    BY <1>2 DEF CodesOK, CodeOK, Alone
  <2>2. \A s \in Requests : s # r => req'[s].on # t
    BY <2>1
  <2>3. Alone(t)'
    BY <2>2 DEF Alone
  <2>4. Quiet(t)' => AsAnnounced(t)'
    BY <2>1 DEF Quiet
  <2>5. \A s \in Requests : req'[s].on = t => Progress(t, s)'
    BY <2>1, <2>2
  <2> QED BY <2>3, <2>4, <2>5 DEF CodeOK
<1>3. ASSUME t \in contended PROVE CodeOK(t)'
  BY <1>3 DEF CodeOK
<1> QED BY <1>1, <1>2, <1>3 DEF CodesOK

\* A request that starts on t with q, which asks of the keys only what it read.
LEMMA StartOnCode ==
    ASSUME TypeOK, CodesOK, NEW r \in Requests, NEW t \in Tokens, NEW q \in Request,
           StartOn(r, t, q), UNCHANGED <<keys, announced>>, q.on = t, req[r].on = NULL,
           \/ q.pc = "setPending" /\ state[t] = "generated"
           \/ q.pc = "setValidated" /\ state[t] = "pending"
           \/ q.pc = "readPassKey" /\ state[t] = "validated"
    PROVE  CodesOK'
<1>1. req'[r] = q /\ \A s \in Requests : s # r => req'[s] = req[s]
  BY DEF StartOn, TypeOK
<1>2. contended' = IF Quiet(t) THEN contended ELSE contended \cup {t}
  BY DEF StartOn
<1>3. ASSUME NEW x \in Tokens, x # t PROVE CodeOK(x)'
  <2>1. \A s \in Requests : req'[s] = req[s] \/ (req[s].on # x /\ req'[s].on # x)
    BY <1>1, <1>3, NullApart
  <2> QED BY <1>2, <1>3, <2>1, CodeUntouched DEF CodesOK, keys
<1>4. ASSUME t \notin contended' PROVE CodeOK(t)'
  <2>1. Quiet(t) /\ AsAnnounced(t) /\ UNCHANGED <<state, user, passkey, announced>>
    BY <1>2, <1>4 DEF CodesOK, CodeOK, keys
  <2>2. \A s \in Requests : s # r => req'[s].on # t
    BY <1>1, <2>1 DEF Quiet
  <2>3. Progress(t, r)'
    BY <1>1, <2>1 DEF AsAnnounced, Progress
  <2> QED BY <1>1, <2>2, <2>3 DEF CodeOK, Alone, Quiet
<1>5. ASSUME t \in contended' PROVE CodeOK(t)'
  BY <1>5 DEF CodeOK
<1> QED BY <1>3, <1>4, <1>5 DEF CodesOK

LEMMA StartsOnCodes ==
    ASSUME Inv, CodesOK, NEW r \in Requests, NEW t \in Tokens,
           \/ StartSubscribe(r, t)
           \/ \E u \in Users, k \in PassKeys : StartValidate(r, t, u, k)
           \/ \E k \in PassKeys : StartRetrieve(r, t, k)
    PROVE  CodesOK'
<1>1. TypeOK /\ req[r].on = NULL /\ UNCHANGED <<keys, announced>>
  BY DEF StartSubscribe, StartValidate, StartRetrieve, StartOn, Inv, SlotOK, past
<1>2. CASE StartSubscribe(r, t)
  <2> DEFINE q == [Idle EXCEPT !.pc = "setPending", !.on = t]
  <2>1. q \in Request /\ q.pc = "setPending" /\ q.on = t
    BY DEF Idle, Request, Labels
  <2>2. StartOn(r, t, q) /\ state[t] = "generated"
    BY <1>2 DEF StartSubscribe
  <2> HIDE DEF q
  <2> QED BY <1>1, <2>1, <2>2, StartOnCode
<1>3. ASSUME NEW u \in Users, NEW k \in PassKeys, StartValidate(r, t, u, k) PROVE CodesOK'
  <2> DEFINE q == [Idle EXCEPT !.pc = "setValidated", !.on = t, !.user = u, !.key = k]
  <2>1. q \in Request /\ q.pc = "setValidated" /\ q.on = t
    BY DEF Idle, Request, Labels
  <2>2. StartOn(r, t, q) /\ state[t] = "pending"
    BY <1>3 DEF StartValidate
  <2> HIDE DEF q
  <2> QED BY <1>1, <2>1, <2>2, StartOnCode
<1>4. ASSUME NEW k \in PassKeys, StartRetrieve(r, t, k) PROVE CodesOK'
  <2> DEFINE q == [Idle EXCEPT !.pc = "readPassKey", !.on = t, !.key = k]
  <2>1. q \in Request /\ q.pc = "readPassKey" /\ q.on = t
    BY DEF Idle, Request, Labels
  <2>2. StartOn(r, t, q) /\ state[t] = "validated"
    BY <1>4 DEF StartRetrieve
  <2> HIDE DEF q
  <2> QED BY <1>1, <2>1, <2>2, StartOnCode
<1> QED BY <1>2, <1>3, <1>4

LEMMA ValidationOnCodes ==
    ASSUME Inv, CodesOK, NEW r \in Requests,
           SetPending(r) \/ SetValidated(r) \/ SetUser(r) \/ SetPassKey(r) \/ Announce(r)
    PROVE  CodesOK'
<1>1. PICK t \in Tokens : req[r].on = t
  BY DEF SetPending, SetValidated, SetUser, SetPassKey, Announce, Inv, SlotOK
<1>2. TypeOK /\ contended' = contended
  BY DEF Inv, SetPending, SetValidated, SetUser, SetPassKey, Announce
<1>3. ASSUME NEW l \in Labels, Goto(r, l)
      PROVE  /\ \A s \in Requests : s # r => req'[s] = req[s]
             /\ req'[r].pc = l /\ req'[r].on = t /\ req'[r].user = req[r].user
             /\ req'[r].key = req[r].key
  BY <1>1, <1>2, <1>3, Continues
<1>4. ASSUME Finish(r)
      PROVE  (\A s \in Requests : s # r => req'[s] = req[s]) /\ req'[r].on = NULL
  BY <1>2, <1>4, Ends, IdleOK
<1>5. CASE SetPending(r)
  <2>1. Progress(t, r) => AsAnnounced(t)'
    BY <1>1, <1>2, <1>5, NullApart DEF SetPending, past, TypeOK, Progress, AsAnnounced
  <2>2. \A x \in Tokens : x # t => state'[x] = state[x]
    BY <1>1, <1>2, <1>5 DEF SetPending, TypeOK
  <2> QED BY <1>1, <1>2, <1>4, <1>5, <2>1, <2>2, NullApart, WorkOnCode DEF SetPending, past
<1>6. CASE SetValidated(r)
  <2>1. req[r].pc = "setValidated" /\ Goto(r, "setUser") /\ "setUser" \in Labels
    BY <1>6 DEF SetValidated, Labels
  <2>2. /\ state'[t] = "validated" /\ UNCHANGED <<user, passkey, announced>>
        /\ \A x \in Tokens : x # t => state'[x] = state[x]
    BY <1>1, <1>2, <1>6 DEF SetValidated, TypeOK
  <2>3. Progress(t, r) => Progress(t, r)'
    BY <1>3, <2>1, <2>2 DEF Progress
  <2> QED BY <1>1, <1>2, <1>3, <2>1, <2>2, <2>3, WorkOnCode
<1>7. CASE SetUser(r)
  <2>1. req[r].pc = "setUser" /\ Goto(r, "setPassKey") /\ "setPassKey" \in Labels
    BY <1>7 DEF SetUser, Labels
  <2>2. /\ user'[t] = req[r].user /\ UNCHANGED <<state, passkey, announced>>
        /\ \A x \in Tokens : x # t => user'[x] = user[x]
    BY <1>1, <1>2, <1>7 DEF SetUser, TypeOK, past
  <2>3. Progress(t, r) => Progress(t, r)'
    BY <1>3, <2>1, <2>2 DEF Progress
  <2> QED BY <1>1, <1>2, <1>3, <2>1, <2>2, <2>3, WorkOnCode
<1>8. CASE SetPassKey(r)
  <2>1. req[r].pc = "setPassKey" /\ Goto(r, "announce") /\ "announce" \in Labels
    BY <1>8 DEF SetPassKey, Labels
  <2>2. /\ passkey'[t] = req[r].key /\ UNCHANGED <<state, user, announced>>
        /\ \A x \in Tokens : x # t => passkey'[x] = passkey[x]
    BY <1>1, <1>2, <1>8 DEF SetPassKey, TypeOK, past
  <2>3. Progress(t, r) => Progress(t, r)'
    BY <1>3, <2>1, <2>2 DEF Progress
  <2> QED BY <1>1, <1>2, <1>3, <2>1, <2>2, <2>3, WorkOnCode
<1>9. CASE Announce(r)
  <2>1. req[r].pc = "announce" /\ Finish(r) /\ UNCHANGED <<state, user, passkey>>
    BY <1>9 DEF Announce, keys
  <2>2. /\ announced'[t] = [user |-> req[r].user, key |-> req[r].key]
        /\ announced'[t] # NULL
        /\ \A x \in Tokens : x # t => announced'[x] = announced[x]
    <3>1. [user |-> req[r].user, key |-> req[r].key] \in Grant
      BY <2>1 DEF Inv, SlotOK, Grant
    <3> QED BY <1>1, <1>2, <1>9, <3>1, NullApart DEF Announce, TypeOK
  <2>3. Progress(t, r) => AsAnnounced(t)'
    BY <2>1, <2>2 DEF Progress, AsAnnounced
  <2> QED BY <1>1, <1>2, <1>4, <2>1, <2>2, <2>3, NullApart, WorkOnCode
<1> QED BY <1>5, <1>6, <1>7, <1>8, <1>9

LEMMA RetrievalOnCodes ==
    ASSUME Inv, CodesOK, NEW r \in Requests,
           \/ ReadPassKey(r) \/ ReadUser(r) \/ DelUser(r) \/ DelState(r) \/ DelPassKey(r)
           \/ HandleSignIn(r)
    PROVE  CodesOK'
<1>1. PICK t \in Tokens : req[r].on = t
  BY DEF ReadPassKey, ReadUser, DelUser, DelState, DelPassKey, HandleSignIn, Inv, SlotOK
<1>2. TypeOK /\ contended' = contended
  BY DEF Inv, ReadPassKey, ReadUser, DelUser, DelState, DelPassKey, HandleSignIn
<1>3. ASSUME NEW l \in Labels, Goto(r, l)
      PROVE  /\ \A s \in Requests : s # r => req'[s] = req[s]
             /\ req'[r].pc = l /\ req'[r].on = t /\ req'[r].user = req[r].user
             /\ req'[r].key = req[r].key
  BY <1>1, <1>2, <1>3, Continues
<1>4. ASSUME Finish(r)
      PROVE  (\A s \in Requests : s # r => req'[s] = req[s]) /\ req'[r].on = NULL
  BY <1>2, <1>4, Ends, IdleOK
<1>5. CASE ReadPassKey(r)
  <2>1. req[r].pc = "readPassKey" /\ UNCHANGED <<state, user, passkey, announced>>
    BY <1>5 DEF ReadPassKey, keys, past
  <2>2. CASE passkey[t] = req[r].key /\ Goto(r, "readUser")
    <3>1. "readUser" \in Labels
      BY DEF Labels
    <3>2. Progress(t, r) => Progress(t, r)'
      BY <1>3, <2>1, <2>2, <3>1, NullApart DEF Progress, AsAnnounced
    <3> QED BY <1>1, <1>2, <1>3, <2>1, <2>2, <3>1, <3>2, WorkOnCode
  <2>3. CASE Finish(r)
    <3>1. Progress(t, r) => AsAnnounced(t)'
      BY <2>1 DEF Progress, AsAnnounced
    <3> QED BY <1>1, <1>2, <1>4, <2>1, <2>3, <3>1, NullApart, WorkOnCode
  <2> QED BY <1>1, <1>5, <2>2, <2>3 DEF ReadPassKey
<1>6. CASE ReadUser(r)
  <2>1. req[r] \in Request /\ UNCHANGED <<state, user, passkey, announced>>
    BY <1>2, <1>6 DEF ReadUser, keys, past, TypeOK
  <2>2. /\ req'[r].pc = "delUser" /\ req'[r].on = t
        /\ req'[r].user = user[t] /\ req'[r].key = req[r].key
        /\ \A s \in Requests : s # r => req'[s] = req[s]
    BY <1>1, <1>2, <1>6, <2>1 DEF ReadUser, TypeOK, Request
  <2>3. Progress(t, r) => Progress(t, r)'
    BY <1>6, <2>1, <2>2 DEF Progress, ReadUser
  <2> QED BY <1>1, <1>2, <2>1, <2>2, <2>3, WorkOnCode
<1>7. CASE DelUser(r)
  <2>1. /\ Goto(r, "delState") /\ "delState" \in Labels /\ UNCHANGED <<state, passkey, announced>>
        /\ \A x \in Tokens : x # t => user'[x] = user[x]
    BY <1>1, <1>2, <1>7 DEF DelUser, Labels, TypeOK, past
  <2>2. Progress(t, r) => Progress(t, r)'
    BY <1>3, <1>7, <2>1 DEF Progress, DelUser
  <2> QED BY <1>1, <1>2, <1>3, <2>1, <2>2, WorkOnCode
<1>8. CASE DelState(r)
  <2>1. /\ Goto(r, "delPassKey") /\ "delPassKey" \in Labels /\ UNCHANGED <<user, passkey, announced>>
        /\ state'[t] = NULL /\ \A x \in Tokens : x # t => state'[x] = state[x]
    BY <1>1, <1>2, <1>8 DEF DelState, Labels, TypeOK, past
  <2>2. Progress(t, r) => Progress(t, r)'
    BY <1>3, <1>8, <2>1 DEF Progress, DelState
  <2> QED BY <1>1, <1>2, <1>3, <2>1, <2>2, WorkOnCode
<1>9. CASE DelPassKey(r)
  <2>1. /\ req[r].pc = "delPassKey" /\ announced'[t] = NULL /\ UNCHANGED <<state, user>>
        /\ \A x \in Tokens : x # t => passkey'[x] = passkey[x] /\ announced'[x] = announced[x]
    BY <1>1, <1>2, <1>9 DEF DelPassKey, TypeOK
  <2>2. CASE Goto(r, "signIn")
    <3>1. "signIn" \in Labels
      BY DEF Labels
    <3>2. Progress(t, r) => Progress(t, r)'
      BY <1>3, <2>1, <2>2, <3>1 DEF Progress
    <3> QED BY <1>1, <1>2, <1>3, <2>1, <2>2, <3>1, <3>2, WorkOnCode
  <2>3. CASE Finish(r)
    <3>1. Progress(t, r) => AsAnnounced(t)'
      BY <2>1, NullApart DEF Progress, AsAnnounced, States
    <3> QED BY <1>1, <1>2, <1>4, <2>1, <2>3, <3>1, NullApart, WorkOnCode
  <2> QED BY <1>9, <2>2, <2>3 DEF DelPassKey
<1>10. CASE HandleSignIn(r)
  <2>1. req[r].pc = "signIn" /\ Finish(r) /\ UNCHANGED <<state, user, passkey, announced>>
    BY <1>10 DEF HandleSignIn, keys
  <2>2. Progress(t, r) => AsAnnounced(t)'
    BY <2>1, NullApart DEF Progress, AsAnnounced, States
  <2> QED BY <1>1, <1>2, <1>4, <2>1, <2>2, NullApart, WorkOnCode
<1> QED BY <1>5, <1>6, <1>7, <1>8, <1>9, <1>10

\* A code is generated, or a key of it expires.
LEMMA CodeAlone ==
    ASSUME Inv, CodesOK, NEW t \in Tokens,
           GenerateQRCode(t) \/ ExpireState(t) \/ ExpireUser(t) \/ ExpirePassKey(t)
    PROVE  CodesOK'
<1>1. TypeOK /\ UNCHANGED req
  BY DEF Inv, GenerateQRCode, ExpireState, ExpireUser, ExpirePassKey
<1>2. ASSUME NEW x \in Tokens, x # t PROVE CodeOK(x)'
  <2>1. /\ state'[x] = state[x] /\ user'[x] = user[x] /\ passkey'[x] = passkey[x]
        /\ announced'[x] = announced[x] /\ (x \in contended => x \in contended')
    BY <1>1, <1>2 DEF GenerateQRCode, ExpireState, ExpireUser, ExpirePassKey, TypeOK, past
  <2> QED BY <1>1, <2>1, CodeUntouched DEF CodesOK
<1>3. ASSUME t \notin contended' PROVE CodeOK(t)'
  <2>1. Quiet(t) /\ state'[t] \in {"generated", NULL} /\ announced'[t] = NULL
    BY <1>1, <1>3 DEF GenerateQRCode, NewToken, ExpireState, ExpireUser, ExpirePassKey, TypeOK
  <2>2. AsAnnounced(t)'
    BY <2>1, NullApart DEF AsAnnounced, States
  <2> QED BY <1>1, <2>1, <2>2 DEF CodeOK, Alone, Quiet
<1>4. ASSUME t \in contended' PROVE CodeOK(t)'
  BY <1>4 DEF CodeOK
<1> QED BY <1>2, <1>3, <1>4 DEF CodesOK

\* A failure leaves the code of the request contended.
LEMMA FailOnCode ==
    ASSUME Inv, CodesOK, NEW r \in Requests, Fail(r)
    PROVE  CodesOK'
<1>1. /\ UNCHANGED <<state, user, passkey, announced>> /\ TypeOK
      /\ contended' = contended \cup ({req[r].on} \ {NULL}) /\ Finish(r)
  BY DEF Fail, keys, past, Inv
<1>2. req'[r].on = NULL /\ \A s \in Requests : s # r => req'[s] = req[s]
  BY <1>1, Ends, IdleOK
<1>3. ASSUME NEW x \in Tokens PROVE CodeOK(x)'
  <2>1. CASE req[r].on = x
    BY <1>1, <2>1, NullApart DEF CodeOK
  <2>2. CASE req[r].on # x
    BY <1>1, <1>2, <2>2, NullApart, CodeUntouched DEF CodesOK
  <2> QED BY <2>1, <2>2
<1> QED BY <1>3 DEF CodesOK

\* Presence has to do with no code.
LEMMA PresenceOnCodes ==
    ASSUME Inv, CodesOK, UNCHANGED <<keys, announced, contended>>,
           \A s \in Requests : req'[s] = req[s] \/ (req[s].on = NULL /\ req'[s].on = NULL)
    PROVE  CodesOK'
BY NullApart, CodeUntouched DEF CodesOK, keys

LEMMA ListingOnCodes ==
    ASSUME Inv, CodesOK, (\E r \in Requests : Onlines(r)) \/ Tick
    PROVE  CodesOK'
<1>1. UNCHANGED <<keys, announced, contended>>
  BY DEF Onlines, StartOnlines, EndOnlines, Drop, Skip, Tick, past
<1>2. ASSUME NEW s \in Requests, req'[s] # req[s]
      PROVE  req[s].on = NULL /\ req'[s].on = NULL
  <2>1. req[s] \in Request /\ SlotOK(s) /\ TypeOK
    BY DEF Inv, TypeOK
  <2>2. CASE Tick
    <3>1. req[s].listed # NULL /\ req'[s].on = req[s].on
      BY <1>2, <2>1, <2>2 DEF Tick, Request
    <3> QED BY <2>1, <3>1 DEF SlotOK
  <2>3. ASSUME NEW r \in Requests, Onlines(r) PROVE req[s].on = NULL /\ req'[s].on = NULL
    <3>1. s = r
      BY <1>2, <2>1, <2>3 DEF Onlines, StartOnlines, EndOnlines, Drop, Skip, Finish, TypeOK
    <3>2. CASE StartOnlines(r)
      BY <2>1, <3>1, <3>2, IdleOK DEF StartOnlines, SlotOK, TypeOK, Idle
    <3>3. CASE EndOnlines(r)
      BY <2>1, <3>1, <3>3, IdleOK DEF EndOnlines, Finish, SlotOK, TypeOK
    <3>4. ASSUME NEW u \in Users, Drop(r, u) \/ Skip(r, u)
          PROVE  req[s].on = NULL /\ req'[s].on = NULL
      BY <2>1, <3>1, <3>4 DEF Drop, Skip, SlotOK, TypeOK, Request
    <3> QED BY <2>3, <3>2, <3>3, <3>4 DEF Onlines
  <2> QED BY <2>2, <2>3
<1> QED BY <1>1, <1>2, PresenceOnCodes

LEMMA StepCodes == Inv /\ CodesOK /\ [Next]_vars => CodesOK'
<1> SUFFICES ASSUME Inv, CodesOK, [Next]_vars PROVE CodesOK'
  OBVIOUS
<1>1. ASSUME NEW r \in Requests, QRCode(r) PROVE CodesOK'
  BY <1>1, StartsOnCodes, ValidationOnCodes, RetrievalOnCodes DEF QRCode
<1>2. ASSUME NEW u \in Users, Connect(u) \/ Disconnect(u) PROVE CodesOK'
  BY <1>2, PresenceOnCodes DEF Connect, Disconnect, past
<1>3. CASE UNCHANGED vars
  BY <1>3, PresenceOnCodes DEF vars, past
<1> QED BY <1>1, <1>2, <1>3, CodeAlone, FailOnCode, ListingOnCodes DEF Next

LEMMA InitCodes == Init => CodesOK
<1> SUFFICES ASSUME Init, NEW t \in Tokens PROVE CodeOK(t)
  BY DEF CodesOK
<1>1. \A r \in Requests : req[r].on # t
  BY IdleOK, NullApart DEF Init
<1>2. AsAnnounced(t)
  BY NullApart DEF Init, AsAnnounced, States
<1> QED BY <1>1, <1>2 DEF CodeOK, Alone

\* A browser that is told a passkey can sign in with it until somebody does, or the
\* code expires; one that is told nothing has a code that nobody validated.
THEOREM ToldWhatSignsIn == Spec => []CodesAsAnnounced
<1>1. CodesOK => CodesAsAnnounced
  BY DEF CodesOK, CodeOK, AsAnnounced, CodesAsAnnounced
<1> QED BY <1>1, InitCodes, AlwaysInv, StepCodes, PTL DEF Spec

-----------------------------------------------------------------------------
(* The refinement of Codes.  Of a code on which nothing interfered, it     *)
(* needs a third invariant: what happens to it happens for the first time. *)

FirstTime(t) ==
    t \notin contended =>
        /\ state[t] \in {"generated", "pending"} => \A u \in Users : <<t, u>> \notin validated
        /\ (\E k \in PassKeys : <<t, k>> \in spent) => Quiet(t) /\ state[t] = NULL

OnceOK == \A t \in Tokens : FirstTime(t)

\* No validation and no sign-in by t, which nobody takes up once it is gone.
LEMMA FirstTimeKept ==
    ASSUME NEW t \in Tokens, FirstTime(t), t \in contended => t \in contended',
           state'[t] = state[t] \/ state'[t] = NULL,
           \A x : x[1] = t => (x \in validated' => x \in validated) /\ (x \in spent' => x \in spent),
           Quiet(t) /\ state[t] = NULL => Quiet(t)'
    PROVE  FirstTime(t)'
<1> SUFFICES ASSUME t \notin contended' PROVE FirstTime(t)'
  BY DEF FirstTime
<1>1. ASSUME state'[t] \in {"generated", "pending"}, NEW u \in Users PROVE <<t, u>> \notin validated'
  <2>1. state[t] \in {"generated", "pending"}
    BY <1>1, NullApart DEF States
  <2>2. <<t, u>>[1] = t
    OBVIOUS
  <2> QED BY <2>1, <2>2 DEF FirstTime
<1>2. ASSUME NEW k \in PassKeys, <<t, k>> \in spent' PROVE Quiet(t)' /\ state'[t] = NULL
  <2>1. <<t, k>>[1] = t
    OBVIOUS
  <2> QED BY <1>2, <2>1 DEF FirstTime
<1> QED BY <1>1, <1>2 DEF FirstTime

\* A step of r on t: the codes that it does not work on are as they were.
LEMMA OtherCodes ==
    ASSUME OnceOK, NEW r \in Requests, NEW t \in Tokens, req[r].on \in {t, NULL},
           req'[r].on \in {t, NULL}, \A s \in Requests : s # r => req'[s] = req[s],
           \A x \in Tokens \ {t} : /\ state'[x] = state[x]
                                   /\ x \in contended => x \in contended',
           \A x : x[1] # t => (x \in validated' => x \in validated) /\ (x \in spent' => x \in spent)
    PROVE  \A x \in Tokens : x # t => FirstTime(x)'
<1> SUFFICES ASSUME NEW x \in Tokens, x # t PROVE FirstTime(x)'
  OBVIOUS
<1>1. Quiet(x) => Quiet(x)'
  BY NullApart DEF Quiet
<1> QED BY <1>1, FirstTimeKept DEF OnceOK

\* A request at work on t has not let anybody in by t.
LEMMA WorkingFirst ==
    ASSUME OnceOK, NEW r \in Requests, NEW t \in Tokens, req[r].on = t, t \notin contended
    PROVE  \A k \in PassKeys : <<t, k>> \notin spent
BY DEF OnceOK, FirstTime, Quiet

\* A request that takes up t has read a state, and is not about to sign in.
LEMMA StartsAt ==
    ASSUME Inv, NEW r \in Requests, NEW t \in Tokens,
           \/ StartSubscribe(r, t)
           \/ \E u \in Users, k \in PassKeys : StartValidate(r, t, u, k)
           \/ \E k \in PassKeys : StartRetrieve(r, t, k)
    PROVE  /\ state[t] # NULL /\ req[r].pc = "idle" /\ req[r].on = NULL
           /\ UNCHANGED <<state, user, passkey, announced, validated, spent>>
           /\ \E q : StartOn(r, t, q) /\ q.on = t /\ q.pc # "signIn"
<1>1. UNCHANGED <<keys, past>> /\ state[t] \in States /\ req[r].pc = "idle"
  BY DEF StartSubscribe, StartValidate, StartRetrieve, StartOn, States
<1>2. req[r].on = NULL
  BY <1>1 DEF Inv, SlotOK
<1>3. CASE StartSubscribe(r, t)
  <2> DEFINE q == [Idle EXCEPT !.pc = "setPending", !.on = t]
  <2>1. q.pc = "setPending" /\ q.on = t
    BY DEF Idle
  <2>2. StartOn(r, t, q)
    BY <1>3 DEF StartSubscribe
  <2> HIDE DEF q
  <2> QED BY <1>1, <1>2, <2>1, <2>2, NullApart DEF keys, past
<1>4. ASSUME NEW u \in Users, NEW k \in PassKeys, StartValidate(r, t, u, k)
      PROVE  \E q : StartOn(r, t, q) /\ q.on = t /\ q.pc # "signIn"
  <2> DEFINE q == [Idle EXCEPT !.pc = "setValidated", !.on = t, !.user = u, !.key = k]
  <2>1. q.pc = "setValidated" /\ q.on = t
    BY DEF Idle
  <2>2. StartOn(r, t, q)
    BY <1>4 DEF StartValidate
  <2> HIDE DEF q
  <2> QED BY <2>1, <2>2
<1>5. ASSUME NEW k \in PassKeys, StartRetrieve(r, t, k)
      PROVE  \E q : StartOn(r, t, q) /\ q.on = t /\ q.pc # "signIn"
  <2> DEFINE q == [Idle EXCEPT !.pc = "readPassKey", !.on = t, !.key = k]
  <2>1. q.pc = "readPassKey" /\ q.on = t
    BY DEF Idle
  <2>2. StartOn(r, t, q)
    BY <1>5 DEF StartRetrieve
  <2> HIDE DEF q
  <2> QED BY <2>1, <2>2
<1> QED BY <1>1, <1>2, <1>3, <1>4, <1>5, NullApart DEF keys, past

\* What the steps that neither start nor validate nor sign in do to the requests.
LEMMA KeepsOn ==
    ASSUME Inv, NEW r \in Requests,
           \/ SetUser(r) \/ SetPassKey(r) \/ Announce(r) \/ ReadPassKey(r) \/ ReadUser(r)
           \/ DelUser(r) \/ DelState(r) \/ DelPassKey(r) \/ Fail(r) \/ Onlines(r)
    PROVE  \A s \in Requests : req'[s].on \in {req[s].on, NULL}
<1>1. TypeOK /\ req[r] \in Request /\ SlotOK(r)
  BY DEF Inv, TypeOK
<1>2. ASSUME NEW l \in Labels, Goto(r, l) PROVE \A s \in Requests : req'[s].on \in {req[s].on, NULL}
  BY <1>1, <1>2, Continues
<1>3. ASSUME Finish(r) PROVE \A s \in Requests : req'[s].on \in {req[s].on, NULL}
  BY <1>1, <1>3, Ends, IdleOK
<1>4. CASE ReadUser(r)
  BY <1>1, <1>4 DEF ReadUser, TypeOK, Request
<1>5. CASE Onlines(r)
  <2>1. CASE StartOnlines(r)
    BY <1>1, <2>1 DEF StartOnlines, TypeOK, Idle
  <2>2. ASSUME NEW u \in Users, Drop(r, u) \/ Skip(r, u)
        PROVE  \A s \in Requests : req'[s].on \in {req[s].on, NULL}
    BY <1>1, <2>2 DEF Drop, Skip, TypeOK, Request
  <2> QED BY <1>3, <1>5, <2>1, <2>2 DEF Onlines, EndOnlines
<1>6. \A l \in {"setPassKey", "announce", "readUser", "delState", "delPassKey", "signIn"} : l \in Labels
  BY DEF Labels
<1> QED BY <1>2, <1>3, <1>4, <1>5, <1>6 DEF SetUser, SetPassKey, Announce, ReadPassKey, DelUser, DelState,
       DelPassKey, Fail

LEMMA StepOnce == Inv /\ CodesOK /\ OnceOK /\ [Next]_vars => OnceOK'
<1> SUFFICES ASSUME Inv, CodesOK, OnceOK, [Next]_vars PROVE OnceOK'
  OBVIOUS
<1>1. TypeOK
  BY DEF Inv
<1>2. ASSUME NEW r \in Requests, NEW t \in Tokens,
             \/ StartSubscribe(r, t)
             \/ \E u \in Users, k \in PassKeys : StartValidate(r, t, u, k)
             \/ \E k \in PassKeys : StartRetrieve(r, t, k)
      PROVE  OnceOK'
  <2>1. state[t] # NULL /\ req[r].on = NULL /\ UNCHANGED <<state, validated, spent>>
    BY <1>2, StartsAt
  <2>2. PICK q : StartOn(r, t, q) /\ q.on = t
    BY <1>2, StartsAt
  <2>3. req'[r] = q /\ \A s \in Requests : s # r => req'[s] = req[s]
    BY <1>1, <2>2 DEF StartOn, TypeOK
  <2>4. \A x \in Tokens : x \in contended => x \in contended'
    BY <2>2 DEF StartOn
  <2>5. FirstTime(t)'
    BY <2>1, <2>4, FirstTimeKept DEF OnceOK
  <2> QED BY <2>1, <2>2, <2>3, <2>4, <2>5, OtherCodes DEF OnceOK
<1>3. ASSUME NEW r \in Requests, NEW t \in Tokens, req[r].on = t,
             SetPending(r) \/ SetValidated(r) \/ HandleSignIn(r)
      PROVE  OnceOK'
  <2>1. req'[r].on \in {t, NULL} /\ \A s \in Requests : s # r => req'[s] = req[s]
    <3>1. CASE SetValidated(r)
      BY <1>1, <1>3, <3>1, Continues DEF SetValidated, Labels
    <3>2. CASE SetPending(r) \/ HandleSignIn(r)
      BY <1>1, <3>2, Ends, IdleOK DEF SetPending, HandleSignIn
    <3> QED BY <1>3, <3>1, <3>2
  <2>2. /\ \A x \in Tokens \ {t} : state'[x] = state[x]
        /\ contended' = contended
        /\ \A x : x[1] # t => (x \in validated' => x \in validated) /\ (x \in spent' => x \in spent)
    BY <1>1, <1>3 DEF SetPending, SetValidated, HandleSignIn, TypeOK, past, keys
  <2>3. ASSUME t \notin contended PROVE FirstTime(t)'
    <3>1. Progress(t, r) /\ Alone(t) /\ \A k \in PassKeys : <<t, k>> \notin spent
      BY <1>3, <2>3, WorkingFirst DEF CodesOK, CodeOK
    <3>2. CASE SetPending(r)
      <4>1. state[t] = "generated" /\ UNCHANGED <<validated, spent>>
        BY <3>1, <3>2 DEF SetPending, Progress, past
      <4> QED BY <2>3, <3>1, <4>1 DEF OnceOK, FirstTime
    <3>3. CASE SetValidated(r)
      BY <1>1, <1>3, <3>1, <3>3 DEF SetValidated, FirstTime, TypeOK
    <3>4. CASE HandleSignIn(r)
      <4>1. state'[t] = NULL /\ req'[r].on = NULL
        BY <1>1, <3>1, <3>4, Ends, IdleOK DEF HandleSignIn, Progress, keys
      <4>2. Quiet(t)'
        BY <1>3, <2>1, <3>1, <4>1, NullApart DEF Quiet, Alone
      <4> QED BY <4>1, <4>2, NullApart DEF FirstTime, States
    <3> QED BY <1>3, <3>2, <3>3, <3>4
  <2>4. FirstTime(t)'
    BY <2>2, <2>3 DEF FirstTime
  <2> QED BY <1>3, <2>1, <2>2, <2>4, OtherCodes DEF OnceOK
<1>4. ASSUME NEW r \in Requests,
             \/ SetUser(r) \/ SetPassKey(r) \/ Announce(r) \/ ReadPassKey(r) \/ ReadUser(r)
             \/ DelUser(r) \/ DelState(r) \/ DelPassKey(r) \/ Fail(r) \/ Onlines(r)
      PROVE  OnceOK'
  <2> SUFFICES ASSUME NEW t \in Tokens PROVE FirstTime(t)'
    BY DEF OnceOK
  <2>1. UNCHANGED <<validated, spent>> /\ (t \in contended => t \in contended')
    BY <1>4 DEF SetUser, SetPassKey, Announce, ReadPassKey, ReadUser, DelUser, DelState,
       DelPassKey, Fail, Onlines, StartOnlines, EndOnlines, Drop, Skip, past
  <2>2. state'[t] = state[t] \/ state'[t] = NULL
    BY <1>1, <1>4 DEF SetUser, SetPassKey, Announce, ReadPassKey, ReadUser, DelUser, DelState,
       DelPassKey, Fail, Onlines, StartOnlines, EndOnlines, Drop, Skip, keys, TypeOK
  <2>3. \A s \in Requests : req'[s].on \in {req[s].on, NULL}
    BY <1>4, KeepsOn
  <2>4. Quiet(t) => Quiet(t)'
    BY <2>3, NullApart DEF Quiet
  <2> QED BY <2>1, <2>2, <2>4, FirstTimeKept DEF OnceOK
<1>5. ASSUME NEW t \in Tokens, GenerateQRCode(t) PROVE OnceOK'
  <2>1. ASSUME NEW x \in Tokens, x # t PROVE FirstTime(x)'
    <3>1. /\ state'[x] = state[x] /\ UNCHANGED req /\ (x \in contended => x \in contended')
          /\ \A y : (y \in validated' => y \in validated) /\ (y \in spent' => y \in spent)
      BY <1>1, <1>5, <2>1 DEF GenerateQRCode, TypeOK
    <3> QED BY <3>1, FirstTimeKept DEF OnceOK, Quiet
  <2>2. FirstTime(t)'
    <3>1. \A y : <<t, y>> \notin validated' /\ <<t, y>> \notin spent'
      BY <1>5 DEF GenerateQRCode
    <3> QED BY <3>1 DEF FirstTime
  <2> QED BY <2>1, <2>2 DEF OnceOK
<1>6. ASSUME \/ \E t \in Tokens : ExpireState(t) \/ ExpireUser(t) \/ ExpirePassKey(t)
             \/ \E u \in Users : Connect(u) \/ Disconnect(u)
             \/ Tick
             \/ UNCHANGED vars
      PROVE  OnceOK'
  <2> SUFFICES ASSUME NEW x \in Tokens PROVE FirstTime(x)'
    BY DEF OnceOK
  <2>1. /\ UNCHANGED <<validated, spent>> /\ (x \in contended => x \in contended')
        /\ state'[x] = state[x] \/ state'[x] = NULL
    BY <1>1, <1>6 DEF ExpireState, ExpireUser, ExpirePassKey, Connect, Disconnect, Tick, vars, past,
       keys, TypeOK
  <2>2. \A s \in Requests : req'[s].on = req[s].on
    <3>1. ASSUME NEW s \in Requests PROVE req[s] \in Request
      BY DEF Inv, TypeOK
    <3> QED BY <1>6, <3>1 DEF ExpireState, ExpireUser, ExpirePassKey, Connect, Disconnect, Tick, vars,
           Request
  <2>3. Quiet(x) => Quiet(x)'
    BY <2>2 DEF Quiet
  <2> QED BY <2>1, <2>3, FirstTimeKept DEF OnceOK
<1>7. ASSUME NEW r \in Requests, QRCode(r) PROVE OnceOK'
  <2>1. ASSUME SetPending(r) \/ SetValidated(r) \/ HandleSignIn(r) PROVE OnceOK'
    <3>1. req[r].on \in Tokens
      BY <2>1 DEF SetPending, SetValidated, HandleSignIn, Inv, SlotOK
    <3> QED BY <1>3, <2>1, <3>1
  <2> QED BY <1>2, <1>4, <1>7, <2>1 DEF QRCode
<1> QED BY <1>4, <1>5, <1>6, <1>7 DEF Next

\* What Codes sees.
promised == <<Stage, announced, validated, Due, spent, contended>>

Triple(r) == <<req[r].on, req[r].user, req[r].key>>

LEMMA StageTyped ==
    ASSUME TypeOK
    PROVE  Stage \in [Tokens -> Promise!Stages]
BY NullApart DEF TypeOK, Stage, Promise!Stages, States

LEMMA StageStays ==
    ASSUME UNCHANGED <<state, announced>>
    PROVE  Stage' = Stage
BY DEF Stage

\* Only the stage of t changes.
LEMMA StageMoves ==
    ASSUME NEW t \in Tokens,
           \A x \in Tokens \ {t} : state'[x] = state[x] /\ announced'[x] = announced[x]
    PROVE  Stage' = [Stage EXCEPT ![t] = Stage'[t]]
BY DEF Stage

\* What was stage from is stage to, unless t is in doubt.
LEMMA StageGoes ==
    ASSUME TypeOK', NEW t \in Tokens, NEW from, NEW to,
           \A x \in Tokens \ {t} : state'[x] = state[x] /\ announced'[x] = announced[x],
           t \notin contended => Stage[t] = from /\ Stage'[t] = to
    PROVE  Promise!Goes(t, from, to)
<1>1. Stage'[t] \in Promise!Stages
  <2>1. Stage' \in [Tokens -> Promise!Stages]
    BY NullApart DEF TypeOK, Stage, Promise!Stages, States
  <2> QED BY <2>1
<1> QED BY <1>1, StageMoves DEF Promise!Goes

\* No request comes to its sign-in, or ends there.
LEMMA DueStays ==
    ASSUME NEW r \in Requests, \A s \in Requests : s # r => req'[s] = req[s],
           req[r].pc # "signIn", req'[r].pc # "signIn"
    PROVE  Due' = Due
BY DEF Due

LEMMA DueGrows ==
    ASSUME NEW r \in Requests, \A s \in Requests : s # r => req'[s] = req[s],
           req[r].pc # "signIn", req'[r].pc = "signIn"
    PROVE  Due' = Due \cup {Triple(r)'}
BY DEF Due, Triple

LEMMA DueShrinks ==
    ASSUME NEW r \in Requests, \A s \in Requests : s # r => req'[s] = req[s],
           req[r].pc = "signIn", req'[r].pc # "signIn"
    PROVE  /\ Triple(r) \in Due
           /\ Due' = Due \/ Due' = Due \ {Triple(r)}
           /\ (\A s \in Requests : s # r => req[s].on # req[r].on) => Due' = Due \ {Triple(r)}
<1> DEFINE Others == {Triple(s) : s \in {q \in Requests : q # r /\ req[q].pc = "signIn"}}
<1>1. Due = Others \cup {Triple(r)} /\ Due' = Others
  BY DEF Due, Triple
<1>2. ASSUME \A s \in Requests : s # r => req[s].on # req[r].on PROVE Triple(r) \notin Others
  BY <1>2 DEF Triple
<1> HIDE DEF Others
<1> QED BY <1>1, <1>2

\* Requests meet on a code, or a key of it is lost, or a request on it fails.
LEMMA DoubtInCodes ==
    ASSUME NEW t \in Tokens, UNCHANGED <<state, announced, validated, spent>>,
           contended' = contended \cup {t},
           NEW lost \in SUBSET Promise!Of(t, Due), Due' = Due \ lost
    PROVE  Promise!Next
<1>1. Promise!Doubt(t)
  BY StageStays DEF Promise!Doubt
<1> QED BY <1>1 DEF Promise!Next

LEMMA StartInCodes ==
    ASSUME Inv, NEW r \in Requests, NEW t \in Tokens,
           \/ StartSubscribe(r, t)
           \/ \E u \in Users, k \in PassKeys : StartValidate(r, t, u, k)
           \/ \E k \in PassKeys : StartRetrieve(r, t, k)
    PROVE  [Promise!Next]_promised
<1>1. PICK q : StartOn(r, t, q) /\ q.pc # "signIn"
  BY StartsAt
<1>2. req[r].pc = "idle" /\ UNCHANGED <<state, announced, validated, spent>>
  BY StartsAt
<1>3. req'[r] = q /\ \A s \in Requests : s # r => req'[s] = req[s]
  BY <1>1 DEF StartOn, Inv, TypeOK
<1>4. Due' = Due
  BY <1>1, <1>2, <1>3, DueStays
<1>5. CASE contended' = contended
  BY <1>2, <1>4, <1>5, StageStays DEF promised
<1>6. CASE contended' = contended \cup {t}
  <2>1. {} \in SUBSET Promise!Of(t, Due) /\ Due' = Due \ {}
    BY <1>4
  <2> QED BY <1>2, <1>6, <2>1, DoubtInCodes
<1> QED BY <1>1, <1>5, <1>6 DEF StartOn

LEMMA FollowInCodes ==
    ASSUME Inv, Inv', CodesOK, NEW r \in Requests, SetPending(r)
    PROVE  Promise!Next
<1>1. PICK t \in Tokens : req[r].on = t
  BY DEF SetPending, Inv, SlotOK
<1>2. /\ req[r].pc = "setPending" /\ state' = [state EXCEPT ![t] = "pending"]
      /\ UNCHANGED <<announced, validated, spent, contended>> /\ Finish(r)
  BY <1>1 DEF SetPending, past
<1>3. Due' = Due
  BY <1>2, Ends, IdleOK, DueStays DEF Inv
<1>4. ASSUME t \notin contended PROVE Stage[t] = "generated" /\ Stage'[t] = "pending"
  <2>1. state[t] = "generated" /\ announced[t] = NULL
    BY <1>1, <1>2, <1>4 DEF CodesOK, CodeOK, Progress
  <2>2. state'[t] = "pending" /\ announced'[t] = NULL
    BY <1>2, <2>1 DEF Inv, TypeOK
  <2> QED BY <2>1, <2>2 DEF Stage
<1>5. Promise!Goes(t, "generated", "pending")
  BY <1>2, <1>4, StageGoes DEF Inv, TypeOK
<1>6. Promise!Follow(t)
  BY <1>2, <1>3, <1>5 DEF Promise!Follow
<1> QED BY <1>6 DEF Promise!Next

LEMMA ApproveInCodes ==
    ASSUME Inv, Inv', CodesOK, OnceOK, NEW r \in Requests, SetValidated(r)
    PROVE  Promise!Next
<1>1. PICK t \in Tokens, u \in Users : req[r].on = t /\ req[r].user = u
  BY DEF SetValidated, Inv, SlotOK, Drawn
<1>2. /\ req[r].pc = "setValidated" /\ state' = [state EXCEPT ![t] = "validated"]
      /\ validated' = validated \cup {<<t, u>>} /\ Goto(r, "setUser")
      /\ UNCHANGED <<announced, spent, contended>>
  BY <1>1 DEF SetValidated
<1>3. Due' = Due
  BY <1>2, Continues, DueStays DEF Inv, Labels
<1>4. ASSUME t \notin contended
      PROVE  Stage[t] = "pending" /\ Stage'[t] = "approved" /\ Promise!Of(t, validated) = {}
  <2>1. state[t] = "pending" /\ announced[t] = NULL
    BY <1>1, <1>2, <1>4 DEF CodesOK, CodeOK, Progress
  <2>2. state'[t] = "validated" /\ announced'[t] = NULL
    BY <1>2, <2>1 DEF Inv, TypeOK
  <2>3. \A x \in Users : <<t, x>> \notin validated
    BY <1>4, <2>1 DEF OnceOK, FirstTime
  <2>4. Promise!Of(t, validated) = {}
    BY <2>3 DEF Promise!Of, Inv, TypeOK
  <2> QED BY <2>1, <2>2, <2>4 DEF Stage
<1>5. Promise!Goes(t, "pending", "approved")
  BY <1>2, <1>4, StageGoes DEF Inv, TypeOK
<1>6. Promise!Approve(t, u)
  BY <1>2, <1>3, <1>4, <1>5 DEF Promise!Approve
<1> QED BY <1>6 DEF Promise!Next

LEMMA TellInCodes ==
    ASSUME Inv, Inv', CodesOK, NEW r \in Requests, Announce(r)
    PROVE  Promise!Next
<1>1. PICK t \in Tokens, u \in Users, k \in PassKeys :
        req[r].on = t /\ req[r].user = u /\ req[r].key = k
  BY DEF Announce, Inv, SlotOK
<1>2. /\ req[r].pc = "announce" /\ announced' = [announced EXCEPT ![t] = [user |-> u, key |-> k]]
      /\ UNCHANGED <<state, validated, spent, contended>> /\ Finish(r)
  BY <1>1 DEF Announce, keys
<1>3. Due' = Due
  BY <1>2, Ends, IdleOK, DueStays DEF Inv
<1>4. <<t, u>> \in validated
  BY <1>1, <1>2, NullApart DEF Inv, UsersOK, Entitled
<1>5. ASSUME t \notin contended PROVE Stage[t] = "approved" /\ Stage'[t] = "told"
  <2>1. state[t] = "validated" /\ announced[t] = NULL
    BY <1>1, <1>2, <1>5 DEF CodesOK, CodeOK, Progress
  <2>2. announced'[t] = [user |-> u, key |-> k] /\ [user |-> u, key |-> k] \in Grant
    BY <1>2 DEF Inv, TypeOK, Grant
  <2>3. announced'[t] # NULL
    BY <2>2, NullApart
  <2> QED BY <2>1, <2>3 DEF Stage
<1>6. Promise!Goes(t, "approved", "told")
  BY <1>2, <1>5, StageGoes DEF Inv, TypeOK
<1>7. Promise!Tell(t, u, k)
  BY <1>2, <1>3, <1>4, <1>6 DEF Promise!Tell
<1> QED BY <1>7 DEF Promise!Next

\* A key of a code in doubt is deleted by a request that is not about to sign in.
LEMMA MuddleInCodes ==
    ASSUME Inv, Inv', NEW t \in Tokens, t \in contended,
           \A x \in Tokens \ {t} : state'[x] = state[x],
           announced' \in {announced, [announced EXCEPT ![t] = NULL]},
           UNCHANGED <<validated, Due, spent, contended>>
    PROVE  Promise!Next
<1>1. \A x \in Tokens \ {t} : state'[x] = state[x] /\ announced'[x] = announced[x]
  BY DEF Inv, TypeOK
<1>2. Promise!Goes(t, NULL, NULL)
  BY <1>1, StageGoes DEF Inv
<1>3. Promise!Muddle(t)
  BY <1>2 DEF Promise!Muddle
<1> QED BY <1>3 DEF Promise!Next

\* While the browser was told a passkey, the state does not matter.
LEMMA DelStateInCodes ==
    ASSUME Inv, Inv', CodesOK, NEW r \in Requests, DelState(r)
    PROVE  [Promise!Next]_promised
<1>1. PICK t \in Tokens : req[r].on = t
  BY DEF DelState, Inv, SlotOK
<1>2. /\ req[r].pc = "delState" /\ state' = [state EXCEPT ![t] = NULL]
      /\ UNCHANGED <<announced, validated, spent, contended>> /\ Goto(r, "delPassKey")
  BY <1>1 DEF DelState, past
<1>3. Due' = Due
  BY <1>2, Continues, DueStays DEF Inv, Labels
<1>4. \A x \in Tokens \ {t} : state'[x] = state[x]
  BY <1>2 DEF Inv, TypeOK
<1>5. CASE t \in contended
  BY <1>2, <1>3, <1>4, <1>5, MuddleInCodes
<1>6. CASE t \notin contended
  <2>1. announced[t] # NULL
    BY <1>1, <1>2, <1>6 DEF CodesOK, CodeOK, Progress
  <2>2. Stage' = Stage
    BY <1>2, <1>4, <2>1 DEF Stage
  <2> QED BY <1>2, <1>3, <2>2 DEF promised
<1> QED BY <1>5, <1>6

LEMMA TakeInCodes ==
    ASSUME Inv, Inv', CodesOK, NEW r \in Requests, DelPassKey(r)
    PROVE  Promise!Next
<1>1. PICK t \in Tokens, k \in PassKeys : req[r].on = t /\ req[r].key = k
  BY DEF DelPassKey, Inv, SlotOK, Retrieving
<1>2. /\ req[r].pc = "delPassKey" /\ announced' = [announced EXCEPT ![t] = NULL]
      /\ UNCHANGED <<state, validated, spent, contended>>
  BY <1>1 DEF DelPassKey
<1>3. ASSUME t \notin contended
      PROVE  /\ announced[t] # NULL /\ announced[t] = [user |-> req[r].user, key |-> k]
             /\ state[t] = NULL /\ req[r].user \in Users
  <2>1. /\ announced[t] # NULL /\ announced[t] = [user |-> req[r].user, key |-> k]
        /\ state[t] = NULL
    BY <1>1, <1>2, <1>3 DEF CodesOK, CodeOK, Progress
  <2>2. announced[t] \in Grant
    BY <2>1 DEF Inv, TypeOK
  <2>3. announced[t].user \in Users
    BY <2>2 DEF Grant
  <2> QED BY <2>1, <2>3
<1>4. CASE req[r].user = NULL
  <2>1. Finish(r) /\ t \in contended
    BY <1>3, <1>4, NullApart DEF DelPassKey
  <2>2. Due' = Due
    BY <1>2, <2>1, Ends, IdleOK, DueStays DEF Inv
  <2> QED BY <1>2, <2>1, <2>2, MuddleInCodes
<1>5. CASE req[r].user # NULL
  <2>1. PICK u \in Users : req[r].user = u
    BY <1>5 DEF Inv, TypeOK, Request
  <2>2. Goto(r, "signIn") /\ <<t, u>> \in validated
    BY <1>1, <1>2, <1>5, <2>1 DEF DelPassKey, Inv, UsersOK, Entitled
  <2>3. Due' = Due \cup {<<t, u, k>>}
    BY <1>1, <1>2, <2>1, <2>2, Continues, DueGrows DEF Inv, Labels, Triple
  <2>4. ASSUME t \notin contended PROVE Stage[t] = "told" /\ Stage'[t] = NULL
    <3>1. announced'[t] = NULL /\ state'[t] = NULL
      BY <1>2, <1>3, <2>4 DEF Inv, TypeOK
    <3> QED BY <1>3, <2>4, <3>1, NullApart DEF Stage, States
  <2>5. Promise!Goes(t, "told", NULL)
    BY <1>2, <2>4, StageGoes DEF Inv, TypeOK
  <2>6. Promise!Take(t, u, k)
    BY <1>2, <1>3, <2>1, <2>2, <2>3, <2>5 DEF Promise!Take
  <2> QED BY <2>6 DEF Promise!Next
<1> QED BY <1>4, <1>5

LEMMA ComeInInCodes ==
    ASSUME Inv, CodesOK, OnceOK, NEW r \in Requests, HandleSignIn(r)
    PROVE  Promise!Next
<1>1. PICK t \in Tokens, u \in Users, k \in PassKeys :
        req[r].on = t /\ req[r].user = u /\ req[r].key = k
  BY DEF HandleSignIn, Inv, SlotOK, Retrieving
<1>2. /\ req[r].pc = "signIn" /\ spent' = spent \cup {<<t, k>>}
      /\ UNCHANGED <<state, announced, validated, contended>> /\ Finish(r)
  BY <1>1 DEF HandleSignIn, keys
<1>3. Triple(r) = <<t, u, k>>
  BY <1>1 DEF Triple
<1>4. req'[r].pc # "signIn" /\ \A s \in Requests : s # r => req'[s] = req[s]
  BY <1>2, Ends, IdleOK DEF Inv
<1>5. /\ <<t, u, k>> \in Due /\ (Due' = Due \/ Due' = Due \ {<<t, u, k>>})
      /\ (\A s \in Requests : s # r => req[s].on # t) => Due' = Due \ {<<t, u, k>>}
  BY <1>1, <1>2, <1>3, <1>4, DueShrinks
<1>6. ASSUME t \notin contended PROVE Due' = Due \ {<<t, u, k>>} /\ Promise!Of(t, spent) = {}
  <2>1. \A s \in Requests : s # r => req[s].on # t
    BY <1>1, <1>6 DEF CodesOK, CodeOK, Alone
  <2>2. \A x \in PassKeys : <<t, x>> \notin spent
    BY <1>1, <1>6, WorkingFirst
  <2>3. Promise!Of(t, spent) = {}
    BY <2>2 DEF Promise!Of, Inv, TypeOK
  <2> QED BY <1>5, <2>1, <2>3
<1>7. Promise!ComeIn(t, u, k)
  BY <1>2, <1>5, <1>6, StageStays DEF Promise!ComeIn
<1> QED BY <1>7 DEF Promise!Next

LEMMA ShowInCodes ==
    ASSUME Inv, CodesOK, NEW t \in Tokens, GenerateQRCode(t)
    PROVE  Promise!Next
<1>1. /\ state[t] = NULL /\ Quiet(t) /\ UNCHANGED req
      /\ state' = [state EXCEPT ![t] = "generated"] /\ announced' = [announced EXCEPT ![t] = NULL]
      /\ validated' = {v \in validated : v[1] # t} /\ spent' = {x \in spent : x[1] # t}
      /\ contended' = contended \ {t}
  BY DEF GenerateQRCode, NewToken
<1>2. t \in contended \/ Stage[t] = NULL
  <2> SUFFICES ASSUME t \notin contended PROVE Stage[t] = NULL
    OBVIOUS
  <2>1. announced[t] = NULL
    BY <1>1, NullApart DEF CodesOK, CodeOK, AsAnnounced, States
  <2> QED BY <1>1, <2>1, NullApart DEF Stage, States
<1>3. Promise!Of(t, Due) = {}
  BY <1>1 DEF Promise!Of, Due, Quiet
<1>4. Stage' = [Stage EXCEPT ![t] = "generated"]
  <2>1. Stage'[t] = "generated"
    BY <1>1 DEF Stage, Inv, TypeOK
  <2>2. \A x \in Tokens \ {t} : state'[x] = state[x] /\ announced'[x] = announced[x]
    BY <1>1 DEF Inv, TypeOK
  <2> QED BY <2>1, <2>2, StageMoves
<1>5. /\ validated' = validated \ Promise!Of(t, validated)
      /\ spent' = spent \ Promise!Of(t, spent) /\ Due' = Due
  BY <1>1 DEF Promise!Of, Due
<1>6. Promise!Show(t)
  BY <1>1, <1>2, <1>3, <1>4, <1>5 DEF Promise!Show
<1> QED BY <1>6 DEF Promise!Next

LEMMA ExpireInCodes ==
    ASSUME Inv, NEW t \in Tokens, ExpireState(t) \/ ExpireUser(t) \/ ExpirePassKey(t)
    PROVE  Promise!Next
<1>1. UNCHANGED <<req, validated, spent>> /\ Due' = Due
  BY DEF ExpireState, ExpireUser, ExpirePassKey, past, Due
<1>2. CASE ExpireState(t)
  <2>1. /\ state' = [state EXCEPT ![t] = NULL] /\ announced' = [announced EXCEPT ![t] = NULL]
        /\ contended' \in {contended, contended \cup {t}}
    BY <1>2 DEF ExpireState
  <2>2. Stage'[t] = NULL
    BY <2>1, NullApart DEF Stage, Inv, TypeOK, States
  <2>3. Stage' = [Stage EXCEPT ![t] = NULL]
    BY <2>1, <2>2, StageMoves DEF Inv, TypeOK
  <2>4. Promise!End(t)
    BY <1>1, <2>1, <2>3 DEF Promise!End
  <2> QED BY <2>4 DEF Promise!Next
<1>3. CASE ExpireUser(t) \/ ExpirePassKey(t)
  <2>1. UNCHANGED <<state, announced>> /\ contended' = contended \cup {t}
    BY <1>3 DEF ExpireUser, ExpirePassKey, past
  <2>2. {} \in SUBSET Promise!Of(t, Due) /\ Due' = Due \ {}
    BY <1>1
  <2> QED BY <1>1, <2>1, <2>2, DoubtInCodes
<1> QED BY <1>2, <1>3

LEMMA FailInCodes ==
    ASSUME Inv, NEW r \in Requests, Fail(r)
    PROVE  [Promise!Next]_promised
<1>1. /\ Finish(r) /\ UNCHANGED <<state, announced, validated, spent>>
      /\ contended' = contended \cup ({req[r].on} \ {NULL})
  BY DEF Fail, keys, past
<1>2. req'[r].pc # "signIn" /\ \A s \in Requests : s # r => req'[s] = req[s]
  BY <1>1, Ends, IdleOK DEF Inv
<1>3. CASE req[r].on = NULL
  <2>1. req[r].pc # "signIn"
    BY <1>3, NullApart DEF Inv, SlotOK
  <2>2. Due' = Due
    BY <1>2, <2>1, DueStays
  <2> QED BY <1>1, <1>3, <2>2, StageStays DEF promised
<1>4. CASE req[r].on # NULL
  <2>1. PICK t \in Tokens : req[r].on = t
    BY <1>4 DEF Inv, TypeOK, Request
  <2>2. contended' = contended \cup {t}
    BY <1>1, <1>4, <2>1
  <2>3. PICK lost \in {{}, {Triple(r)} \cap Due} : Due' = Due \ lost
    <3>1. CASE req[r].pc = "signIn"
      BY <1>2, <3>1, DueShrinks
    <3>2. CASE req[r].pc # "signIn"
      BY <1>2, <3>2, DueStays
    <3> QED BY <3>1, <3>2
  <2>4. lost \in SUBSET Promise!Of(t, Due)
    BY <2>1, <2>3 DEF Triple, Promise!Of
  <2> QED BY <1>1, <2>1, <2>2, <2>3, <2>4, DoubtInCodes
<1> QED BY <1>3, <1>4

\* The steps that the browser does not see.
LEMMA AsideInCodes ==
    ASSUME Inv, NEW r \in Requests,
           SetUser(r) \/ SetPassKey(r) \/ ReadPassKey(r) \/ ReadUser(r) \/ DelUser(r) \/ Onlines(r)
    PROVE  UNCHANGED promised
<1>1. UNCHANGED <<state, announced, validated, spent, contended>>
  BY DEF SetUser, SetPassKey, ReadPassKey, ReadUser, DelUser, Onlines, StartOnlines, EndOnlines,
     Drop, Skip, keys, past
<1>2. TypeOK /\ req[r] \in Request
  BY DEF Inv, TypeOK
<1>3. ASSUME NEW l \in {"setPassKey", "announce", "readUser", "delState"}, Goto(r, l)
      PROVE  req'[r].pc # "signIn" /\ \A s \in Requests : s # r => req'[s] = req[s]
  BY <1>2, <1>3, Continues DEF Labels
<1>4. ASSUME Finish(r)
      PROVE  req'[r].pc # "signIn" /\ \A s \in Requests : s # r => req'[s] = req[s]
  BY <1>2, <1>4, Ends, IdleOK
<1>5. CASE SetUser(r) \/ SetPassKey(r) \/ ReadPassKey(r) \/ DelUser(r)
  <2>1. req[r].pc # "signIn"
    BY <1>5 DEF SetUser, SetPassKey, ReadPassKey, DelUser
  <2>2. req'[r].pc # "signIn" /\ \A s \in Requests : s # r => req'[s] = req[s]
    BY <1>3, <1>4, <1>5 DEF SetUser, SetPassKey, ReadPassKey, DelUser
  <2> QED BY <1>1, <2>1, <2>2, DueStays, StageStays DEF promised
<1>6. CASE ReadUser(r)
  <2>1. /\ req[r].pc # "signIn" /\ req'[r].pc # "signIn"
        /\ \A s \in Requests : s # r => req'[s] = req[s]
    BY <1>2, <1>6 DEF ReadUser, TypeOK, Request
  <2> QED BY <1>1, <2>1, DueStays, StageStays DEF promised
<1>7. CASE Onlines(r)
  <2>1. CASE StartOnlines(r)
    <3>1. /\ req[r].pc # "signIn" /\ req'[r].pc # "signIn"
          /\ \A s \in Requests : s # r => req'[s] = req[s]
      BY <1>2, <2>1 DEF StartOnlines, TypeOK, Idle
    <3> QED BY <1>1, <3>1, DueStays, StageStays DEF promised
  <2>2. CASE EndOnlines(r)
    <3>1. req[r].pc # "signIn"
      BY <2>2 DEF EndOnlines
    <3> QED BY <1>1, <1>4, <2>2, <3>1, DueStays, StageStays DEF promised, EndOnlines
  <2>3. ASSUME NEW u \in Users, Drop(r, u) \/ Skip(r, u) PROVE UNCHANGED promised
    <3>1. /\ req[r].pc # "signIn" /\ req'[r].pc # "signIn"
          /\ \A s \in Requests : s # r => req'[s] = req[s]
      BY <1>2, <2>3 DEF Drop, Skip, TypeOK, Request
    <3> QED BY <1>1, <3>1, DueStays, StageStays DEF promised
  <2> QED BY <1>7, <2>1, <2>2, <2>3 DEF Onlines
<1> QED BY <1>5, <1>6, <1>7

LEMMA StepInCodes ==
    Inv /\ Inv' /\ CodesOK /\ OnceOK /\ [Next]_vars => [Promise!Next]_promised
<1> SUFFICES ASSUME Inv, Inv', CodesOK, OnceOK, [Next]_vars PROVE [Promise!Next]_promised
  OBVIOUS
<1>1. ASSUME NEW r \in Requests, QRCode(r) PROVE [Promise!Next]_promised
  BY <1>1, StartInCodes, FollowInCodes, ApproveInCodes, TellInCodes, DelStateInCodes, TakeInCodes,
     ComeInInCodes, AsideInCodes DEF QRCode
<1>2. ASSUME NEW r \in Requests, Onlines(r) PROVE [Promise!Next]_promised
  BY <1>2, AsideInCodes
<1>3. ASSUME NEW u \in Users, Connect(u) \/ Disconnect(u) PROVE UNCHANGED promised
  BY <1>3 DEF Connect, Disconnect, ComeOnline, keys, past, promised, Stage, Due
<1>4. CASE Tick
  <2>1. \A s \in Requests : /\ req'[s].pc = req[s].pc /\ req'[s].on = req[s].on
                            /\ req'[s].user = req[s].user /\ req'[s].key = req[s].key
    <3>1. \A s \in Requests : req[s] \in Request
      BY DEF Inv, TypeOK
    <3> QED BY <1>4, <3>1 DEF Tick, Request
  <2>2. Due' = Due
    BY <2>1 DEF Due
  <2> QED BY <1>4, <2>2, StageStays DEF Tick, keys, past, promised
<1>5. CASE UNCHANGED vars
  BY <1>5 DEF vars, keys, past, promised, Stage, Due
<1> QED BY <1>1, <1>2, <1>3, <1>4, <1>5, ShowInCodes, ExpireInCodes, FailInCodes DEF Next

\* A QR code lets in the user its browser was told, with the passkey it was told and
\* once, unless something interfered with it; and never somebody who has not approved
\* it: each redis command is one step of Codes or none.
THEOREM ImplementsPromise == Spec => ImplementsCodes
<1>1. Init => OnceOK /\ Promise!Init
  BY IdleOK, NullApart DEF Init, OnceOK, FirstTime, Promise!Init, Stage, Due, States
<1>2. Inv /\ Inv' /\ CodesOK /\ OnceOK /\ [Next]_vars => [Promise!Next]_Promise!vars
  BY StepInCodes DEF promised, Promise!vars
<1> QED BY <1>1, <1>2, InitCodes, AlwaysInv, StepCodes, StepOnce, PTL
        DEF Spec, ImplementsCodes, Promise!Spec


-----------------------------------------------------------------------------
(* Accounts: the invariants of Credentials, for any number of accounts,    *)
(* mailed tokens and concurrent requests.  What the user is sure of is so  *)
(* in the row, or a request is about to tell or lose it; and a request     *)
(* that met no other one of its kind finds in the row what it left there.  *)

CONSTANTS Active, Addresses, Passwords, Secrets, MailTokens
VARIABLES users, tokens, former, job, knows

\* The accounts, and the mailed tokens that reset their passwords.
A == INSTANCE Credentials WITH Tokens <- MailTokens, req <- job

\* The locals that are set at each label.
Located(q) ==
    /\ q.pc \in {"idle", "insert"} <=> q.user = NULL
    /\ q.pc \in {"idle", "insert", "createToken"} <=> q.aspect = NULL
    /\ q.pc = "insert" => /\ q.email \in A!Emails /\ q.email = A!lower(q.email)
                          /\ q.password \in Passwords
    /\ q.pc = "savePassword" => q.aspect = "password"
    /\ q.pc = "saveEmail" => q.aspect = "email"
    /\ q.pc \in {"saveSecret", "rollSecret", "findFlag", "saveFlag"} => q.aspect = "secret"
    /\ q.pc = "rollSecret" => ~ q.on
    /\ q.aspect = "password" => q.password \in Passwords
    /\ q.aspect = "email" => q.email \in A!Emails

\* What the row is when q, which met no other one, is at each label.
Agrees(row, q) ==
    ~ q.met =>
        /\ q.pc = "saveEmail" => row.email = q.wasEmail
        /\ q.pc = "saveFlag" => row.totp = q.was
        /\ q.pc \in {"findFlag", "saveFlag"} => (q.on => row.secret = q.secret)
        /\ q.pc = "answer" =>
              /\ q.aspect = "email" => row.email = q.email
              /\ q.aspect = "password" => row.password = q.password
              /\ q.aspect = "secret" => (row.totp => row.secret = q.secret)

\* A request has changed this of u, or begun to, and will tell it or lose it.
Changing(u, aspect, labels) ==
    \E r \in Requests : A!WorksOn(r, u, aspect) /\ job[r].pc \in labels

SureEmail(u) ==
    \/ knows[u].email = "unsure"
    \/ users[u].email = A!lower(<<knows[u].email, "mixed">>)
    \/ Changing(u, "email", {"answer"})
SurePassword(u) ==
    \/ knows[u].password = "unsure"
    \/ users[u].password = knows[u].password
    \/ Changing(u, "password", {"answer"})
SureSecret(u) ==
    \/ knows[u].secret = "unsure"
    \/ users[u].totp => users[u].secret = knows[u].secret
    \/ Changing(u, "secret", {"findFlag", "saveFlag", "answer"})

RowOK(r) ==
    /\ Located(job[r])
    /\ job[r].user # NULL => A!Stored(job[r].user) /\ Agrees(users[job[r].user], job[r])

RowsOK == \A r \in Requests : RowOK(r)

\* Those that change the same of an account have met.
Met ==
    \A r, s \in Requests :
        r # s /\ job[r].aspect # NULL /\ A!WorksOn(s, job[r].user, job[r].aspect) => job[r].met

\* The unique index.
OneAccountPerEmail ==
    \A u, v \in Users : A!Stored(u) /\ A!Stored(v) /\ users[u].email = users[v].email => u = v

KnownOK ==
    \A u \in Users : /\ ~ A!Stored(u) => knows[u] = A!Nothing
                     /\ SureEmail(u) /\ SurePassword(u) /\ SureSecret(u)

AccountsOK == A!TypeOK /\ RowsOK /\ Met /\ OneAccountPerEmail /\ KnownOK

\* What a step of r does to the slots.
LEMMA SlotSet ==
    ASSUME A!TypeOK, NEW r \in Requests, NEW q \in A!Request, job' = [job EXCEPT ![r] = q]
    PROVE  /\ job' \in [Requests -> A!Request] /\ job'[r] = q
           /\ \A s \in Requests : s # r => job'[s] = job[s]
BY DEF A!TypeOK

LEMMA IdleSlot ==
    ASSUME A!CredentialsAssumption
    PROVE  /\ A!Idle \in A!Request /\ Located(A!Idle) /\ A!Idle.pc = "idle" /\ A!Idle.user = NULL
           /\ A!Idle.aspect = NULL /\ A!Idle.met = FALSE
BY DEF A!Aspects, A!Idle, A!Request, A!Labels, Located

\* The requests of other slots go on as they were.
LEMMA OthersGoOn ==
    ASSUME NEW r \in Requests, \A s \in Requests : s # r => job'[s] = job[s],
           NEW u \in Users, NEW a, NEW labels, ~ A!WorksOn(r, u, a) \/ job[r].pc \notin labels,
           Changing(u, a, labels)
    PROVE  Changing(u, a, labels)'
BY DEF Changing, A!WorksOn

\* Requests that have to do with no part of the credentials.
LEMMA AsideKeeps ==
    ASSUME A!CredentialsAssumption, AccountsOK, NEW r \in Requests, NEW q \in A!Request,
           UNCHANGED <<users, former, knows>>, tokens' \in [MailTokens -> A!Token \cup {NULL}],
           job' = [job EXCEPT ![r] = q], job[r].aspect = NULL, q.aspect = NULL,
           Located(q), q.user # NULL => A!Stored(q.user)
    PROVE  AccountsOK'
<1>1. job' \in [Requests -> A!Request] /\ job'[r] = q /\ \A s \in Requests : s # r => job'[s] = job[s]
  BY SlotSet DEF AccountsOK
<1>2. A!TypeOK'
  BY <1>1 DEF AccountsOK, A!TypeOK
<1>3. RowsOK'
  BY <1>1 DEF AccountsOK, RowsOK, RowOK, A!Stored, Located, Agrees
<1>4. Met' /\ OneAccountPerEmail'
  BY <1>1 DEF AccountsOK, Met, A!WorksOn, OneAccountPerEmail, A!Stored
<1>5. KnownOK'
  <2>1. \A u \in Users, a \in A!Aspects : ~ A!WorksOn(r, u, a)
    BY A!CredentialsAssumption DEF A!WorksOn
  <2>2. ASSUME NEW u \in Users, NEW a \in A!Aspects, NEW labels, Changing(u, a, labels)
        PROVE  Changing(u, a, labels)'
    BY <1>1, <2>1, <2>2, OthersGoOn
  <2>3. ASSUME NEW u \in Users PROVE SureEmail(u)' /\ SurePassword(u)' /\ SureSecret(u)'
    BY <2>2, <2>3 DEF AccountsOK, KnownOK, SureEmail, SurePassword, SureSecret, A!Aspects
  <2> QED BY <2>3 DEF AccountsOK, KnownOK, A!Stored
<1> QED BY <1>2, <1>3, <1>4, <1>5 DEF AccountsOK

\* A request starts to change something of an account: it meets the others that do.
LEMMA TakeKeeps ==
    ASSUME A!CredentialsAssumption, AccountsOK, NEW r \in Requests, NEW q \in A!Request,
           UNCHANGED <<users, tokens, former, knows>>, job[r] = A!Idle, A!Take(r, q),
           q.user \in Users, q.aspect \in A!Aspects, A!Stored(q.user), Located(q), q.met = FALSE,
           Agrees(users[q.user], q), q.pc # "answer"
    PROVE  AccountsOK'
<1> DEFINE others == {s \in Requests \ {r} : A!WorksOn(s, q.user, q.aspect)}
<1>1. /\ job'[r] = [q EXCEPT !.met = others # {}]
      /\ \A s \in others : job'[s] = [job[s] EXCEPT !.met = TRUE]
      /\ \A s \in Requests : s # r /\ s \notin others => job'[s] = job[s]
      /\ job' = [s \in Requests |-> job'[s]]
  BY DEF A!Take
<1>2. \A s \in Requests : job[s] \in A!Request
  BY DEF AccountsOK, A!TypeOK
<1>3. /\ job'[r] \in A!Request /\ job'[r].met = (others # {})
      /\ job'[r].user = q.user /\ job'[r].aspect = q.aspect /\ job'[r].pc = q.pc
      /\ job'[r].email = q.email /\ job'[r].password = q.password /\ job'[r].secret = q.secret
      /\ job'[r].wasEmail = q.wasEmail /\ job'[r].on = q.on /\ job'[r].was = q.was
  BY <1>1 DEF A!Request
<1>4. ASSUME NEW s \in Requests, s # r
      PROVE  /\ job'[s] \in A!Request /\ (job[s].met => job'[s].met) /\ (s \in others => job'[s].met)
             /\ job'[s].user = job[s].user /\ job'[s].aspect = job[s].aspect
             /\ job'[s].pc = job[s].pc /\ job'[s].email = job[s].email
             /\ job'[s].password = job[s].password /\ job'[s].secret = job[s].secret
             /\ job'[s].wasEmail = job[s].wasEmail /\ job'[s].on = job[s].on
             /\ job'[s].was = job[s].was
  <2>1. CASE s \in others
    <3>1. job[s] \in A!Request /\ job'[s] = [job[s] EXCEPT !.met = TRUE]
      BY <1>1, <1>2, <2>1
    <3> HIDE DEF others
    <3> QED BY <3>1 DEF A!Request
  <2>2. CASE s \notin others
    BY <1>1, <1>2, <1>4, <2>2
  <2> QED BY <2>1, <2>2
<1>5. A!TypeOK'
  <2>1. \A s \in Requests : job'[s] \in A!Request
    BY <1>3, <1>4
  <2> QED BY <1>1, <2>1 DEF AccountsOK, A!TypeOK
<1>6. RowsOK'
  <2>1. RowOK(r)'
    BY <1>3 DEF RowOK, A!Stored, Located, Agrees
  <2>2. ASSUME NEW s \in Requests, s # r PROVE RowOK(s)'
    BY <1>4, <2>2 DEF AccountsOK, RowsOK, RowOK, A!Stored, Located, Agrees
  <2> QED BY <2>1, <2>2 DEF RowsOK
<1>7. Met'
  <2> SUFFICES ASSUME NEW x \in Requests, NEW y \in Requests, x # y, job'[x].aspect # NULL,
                      A!WorksOn(y, job[x].user, job[x].aspect)'
               PROVE  job'[x].met
    BY Zenon DEF Met
  <2>1. job'[y].user = job'[x].user /\ job'[y].aspect = job'[x].aspect
    BY DEF A!WorksOn
  <2>2. CASE x = r
    <3>1. y \in others
      BY <1>3, <1>4, <2>1, <2>2 DEF A!WorksOn
    <3> HIDE DEF others
    <3> QED BY <1>3, <2>2, <3>1
  <2>3. CASE y = r
    <3>1. x \in others
      BY <1>3, <1>4, <2>1, <2>3 DEF A!WorksOn
    <3> QED BY <1>4, <2>3, <3>1
  <2>4. CASE x # r /\ y # r
    BY <1>4, <2>1, <2>4 DEF AccountsOK, Met, A!WorksOn
  <2> QED BY <2>2, <2>3, <2>4
<1>8. OneAccountPerEmail'
  BY DEF AccountsOK, OneAccountPerEmail, A!Stored
<1>9. KnownOK'
  <2>1. ASSUME NEW u \in Users, NEW a \in A!Aspects, NEW labels, Changing(u, a, labels)
        PROVE  Changing(u, a, labels)'
    <3>1. PICK s \in Requests : A!WorksOn(s, u, a) /\ job[s].pc \in labels
      BY <2>1 DEF Changing
    <3>2. s # r
      BY <3>1, IdleSlot, A!CredentialsAssumption DEF A!WorksOn
    <3> QED BY <1>4, <3>1, <3>2 DEF Changing, A!WorksOn
  <2>2. ASSUME NEW u \in Users PROVE SureEmail(u)' /\ SurePassword(u)' /\ SureSecret(u)'
    BY <2>1, <2>2 DEF AccountsOK, KnownOK, SureEmail, SurePassword, SureSecret, A!Aspects
  <2> QED BY <2>2 DEF AccountsOK, KnownOK, A!Stored
<1> QED BY <1>5, <1>6, <1>7, <1>8, <1>9 DEF AccountsOK

\* A request writes its part of the row, or nothing, and goes on.
LEMMA WriteKeeps ==
    ASSUME A!CredentialsAssumption, AccountsOK, NEW r \in Requests, NEW u \in Users,
           NEW a \in A!Aspects, A!WorksOn(r, u, a), NEW q \in A!Request, NEW row \in A!User,
           job' = [job EXCEPT ![r] = q], users' = [users EXCEPT ![u] = row],
           UNCHANGED <<tokens, knows>>, former' \in [Users -> A!Emails \cup {NULL}],
           q.user = u, q.aspect = a, q.met = job[r].met, Located(q), Agrees(row, q),
           a = "email" => ~ A!Taken(row.email, u) \/ row.email = users[u].email,
           a # "email" => row.email = users[u].email,
           a # "password" => row.password = users[u].password,
           a # "secret" => row.totp = users[u].totp /\ row.secret = users[u].secret,
           q.pc = "answer" \/ (a = "secret" /\ q.pc \in {"findFlag", "saveFlag"})
    PROVE  AccountsOK'
<1>1. job' \in [Requests -> A!Request] /\ job'[r] = q /\ \A s \in Requests : s # r => job'[s] = job[s]
  BY SlotSet DEF AccountsOK
<1>2. /\ users' \in [Users -> A!User \cup {NULL}] /\ users'[u] = row
      /\ \A v \in Users : v # u => users'[v] = users[v]
      /\ row # NULL /\ A!Stored(u)
  <2>1. u # NULL /\ row # NULL
    BY A!CredentialsAssumption
  <2> QED BY <2>1 DEF AccountsOK, A!TypeOK, RowsOK, RowOK, A!WorksOn
<1>3. A!TypeOK'
  BY <1>1, <1>2 DEF AccountsOK, A!TypeOK
<1>4. RowsOK'
  <2>1. ASSUME NEW s \in Requests, s # r PROVE RowOK(s)'
    <3>1. RowOK(s) /\ job'[s] = job[s] /\ job[s] \in A!Request
      BY <1>1, <2>1 DEF AccountsOK, RowsOK, A!TypeOK
    <3>2. CASE job[s].user # u
      BY <1>2, <3>1, <3>2 DEF RowOK, A!Stored, A!Request, Located, Agrees
    <3>3. CASE job[s].user = u /\ job[s].aspect = a
      <4>1. job[s].met
        BY <2>1, <3>3, A!CredentialsAssumption DEF AccountsOK, Met, A!WorksOn
      <4> QED BY <1>2, <3>1, <3>3, <4>1 DEF RowOK, Agrees, A!Stored, Located
    <3>4. CASE job[s].user = u /\ job[s].aspect # a
      BY <1>2, <3>1, <3>4 DEF RowOK, Agrees, A!Stored, Located, A!Aspects
    <3> QED BY <3>2, <3>3, <3>4
  <2>2. RowOK(r)'
    BY <1>1, <1>2 DEF RowOK, A!Stored, Located, Agrees
  <2> QED BY <2>1, <2>2 DEF RowsOK
<1>5. Met'
  BY <1>1 DEF AccountsOK, Met, A!WorksOn
<1>6. OneAccountPerEmail'
  BY <1>2 DEF AccountsOK, OneAccountPerEmail, A!Stored, A!Taken
<1>7. ASSUME NEW v \in Users PROVE SureEmail(v)' /\ SurePassword(v)' /\ SureSecret(v)'
  <2>1. SureEmail(v) /\ SurePassword(v) /\ SureSecret(v)
    BY DEF AccountsOK, KnownOK
  <2>2. ASSUME NEW b \in A!Aspects, NEW labels, v # u \/ b # a, Changing(v, b, labels)
        PROVE  Changing(v, b, labels)'
    BY <1>1, <2>2, OthersGoOn DEF A!WorksOn
  <2>3. v # u => users'[v] = users[v]
    BY <1>2
  <2>4. SureEmail(v)'
    <3>1. CASE v = u /\ a = "email"
      BY <1>1, <3>1 DEF SureEmail, Changing, A!WorksOn
    <3>2. CASE v # u \/ a # "email"
      BY <1>2, <2>1, <2>2, <3>2 DEF SureEmail, A!Aspects
    <3> QED BY <3>1, <3>2
  <2>5. SurePassword(v)'
    <3>1. CASE v = u /\ a = "password"
      BY <1>1, <3>1 DEF SurePassword, Changing, A!WorksOn
    <3>2. CASE v # u \/ a # "password"
      BY <1>2, <2>1, <2>2, <3>2 DEF SurePassword, A!Aspects
    <3> QED BY <3>1, <3>2
  <2>6. SureSecret(v)'
    <3>1. CASE v = u /\ a = "secret"
      BY <1>1, <3>1 DEF SureSecret, Changing, A!WorksOn
    <3>2. CASE v # u \/ a # "secret"
      BY <1>2, <2>1, <2>2, <3>2 DEF SureSecret, A!Aspects
    <3> QED BY <3>1, <3>2
  <2> QED BY <2>4, <2>5, <2>6
<1>8. KnownOK'
  BY <1>2, <1>7 DEF AccountsOK, KnownOK, A!Stored
<1> QED BY <1>3, <1>4, <1>5, <1>6, <1>8 DEF AccountsOK

\* A request ends, or none does; what the users are sure of afterwards is so in the
\* rows, or they were sure of it before and nobody who would tell or lose it has ended.
LEMMA TellKeeps ==
    ASSUME A!CredentialsAssumption, AccountsOK, NEW r \in Requests,
           job' = job \/ A!Finish(r), UNCHANGED <<users, tokens, former>>,
           knows' \in [Users -> A!Known],
           \A u \in Users :
               /\ ~ A!Stored(u) => knows'[u] = knows[u]
               /\ \/ knows'[u].email = "unsure"
                  \/ users[u].email = A!lower(<<knows'[u].email, "mixed">>)
                  \/ /\ knows'[u].email = knows[u].email
                     /\ job' = job \/ ~ A!WorksOn(r, u, "email") \/ job[r].pc # "answer"
               /\ \/ knows'[u].password = "unsure"
                  \/ users[u].password = knows'[u].password
                  \/ /\ knows'[u].password = knows[u].password
                     /\ job' = job \/ ~ A!WorksOn(r, u, "password")
               /\ \/ knows'[u].secret = "unsure"
                  \/ users[u].totp => users[u].secret = knows'[u].secret
                  \/ /\ knows'[u].secret = knows[u].secret
                     /\ job' = job \/ ~ A!WorksOn(r, u, "secret")
    PROVE  AccountsOK'
<1>1. /\ job' \in [Requests -> A!Request] /\ (job'[r] = job[r] \/ job'[r] = A!Idle)
      /\ \A s \in Requests : s # r => job'[s] = job[s]
  BY IdleSlot DEF A!Finish, AccountsOK, A!TypeOK
<1>2. A!TypeOK'
  BY <1>1 DEF AccountsOK, A!TypeOK
<1>3. RowsOK'
  <2>1. ASSUME NEW s \in Requests PROVE RowOK(s)'
    <3>1. CASE job'[s] = job[s]
      BY <3>1 DEF AccountsOK, RowsOK, RowOK, A!Stored, Located, Agrees
    <3>2. CASE job'[s] = A!Idle
      BY <3>2, IdleSlot DEF RowOK, A!Stored, Located, Agrees
    <3> QED BY <1>1, <3>1, <3>2
  <2> QED BY <2>1 DEF RowsOK
<1>4. Met'
  <2>1. \A s \in Requests : job'[s] = job[s] \/ job'[s].aspect = NULL
    BY <1>1, IdleSlot
  <2> QED BY <2>1 DEF AccountsOK, Met, A!WorksOn
<1>5. OneAccountPerEmail'
  BY DEF AccountsOK, OneAccountPerEmail, A!Stored
<1>6. ASSUME NEW u \in Users, NEW a \in A!Aspects, NEW labels, Changing(u, a, labels),
             job' = job \/ ~ A!WorksOn(r, u, a) \/ job[r].pc \notin labels
      PROVE  Changing(u, a, labels)'
  <2>1. CASE job' = job
    BY <1>6, <2>1 DEF Changing, A!WorksOn
  <2>2. CASE ~ A!WorksOn(r, u, a) \/ job[r].pc \notin labels
    BY <1>1, <1>6, <2>2, OthersGoOn
  <2> QED BY <1>6, <2>1, <2>2
<1>7. ASSUME NEW u \in Users PROVE SureEmail(u)' /\ SurePassword(u)' /\ SureSecret(u)'
  <2>1. SureEmail(u) /\ SurePassword(u) /\ SureSecret(u) /\ users' = users
    BY DEF AccountsOK, KnownOK
  <2>2. SureEmail(u)'
    <3>1. CASE /\ knows'[u].email = knows[u].email
               /\ job' = job \/ ~ A!WorksOn(r, u, "email") \/ job[r].pc # "answer"
      <4>1. Changing(u, "email", {"answer"}) => Changing(u, "email", {"answer"})'
        BY <1>6, <3>1 DEF A!Aspects
      <4> QED BY <2>1, <3>1, <4>1 DEF SureEmail
    <3> QED BY <2>1, <3>1 DEF SureEmail
  <2>3. SurePassword(u)'
    <3>1. CASE /\ knows'[u].password = knows[u].password
               /\ job' = job \/ ~ A!WorksOn(r, u, "password")
      <4>1. Changing(u, "password", {"answer"}) => Changing(u, "password", {"answer"})'
        BY <1>6, <3>1 DEF A!Aspects
      <4> QED BY <2>1, <3>1, <4>1 DEF SurePassword
    <3> QED BY <2>1, <3>1 DEF SurePassword
  <2>4. SureSecret(u)'
    <3> DEFINE labels == {"findFlag", "saveFlag", "answer"}
    <3>1. CASE /\ knows'[u].secret = knows[u].secret
               /\ job' = job \/ ~ A!WorksOn(r, u, "secret")
      <4>1. Changing(u, "secret", labels) => Changing(u, "secret", labels)'
        BY <1>6, <3>1 DEF A!Aspects
      <4> QED BY <2>1, <3>1, <4>1 DEF SureSecret
    <3> QED BY <2>1, <3>1 DEF SureSecret
  <2> QED BY <2>2, <2>3, <2>4
<1>8. KnownOK'
  BY <1>7 DEF AccountsOK, KnownOK, A!Stored
<1> QED BY <1>2, <1>3, <1>4, <1>5, <1>8 DEF AccountsOK

\* What is lost is "unsure" from now on, and nothing else is.
LEMMA LoseEffect ==
    ASSUME A!TypeOK, NEW some, NEW a \in A!Aspects
    PROVE  /\ A!Lose(some, a) \in [Users -> A!Known]
           /\ \A v \in Users \ some : A!Lose(some, a)[v] = knows[v]
           /\ \A v \in Users \cap some :
                 /\ A!Lose(some, a)[v].email = IF a = "email" THEN "unsure" ELSE knows[v].email
                 /\ A!Lose(some, a)[v].password =
                       IF a = "password" THEN "unsure" ELSE knows[v].password
                 /\ A!Lose(some, a)[v].secret = IF a = "secret" THEN "unsure" ELSE knows[v].secret
           /\ \A v \in Users : knows[v] = A!Nothing => A!Lose(some, a)[v] = A!Nothing
<1> DEFINE lost(v) == [email |-> IF a = "email" THEN "unsure" ELSE knows[v].email,
                       password |-> IF a = "password" THEN "unsure" ELSE knows[v].password,
                       secret |-> IF a = "secret" THEN "unsure" ELSE knows[v].secret]
<1>1. \A v \in Users : knows[v] \in A!Known
  BY DEF A!TypeOK
<1>2. \A v \in Users : lost(v) \in A!Known
  BY <1>1 DEF A!Known
<1>3. A!Lose(some, a) = [v \in Users |-> IF v \notin some THEN knows[v] ELSE lost(v)]
  BY DEF A!Lose
<1>4. \A v \in Users : knows[v] = A!Nothing => lost(v) = A!Nothing
  BY DEF A!Nothing
<1> QED BY <1>1, <1>2, <1>3, <1>4

\* A request ends, or none does, and whoever it worked for is sure no more.
LEMMA LoseKeeps ==
    ASSUME A!CredentialsAssumption, AccountsOK, NEW r \in Requests, NEW some, NEW a \in A!Aspects,
           job' = job \/ A!Finish(r), UNCHANGED <<users, tokens, former>>,
           knows' = A!Lose(some, a),
           job' = job \/ \A u \in Users, b \in A!Aspects : A!WorksOn(r, u, b) => u \in some /\ b = a
    PROVE  AccountsOK'
<1>1. /\ knows' \in [Users -> A!Known]
      /\ \A v \in Users \ some : knows'[v] = knows[v]
      /\ \A v \in Users \cap some :
            /\ knows'[v].email = IF a = "email" THEN "unsure" ELSE knows[v].email
            /\ knows'[v].password = IF a = "password" THEN "unsure" ELSE knows[v].password
            /\ knows'[v].secret = IF a = "secret" THEN "unsure" ELSE knows[v].secret
      /\ \A v \in Users : knows[v] = A!Nothing => knows'[v] = A!Nothing
  BY LoseEffect DEF AccountsOK
<1>2. ASSUME NEW v \in Users
      PROVE  /\ ~ A!Stored(v) => knows'[v] = knows[v]
             /\ \/ knows'[v].email = "unsure"
                \/ /\ knows'[v].email = knows[v].email
                   /\ job' = job \/ ~ A!WorksOn(r, v, "email")
             /\ \/ knows'[v].password = "unsure"
                \/ /\ knows'[v].password = knows[v].password
                   /\ job' = job \/ ~ A!WorksOn(r, v, "password")
             /\ \/ knows'[v].secret = "unsure"
                \/ /\ knows'[v].secret = knows[v].secret
                   /\ job' = job \/ ~ A!WorksOn(r, v, "secret")
  <2>1. ~ A!Stored(v) => knows'[v] = knows[v]
    BY <1>1 DEF AccountsOK, KnownOK
  <2>2. CASE v \in some
    BY <1>1, <2>1, <2>2 DEF A!Aspects
  <2>3. CASE v \notin some
    BY <1>1, <2>1, <2>3 DEF A!Aspects
  <2> QED BY <2>2, <2>3
<1> QED BY <1>1, <1>2, TellKeeps

\* An account is made: nobody is at work on it, and its user knows all of it.
LEMMA InsertKeeps ==
    ASSUME A!CredentialsAssumption, AccountsOK, NEW r \in Requests, NEW u \in Users, A!Insert(r, u)
    PROVE  AccountsOK'
<1>1. PICK q \in A!Request : q = job[r]
  BY DEF AccountsOK, A!TypeOK
<1>2. /\ q.pc = "insert" /\ ~ A!Stored(u) /\ UNCHANGED <<tokens, former>>
      /\ q.email \in A!Emails /\ q.password \in Passwords /\ q.email = <<q.email[1], "lower">>
      /\ q.user = NULL /\ q.aspect = NULL
  BY <1>1 DEF A!Insert, A!NewUser, AccountsOK, RowsOK, RowOK, Located, A!lower
<1>3. CASE A!Taken(q.email, u)
  <2>1. A!Finish(r) /\ UNCHANGED <<users, knows>>
    BY <1>1, <1>3 DEF A!Insert
  <2>2. \A v \in Users, a \in A!Aspects : ~ A!WorksOn(r, v, a)
    BY <1>1, <1>2, A!CredentialsAssumption DEF A!WorksOn
  <2> QED BY <1>2, <2>1, <2>2, TellKeeps DEF AccountsOK, A!TypeOK, A!Aspects
<1>4. CASE ~ A!Taken(q.email, u)
  <2> DEFINE row == [email |-> q.email, password |-> q.password, totp |-> FALSE, secret |-> NULL]
             known == [email |-> q.email[1], password |-> q.password, secret |-> NULL]
             on == A!On(u, NULL, "createToken")
  <2>1. users' = [users EXCEPT ![u] = row] /\ knows' = [knows EXCEPT ![u] = known]
        /\ job' = [job EXCEPT ![r] = on]
    BY <1>1, <1>4 DEF A!Insert
  <2>2. /\ row \in A!User /\ row # NULL /\ row.email = q.email /\ row.password = q.password
        /\ row.totp = FALSE
        /\ known \in A!Known /\ known.email = q.email[1] /\ known.password = q.password
        /\ known.secret = NULL
    <3>1. row \in A!User
      BY <1>2 DEF A!User
    <3>2. q.email[1] \in Addresses
      BY <1>2 DEF A!Emails
    <3>3. known \in A!Known
      BY <1>2, <3>2 DEF A!Known
    <3>4. row # NULL
      BY <3>1, A!CredentialsAssumption
    <3> QED BY <3>1, <3>3, <3>4
  <2>3. on \in A!Request /\ on.pc = "createToken" /\ on.user = u /\ on.aspect = NULL /\ on.met = FALSE
    BY DEF A!On, A!Idle, A!Request, A!Labels
  <2>4. Located(on)
    BY <2>3, A!CredentialsAssumption DEF Located, A!Aspects
  <2> HIDE DEF row, known, on
  <2>5. job' \in [Requests -> A!Request] /\ job'[r] = on /\ \A s \in Requests : s # r => job'[s] = job[s]
    BY <2>1, <2>3, SlotSet DEF AccountsOK
  <2>6. /\ users' \in [Users -> A!User \cup {NULL}] /\ users'[u] = row /\ A!Stored(u)'
        /\ knows' \in [Users -> A!Known] /\ knows'[u] = known
        /\ \A v \in Users : v # u => users'[v] = users[v] /\ knows'[v] = knows[v]
    BY <2>1, <2>2 DEF AccountsOK, A!TypeOK, A!Stored
  <2>7. \A s \in Requests : job[s].user # u
    BY <1>2, A!CredentialsAssumption DEF AccountsOK, RowsOK, RowOK, A!Stored
  <2>8. A!TypeOK'
    BY <1>2, <2>5, <2>6 DEF AccountsOK, A!TypeOK
  <2>9. RowsOK'
    <3>1. RowOK(r)'
      BY <2>3, <2>4, <2>5, <2>6 DEF RowOK, A!Stored, Located, Agrees
    <3>2. ASSUME NEW s \in Requests, s # r PROVE RowOK(s)'
      <4>1. RowOK(s) /\ job'[s] = job[s] /\ job[s] \in A!Request /\ job[s].user # u
        BY <2>5, <2>7, <3>2 DEF AccountsOK, RowsOK, A!TypeOK
      <4> QED BY <2>6, <4>1 DEF RowOK, A!Stored, A!Request, Located, Agrees
    <3> QED BY <3>1, <3>2 DEF RowsOK
  <2>10. Met'
    BY <2>3, <2>5 DEF AccountsOK, Met, A!WorksOn
  <2>11. OneAccountPerEmail'
    BY <1>4, <2>2, <2>6 DEF AccountsOK, OneAccountPerEmail, A!Stored, A!Taken
  <2>12. ASSUME NEW v \in Users PROVE SureEmail(v)' /\ SurePassword(v)' /\ SureSecret(v)'
    <3>1. CASE v = u
      <4>1. users'[u].email = A!lower(<<knows'[u].email, "mixed">>)
        BY <1>2, <2>2, <2>6 DEF A!lower
      <4> QED BY <2>2, <2>6, <3>1, <4>1 DEF SureEmail, SurePassword, SureSecret
    <3>2. CASE v # u
      <4>1. SureEmail(v) /\ SurePassword(v) /\ SureSecret(v)
        BY DEF AccountsOK, KnownOK
      <4>2. ASSUME NEW a \in A!Aspects, NEW labels, Changing(v, a, labels)
            PROVE  Changing(v, a, labels)'
        <5>1. ~ A!WorksOn(r, v, a)
          BY <1>1, <1>2, A!CredentialsAssumption DEF A!WorksOn
        <5> QED BY <2>5, <4>2, <5>1, OthersGoOn
      <4> QED BY <2>6, <3>2, <4>1, <4>2 DEF SureEmail, SurePassword, SureSecret, A!Aspects
    <3> QED BY <3>1, <3>2
  <2>13. KnownOK'
    BY <2>6, <2>12 DEF AccountsOK, KnownOK, A!Stored
  <2> QED BY <2>8, <2>9, <2>10, <2>11, <2>13 DEF AccountsOK
<1> QED BY <1>3, <1>4

\* Requests that find the account, and go on to change something of it.
LEMMA FindsKeep ==
    ASSUME A!CredentialsAssumption, AccountsOK, NEW r \in Requests,
           \/ \E u \in Users, e \in A!Emails, old, p \in Passwords :
                 A!StartUpdatePassword(r, u, e, old, p)
           \/ \E u \in Users, e \in A!Emails : A!StartUpdateEmail(r, u, e)
           \/ \E u \in Users : A!StartTOTP(r, u) \/ A!StartFinalize(r, u) \/ A!StartDisable(r, u)
    PROVE  AccountsOK'
<1> DEFINE Taking(q) == /\ q \in A!Request /\ q.user \in Users /\ q.aspect \in A!Aspects
                        /\ A!Stored(q.user) /\ Located(q) /\ q.met = FALSE
                        /\ Agrees(users[q.user], q) /\ q.pc # "answer" /\ A!Take(r, q)
<1>1. ASSUME NEW q, Taking(q), job[r] = A!Idle, UNCHANGED <<users, tokens, former, knows>>
      PROVE  AccountsOK'
  BY <1>1, TakeKeeps
<1>2. ASSUME NEW u \in Users, NEW e \in A!Emails, NEW old \in Passwords, NEW p \in Passwords,
             A!StartUpdatePassword(r, u, e, old, p)
      PROVE  AccountsOK'
  <2>1. PICK v \in A!verifyCredentials(e, old) :
            A!Take(r, [A!On(v, "password", "savePassword") EXCEPT !.by = u, !.password = p])
    BY <1>2 DEF A!StartUpdatePassword
  <2> DEFINE q == [A!On(v, "password", "savePassword") EXCEPT !.by = u, !.password = p]
  <2>2. v \in Users /\ A!Stored(v)
    BY DEF A!verifyCredentials
  <2>3. /\ q \in A!Request /\ q.user = v /\ q.aspect = "password" /\ q.met = FALSE
        /\ q.pc = "savePassword" /\ q.password = p
    BY <1>2, <2>2 DEF A!On, A!Idle, A!Request, A!Labels, A!Aspects
  <2>4. A!Take(r, q) /\ job[r] = A!Idle /\ UNCHANGED <<users, tokens, former, knows>>
    BY <1>2, <2>1 DEF A!StartUpdatePassword
  <2> HIDE DEF q
  <2>5. Located(q) /\ Agrees(users[v], q)
    BY <2>2, <2>3, A!CredentialsAssumption DEF Located, Agrees, A!Aspects
  <2> QED BY <1>1, <2>2, <2>3, <2>4, <2>5 DEF A!Aspects
<1>3. ASSUME NEW u \in Users, NEW e \in A!Emails, A!StartUpdateEmail(r, u, e) PROVE AccountsOK'
  <2> DEFINE q == [A!On(u, "email", "saveEmail") EXCEPT !.email = e, !.wasEmail = users[u].email]
  <2>1. /\ A!Stored(u) /\ A!Take(r, q) /\ job[r] = A!Idle
        /\ UNCHANGED <<users, tokens, former, knows>>
    BY <1>3 DEF A!StartUpdateEmail, A!Found
  <2>2. users[u].email \in A!Emails
    BY <2>1 DEF AccountsOK, A!TypeOK, A!Stored, A!User
  <2>3. /\ q \in A!Request /\ q.user = u /\ q.aspect = "email" /\ q.met = FALSE
        /\ q.pc = "saveEmail" /\ q.email = e /\ q.wasEmail = users[u].email
    BY <2>2 DEF A!On, A!Idle, A!Request, A!Labels, A!Aspects
  <2> HIDE DEF q
  <2>4. Located(q) /\ Agrees(users[u], q)
    BY <2>3, A!CredentialsAssumption DEF Located, Agrees, A!Aspects
  <2> QED BY <1>1, <2>1, <2>3, <2>4 DEF A!Aspects
<1>4. ASSUME NEW u \in Users, A!StartTOTP(r, u) \/ A!StartDisable(r, u) PROVE AccountsOK'
  <2>1. PICK l \in {"saveSecret", "rollSecret"} : A!Take(r, A!On(u, "secret", l))
    BY <1>4 DEF A!StartTOTP, A!StartDisable
  <2> DEFINE q == A!On(u, "secret", l)
  <2>2. /\ q \in A!Request /\ q.user = u /\ q.aspect = "secret" /\ q.met = FALSE /\ q.pc = l
        /\ q.on = FALSE
    BY DEF A!On, A!Idle, A!Request, A!Labels, A!Aspects
  <2>3. /\ A!Stored(u) /\ job[r] = A!Idle /\ A!Take(r, q)
        /\ UNCHANGED <<users, tokens, former, knows>>
    BY <1>4, <2>1 DEF A!StartTOTP, A!StartDisable, A!Found
  <2> HIDE DEF q
  <2>4. Located(q) /\ Agrees(users[u], q)
    BY <2>2, A!CredentialsAssumption DEF Located, Agrees, A!Aspects
  <2> QED BY <1>1, <2>2, <2>3, <2>4 DEF A!Aspects
<1>5. ASSUME NEW u \in Users, A!StartFinalize(r, u) PROVE AccountsOK'
  <2> DEFINE q == [A!On(u, "secret", "findFlag") EXCEPT !.on = TRUE, !.secret = users[u].secret]
  <2>1. /\ A!Stored(u) /\ A!Take(r, q) /\ job[r] = A!Idle
        /\ UNCHANGED <<users, tokens, former, knows>>
    BY <1>5 DEF A!StartFinalize, A!Found
  <2>2. users[u].secret \in Secrets \cup {NULL}
    BY <2>1 DEF AccountsOK, A!TypeOK, A!Stored, A!User
  <2>3. /\ q \in A!Request /\ q.user = u /\ q.aspect = "secret" /\ q.met = FALSE
        /\ q.pc = "findFlag" /\ q.secret = users[u].secret
    BY <2>2 DEF A!On, A!Idle, A!Request, A!Labels, A!Aspects
  <2> HIDE DEF q
  <2>4. Located(q) /\ Agrees(users[u], q)
    BY <2>3, A!CredentialsAssumption DEF Located, Agrees, A!Aspects
  <2> QED BY <1>1, <2>1, <2>3, <2>4 DEF A!Aspects
<1> QED BY <1>2, <1>3, <1>4, <1>5

\* A mailed token: of an account that still is there, or too old to reset anything.
LEMMA ResetKeeps ==
    ASSUME A!CredentialsAssumption, AccountsOK, NEW r \in Requests,
           NEW t \in MailTokens, NEW p \in Passwords, A!StartReset(r, t, p)
    PROVE  AccountsOK'
<1>1. /\ job[r] = A!Idle /\ tokens[t] \in A!Token /\ A!Stored(tokens[t].owner)
      /\ UNCHANGED <<users, tokens, former>>
  BY DEF A!StartReset, A!Found, AccountsOK, A!TypeOK
<1>2. PICK u \in Users : u = tokens[t].owner /\ A!Stored(u)
  BY <1>1 DEF A!Token
<1>3. CASE tokens[t].live
  <2> DEFINE q == [A!On(u, "password", "savePassword") EXCEPT !.password = p]
  <2>1. /\ q \in A!Request /\ q.user = u /\ q.aspect = "password" /\ q.met = FALSE
        /\ q.pc = "savePassword" /\ q.password = p
    BY DEF A!On, A!Idle, A!Request, A!Labels, A!Aspects
  <2>2. A!Take(r, q) /\ knows' = knows
    BY <1>2, <1>3 DEF A!StartReset
  <2> HIDE DEF q
  <2>3. Located(q) /\ Agrees(users[u], q)
    BY <2>1, A!CredentialsAssumption DEF Located, Agrees, A!Aspects
  <2> QED BY <1>1, <1>2, <2>1, <2>2, <2>3, TakeKeeps DEF A!Aspects
<1>4. CASE ~ tokens[t].live
  <2>1. knows' = A!Lose({u}, "password") /\ job' = job /\ "password" \in A!Aspects
    BY <1>2, <1>4 DEF A!StartReset, A!Aspects
  <2> QED BY <1>1, <2>1, LoseKeeps
<1> QED BY <1>3, <1>4

LEMMA AsidesKeep ==
    ASSUME A!CredentialsAssumption, AccountsOK, NEW r \in Requests,
           \/ \E e \in A!Emails, p \in Passwords : A!StartRegister(r, e, p)
           \/ \E u \in Users : A!StartMail(r, u)
           \/ \E t \in MailTokens : A!CreateToken(r, t)
    PROVE  AccountsOK'
<1>1. ASSUME NEW e \in A!Emails, NEW p \in Passwords, A!StartRegister(r, e, p) PROVE AccountsOK'
  <2> DEFINE q == [A!Idle EXCEPT !.pc = "insert", !.email = A!lower(e), !.password = p]
  <2>1. A!lower(e) \in A!Emails /\ A!lower(A!lower(e)) = A!lower(e)
    BY DEF A!lower, A!Emails
  <2>2. /\ q \in A!Request /\ q.pc = "insert" /\ q.user = NULL /\ q.aspect = NULL
        /\ q.email = A!lower(e) /\ q.password = p
    BY <2>1 DEF A!Idle, A!Request, A!Labels
  <2>3. /\ job' = [job EXCEPT ![r] = q] /\ job[r].aspect = NULL
        /\ UNCHANGED <<users, tokens, former, knows>>
    BY <1>1, IdleSlot, A!CredentialsAssumption DEF A!StartRegister
  <2> HIDE DEF q
  <2>4. Located(q)
    BY <2>1, <2>2, A!CredentialsAssumption DEF Located, A!Aspects
  <2> QED BY <2>2, <2>3, <2>4, AsideKeeps DEF AccountsOK, A!TypeOK
<1>2. ASSUME NEW u \in Users, A!StartMail(r, u) PROVE AccountsOK'
  <2> DEFINE q == A!On(u, NULL, "createToken")
  <2>1. q \in A!Request /\ q.pc = "createToken" /\ q.user = u /\ q.aspect = NULL
    BY DEF A!On, A!Idle, A!Request, A!Labels
  <2>2. /\ job' = [job EXCEPT ![r] = q] /\ job[r].aspect = NULL /\ A!Stored(u)
        /\ UNCHANGED <<users, tokens, former, knows>>
    BY <1>2, IdleSlot, A!CredentialsAssumption DEF A!StartMail, A!Found
  <2> HIDE DEF q
  <2>3. Located(q)
    BY <2>1, A!CredentialsAssumption DEF Located, A!Aspects
  <2> QED BY <2>1, <2>2, <2>3, AsideKeeps DEF AccountsOK, A!TypeOK
<1>3. ASSUME NEW t \in MailTokens, A!CreateToken(r, t) PROVE AccountsOK'
  <2>1. /\ job[r].pc = "createToken" /\ job[r] \in A!Request /\ Located(job[r])
    BY <1>3 DEF A!CreateToken, AccountsOK, A!TypeOK, RowsOK, RowOK
  <2>2. job[r].user \in Users /\ job[r].aspect = NULL
    BY <2>1 DEF Located, A!Request
  <2>3. tokens' \in [MailTokens -> A!Token \cup {NULL}]
    BY <1>3, <2>2 DEF A!CreateToken, AccountsOK, A!TypeOK, A!Token
  <2>4. job' = [job EXCEPT ![r] = A!Idle] /\ UNCHANGED <<users, former, knows>>
    BY <1>3 DEF A!CreateToken, A!Finish
  <2> QED BY <2>2, <2>3, <2>4, IdleSlot, AsideKeeps
<1> QED BY <1>1, <1>2, <1>3

LEMMA LapseKeeps ==
    ASSUME A!CredentialsAssumption, AccountsOK, NEW u \in Users, A!Lapse(u)
    PROVE  AccountsOK'
<1>1. former' \in [Users -> A!Emails \cup {NULL}] /\ UNCHANGED <<users, tokens, job, knows>>
  BY DEF A!Lapse, AccountsOK, A!TypeOK
<1> QED BY <1>1 DEF AccountsOK, A!TypeOK, RowsOK, RowOK, Located, Agrees, A!Stored, Met, A!WorksOn,
     OneAccountPerEmail, KnownOK, SureEmail, SurePassword, SureSecret, Changing

LEMMA ExpireTokenKeeps ==
    ASSUME A!CredentialsAssumption, AccountsOK, NEW t \in MailTokens, A!Expire(t)
    PROVE  AccountsOK'
<1>1. /\ tokens' \in [MailTokens -> A!Token \cup {NULL}] /\ UNCHANGED <<users, former, job, knows>>
  <2>1. tokens[t] \in A!Token
    BY DEF A!Expire, AccountsOK, A!TypeOK
  <2>2. [tokens[t] EXCEPT !.live = FALSE] \in A!Token
    BY <2>1 DEF A!Token
  <2> QED BY <2>2 DEF A!Expire, AccountsOK, A!TypeOK
<1> QED BY <1>1 DEF AccountsOK, A!TypeOK, RowsOK, RowOK, Located, Agrees, A!Stored, Met, A!WorksOn,
     OneAccountPerEmail, KnownOK, SureEmail, SurePassword, SureSecret, Changing

\* The steps that read or write the row.
LEMMA WritesKeep ==
    ASSUME A!CredentialsAssumption, AccountsOK, NEW r \in Requests,
           \/ A!SavePassword(r) \/ A!FindFlag(r) \/ A!SaveFlag(r)
           \/ \E s \in Secrets : A!SaveSecret(r, s) \/ A!RollSecret(r, s)
    PROVE  AccountsOK'
<1>1. PICK q \in A!Request : q = job[r]
  BY DEF AccountsOK, A!TypeOK
<1>2. Located(q) /\ RowOK(r)
  BY <1>1 DEF AccountsOK, RowsOK, RowOK, Located
<1>3. PICK u \in Users, a \in A!Aspects : q.user = u /\ q.aspect = a
  BY <1>1, <1>2 DEF A!SavePassword, A!FindFlag, A!SaveFlag, A!SaveSecret, A!RollSecret, Located, A!Request
<1>4. /\ A!WorksOn(r, u, a) /\ UNCHANGED <<tokens, former, knows>>
      /\ former' \in [Users -> A!Emails \cup {NULL}]
  BY <1>1, <1>3 DEF AccountsOK, A!TypeOK, A!WorksOn, A!SavePassword, A!FindFlag, A!SaveFlag, A!SaveSecret, A!RollSecret
<1>5. PICK row \in A!User : row = users[u] /\ Agrees(row, q)
  BY <1>1, <1>2, <1>3, A!CredentialsAssumption DEF RowOK, A!Stored, Agrees, AccountsOK, A!TypeOK
<1>6. users = [users EXCEPT ![u] = row]
  BY <1>5 DEF AccountsOK, A!TypeOK
<1>7. CASE A!SavePassword(r)
  <2> DEFINE w == [row EXCEPT !.password = q.password]
             go == [q EXCEPT !.pc = "answer"]
  <2>1. q.pc = "savePassword" /\ a = "password" /\ q.password \in Passwords
    BY <1>1, <1>2, <1>3, <1>7 DEF A!SavePassword, Located
  <2>2. users' = [users EXCEPT ![u] = w] /\ job' = [job EXCEPT ![r] = go]
    BY <1>1, <1>3, <1>5, <1>7 DEF A!SavePassword, A!Goto
  <2>3. /\ w \in A!User /\ w.email = row.email /\ w.password = q.password /\ w.totp = row.totp
        /\ w.secret = row.secret
    BY <2>1 DEF A!User
  <2>4. /\ go \in A!Request /\ go.pc = "answer" /\ go.user = u /\ go.aspect = a /\ go.met = q.met
        /\ go.password = q.password
    BY <1>3 DEF A!Request, A!Labels
  <2> HIDE DEF w, go
  <2>5. Located(go) /\ Agrees(w, go)
    BY <2>1, <2>3, <2>4, A!CredentialsAssumption DEF Located, Agrees
  <2> QED BY <1>1, <1>4, <1>5, <2>1, <2>2, <2>3, <2>4, <2>5, WriteKeeps
<1>8. CASE A!FindFlag(r)
  <2> DEFINE go == [q EXCEPT !.pc = "saveFlag", !.was = row.totp]
  <2>1. q.pc = "findFlag" /\ a = "secret"
    BY <1>1, <1>2, <1>3, <1>8 DEF A!FindFlag, Located
  <2>2. users' = [users EXCEPT ![u] = row] /\ job' = [job EXCEPT ![r] = go]
    BY <1>1, <1>3, <1>5, <1>6, <1>8 DEF A!FindFlag
  <2>3. /\ go \in A!Request /\ go.pc = "saveFlag" /\ go.user = u /\ go.aspect = a /\ go.met = q.met
        /\ go.was = row.totp /\ go.on = q.on /\ go.secret = q.secret
    BY <1>3 DEF A!Request, A!Labels, A!User
  <2> HIDE DEF go
  <2>4. Located(go) /\ Agrees(row, go)
    BY <1>5, <2>1, <2>3, A!CredentialsAssumption DEF Located, Agrees
  <2> QED BY <1>1, <1>4, <1>5, <2>1, <2>2, <2>3, <2>4, WriteKeeps
<1>9. CASE A!SaveFlag(r)
  <2> DEFINE w == IF q.on = q.was THEN row ELSE [row EXCEPT !.totp = q.on]
             go == [q EXCEPT !.pc = "answer", !.wasEmail = NULL, !.on = FALSE, !.was = FALSE]
  <2>1. q.pc = "saveFlag" /\ a = "secret"
    BY <1>1, <1>2, <1>3, <1>9 DEF A!SaveFlag, Located
  <2>2. users' = [users EXCEPT ![u] = w] /\ job' = [job EXCEPT ![r] = go]
    BY <1>1, <1>3, <1>5, <1>6, <1>9 DEF A!SaveFlag, A!Done
  <2>3. /\ w \in A!User /\ w.email = row.email /\ w.password = row.password
        /\ w.totp = (IF q.on = q.was THEN row.totp ELSE q.on) /\ w.secret = row.secret
    BY DEF A!User, A!Request
  <2>4. /\ go \in A!Request /\ go.pc = "answer" /\ go.user = u /\ go.aspect = a /\ go.met = q.met
        /\ go.secret = q.secret
    BY <1>3 DEF A!Request, A!Labels
  <2> HIDE DEF w, go
  <2>5. Located(go) /\ Agrees(w, go)
    BY <1>5, <2>1, <2>3, <2>4, A!CredentialsAssumption DEF Located, Agrees
  <2> QED BY <1>1, <1>4, <1>5, <2>1, <2>2, <2>3, <2>4, <2>5, WriteKeeps
<1>10. ASSUME NEW s \in Secrets, A!SaveSecret(r, s) PROVE AccountsOK'
  <2> DEFINE w == [row EXCEPT !.secret = s]
             go == [q EXCEPT !.pc = "answer", !.secret = s]
  <2>1. q.pc = "saveSecret" /\ a = "secret"
    BY <1>1, <1>2, <1>3, <1>10 DEF A!SaveSecret, Located
  <2>2. users' = [users EXCEPT ![u] = w] /\ job' = [job EXCEPT ![r] = go]
    BY <1>1, <1>3, <1>5, <1>10 DEF A!SaveSecret
  <2>3. /\ w \in A!User /\ w.email = row.email /\ w.password = row.password /\ w.secret = s
    BY DEF A!User
  <2>4. /\ go \in A!Request /\ go.pc = "answer" /\ go.user = u /\ go.aspect = a /\ go.met = q.met
        /\ go.secret = s
    BY <1>3 DEF A!Request, A!Labels
  <2> HIDE DEF w, go
  <2>5. Located(go) /\ Agrees(w, go)
    BY <2>1, <2>3, <2>4, A!CredentialsAssumption DEF Located, Agrees
  <2> QED BY <1>1, <1>4, <1>5, <2>1, <2>2, <2>3, <2>4, <2>5, WriteKeeps
<1>11. ASSUME NEW s \in Secrets, A!RollSecret(r, s) PROVE AccountsOK'
  <2> DEFINE w == [row EXCEPT !.secret = s]
             go == [q EXCEPT !.pc = "findFlag"]
  <2>1. q.pc = "rollSecret" /\ a = "secret"
    BY <1>1, <1>2, <1>3, <1>11 DEF A!RollSecret, Located
  <2>2. users' = [users EXCEPT ![u] = w] /\ job' = [job EXCEPT ![r] = go]
    BY <1>1, <1>3, <1>5, <1>11 DEF A!RollSecret, A!Goto
  <2>3. /\ w \in A!User /\ w.email = row.email /\ w.password = row.password /\ w.secret = s
    BY DEF A!User
  <2>4. /\ go \in A!Request /\ go.pc = "findFlag" /\ go.user = u /\ go.aspect = a /\ go.met = q.met
        /\ go.on = q.on
    BY <1>3 DEF A!Request, A!Labels
  <2> HIDE DEF w, go
  <2>5. Located(go) /\ Agrees(w, go)
    BY <1>2, <2>1, <2>3, <2>4, A!CredentialsAssumption DEF Located, Agrees
  <2> QED BY <1>1, <1>4, <1>5, <2>1, <2>2, <2>3, <2>4, <2>5, WriteKeeps
<1> QED BY <1>7, <1>8, <1>9, <1>10, <1>11

\* An address that another account took meanwhile is given up, before the user is told.
LEMMA SaveEmailKeeps ==
    ASSUME A!CredentialsAssumption, AccountsOK, NEW r \in Requests, A!SaveEmail(r)
    PROVE  AccountsOK'
<1>1. PICK q \in A!Request : q = job[r]
  BY DEF AccountsOK, A!TypeOK
<1>2. q.pc = "saveEmail" /\ Located(q) /\ RowOK(r) /\ UNCHANGED <<tokens, knows>>
  BY <1>1 DEF A!SaveEmail, AccountsOK, RowsOK, RowOK, Located
<1>3. PICK u \in Users : q.user = u /\ q.aspect = "email" /\ q.email \in A!Emails
  BY <1>2 DEF Located, A!Request
<1>4. A!WorksOn(r, u, "email") /\ "email" \in A!Aspects
  BY <1>1, <1>3 DEF A!WorksOn, A!Aspects
<1>5. PICK row \in A!User : row = users[u] /\ Agrees(row, q)
  BY <1>1, <1>2, <1>3, A!CredentialsAssumption DEF RowOK, A!Stored, Agrees, AccountsOK, A!TypeOK
<1>6. CASE q.email # q.wasEmail /\ A!Taken(q.email, q.user)
  <2>1. A!Finish(r) /\ UNCHANGED <<users, former>>
    BY <1>1, <1>6 DEF A!SaveEmail
  <2>2. /\ job[r].pc # "answer"
        /\ \A v \in Users : ~ A!WorksOn(r, v, "password") /\ ~ A!WorksOn(r, v, "secret")
    BY <1>1, <1>2, <1>3 DEF A!WorksOn
  <2> QED BY <1>2, <2>1, <2>2, TellKeeps DEF AccountsOK, A!TypeOK
<1>7. CASE ~ (q.email # q.wasEmail /\ A!Taken(q.email, q.user))
  <2> DEFINE w == IF q.email = q.wasEmail THEN row ELSE [row EXCEPT !.email = q.email]
             go == [q EXCEPT !.pc = "answer", !.wasEmail = NULL, !.on = FALSE, !.was = FALSE]
  <2>1. /\ users' = [users EXCEPT ![u] = w] /\ job' = [job EXCEPT ![r] = go]
        /\ former' = former \/ former' = [former EXCEPT ![u] = row.email]
    <3>1. users = [users EXCEPT ![u] = row]
      BY <1>5 DEF AccountsOK, A!TypeOK
    <3> QED BY <1>1, <1>3, <1>5, <1>7, <3>1 DEF A!SaveEmail, A!Done
  <2>2. /\ w \in A!User /\ w.email = (IF q.email = q.wasEmail THEN row.email ELSE q.email)
        /\ w.password = row.password /\ w.totp = row.totp /\ w.secret = row.secret
    BY <1>3 DEF A!User
  <2>3. /\ go \in A!Request /\ go.pc = "answer" /\ go.user = u /\ go.aspect = "email"
        /\ go.met = q.met /\ go.email = q.email
    BY <1>3 DEF A!Request, A!Labels
  <2> HIDE DEF w, go
  <2>4. Located(go) /\ Agrees(w, go)
    BY <1>2, <1>3, <1>5, <2>2, <2>3, A!CredentialsAssumption DEF Located, Agrees, A!Aspects
  <2>5. ~ A!Taken(w.email, u) \/ w.email = users[u].email
    BY <1>3, <1>5, <1>7, <2>2
  <2>6. former' \in [Users -> A!Emails \cup {NULL}]
    BY <2>1 DEF A!User, AccountsOK, A!TypeOK
  <2> QED BY <1>1, <1>2, <1>4, <1>5, <2>1, <2>2, <2>3, <2>4, <2>5, <2>6, WriteKeeps
<1> QED BY <1>6, <1>7

\* The user is told what it changed alone, and unsure of what it did not.
LEMMA AnswerKeeps ==
    ASSUME A!CredentialsAssumption, AccountsOK, NEW r \in Requests, A!Answer(r)
    PROVE  AccountsOK'
<1>1. PICK q \in A!Request : q = job[r]
  BY DEF AccountsOK, A!TypeOK
<1>2. /\ q.pc = "answer" /\ Located(q) /\ RowOK(r) /\ A!Finish(r)
      /\ UNCHANGED <<users, tokens, former>>
  BY <1>1 DEF A!Answer, AccountsOK, RowsOK, RowOK, Located
<1>3. PICK u \in Users, a \in A!Aspects : q.user = u /\ q.aspect = a
  BY <1>2 DEF Located, A!Request
<1>4. A!Stored(u) /\ Agrees(users[u], q)
  BY <1>1, <1>2, <1>3, A!CredentialsAssumption DEF RowOK, A!Stored, Agrees
<1>5. \A v \in Users, b \in A!Aspects : A!WorksOn(r, v, b) => v = u /\ b = a
  BY <1>1, <1>3 DEF A!WorksOn
<1>6. CASE q.met \/ q.by # u \/ (a = "email" /\ q.email # A!lower(q.email))
  <2>1. knows' = A!Lose({u, q.by}, a)
    BY <1>1, <1>3, <1>6 DEF A!Answer
  <2> QED BY <1>2, <1>5, <2>1, LoseKeeps
<1>7. CASE ~ (q.met \/ q.by # u \/ (a = "email" /\ q.email # A!lower(q.email)))
  <2> DEFINE told == [email |-> IF a = "email" THEN q.email[1] ELSE knows[u].email,
                      password |-> IF a = "password" THEN q.password ELSE knows[u].password,
                      secret |-> IF a = "secret" THEN q.secret ELSE knows[u].secret]
  <2>1. knows' = [knows EXCEPT ![u] = told]
    BY <1>1, <1>3, <1>7 DEF A!Answer
  <2>2. told \in A!Known
    <3>1. knows[u] \in A!Known
      BY DEF AccountsOK, A!TypeOK
    <3>2. a = "email" => q.email[1] \in Addresses
      BY <1>2, <1>3 DEF Located, A!Emails
    <3> QED BY <1>2, <1>3, <3>1, <3>2 DEF Located, A!Known, A!Request
  <2>3. /\ told.email = IF a = "email" THEN q.email[1] ELSE knows[u].email
        /\ told.password = IF a = "password" THEN q.password ELSE knows[u].password
        /\ told.secret = IF a = "secret" THEN q.secret ELSE knows[u].secret
    OBVIOUS
  <2> HIDE DEF told
  <2>4. /\ knows' \in [Users -> A!Known] /\ knows'[u] = told
        /\ \A v \in Users : v # u => knows'[v] = knows[v]
    BY <2>1, <2>2 DEF AccountsOK, A!TypeOK
  <2>5. a = "email" => users[u].email = A!lower(<<told.email, "mixed">>)
    <3>1. a = "email" => users[u].email = q.email /\ q.email = A!lower(q.email)
      BY <1>2, <1>3, <1>4, <1>7 DEF Agrees
    <3> QED BY <2>3, <3>1 DEF A!lower
  <2>6. /\ a = "password" => users[u].password = told.password
        /\ a = "secret" => (users[u].totp => users[u].secret = told.secret)
    BY <1>2, <1>3, <1>4, <1>7, <2>3 DEF Agrees
  <2> QED BY <1>2, <1>4, <1>5, <2>3, <2>4, <2>5, <2>6, TellKeeps DEF A!Aspects
<1> QED BY <1>6, <1>7

LEMMA FailedRequestKeeps ==
    ASSUME A!CredentialsAssumption, AccountsOK, NEW r \in Requests, A!Fail(r)
    PROVE  AccountsOK'
<1>1. PICK q \in A!Request : q = job[r]
  BY DEF AccountsOK, A!TypeOK
<1>2. Located(q) /\ RowOK(r) /\ A!Finish(r) /\ UNCHANGED <<users, tokens, former>>
  BY <1>1 DEF A!Fail, AccountsOK, RowsOK, RowOK, Located
<1>3. CASE q.aspect = NULL
  <2>1. knows' = knows
    BY <1>1, <1>3 DEF A!Fail
  <2>2. \A v \in Users, b \in A!Aspects : ~ A!WorksOn(r, v, b)
    BY <1>1, <1>3, A!CredentialsAssumption DEF A!WorksOn
  <2> QED BY <1>2, <2>1, <2>2, TellKeeps DEF AccountsOK, A!TypeOK, A!Aspects
<1>4. CASE q.aspect # NULL
  <2>1. PICK u \in Users, a \in A!Aspects : q.user = u /\ q.aspect = a
    BY <1>2, <1>4 DEF Located, A!Request
  <2>2. knows' = A!Lose({u, q.by}, a)
    BY <1>1, <1>4, <2>1 DEF A!Fail
  <2>3. \A v \in Users, b \in A!Aspects : A!WorksOn(r, v, b) => v = u /\ b = a
    BY <1>1, <2>1 DEF A!WorksOn
  <2> QED BY <1>2, <2>2, <2>3, LoseKeeps
<1> QED BY <1>3, <1>4

LEMMA InitAccounts ==
    ASSUME A!CredentialsAssumption, A!Init
    PROVE  AccountsOK
<1>1. \A r \in Requests : job[r] = A!Idle
  BY DEF A!Init
<1>2. A!TypeOK
  <2>1. A!Nothing \in A!Known
    BY DEF A!Nothing, A!Known
  <2> QED BY <2>1, IdleSlot DEF A!Init, A!TypeOK
<1>3. RowsOK /\ Met
  BY <1>1, IdleSlot DEF RowsOK, RowOK, Located, Agrees, Met
<1>4. OneAccountPerEmail /\ KnownOK
  BY DEF A!Init, OneAccountPerEmail, A!Stored, KnownOK, A!Nothing, SureEmail, SurePassword, SureSecret
<1> QED BY <1>2, <1>3, <1>4 DEF AccountsOK

LEMMA StepAccounts ==
    ASSUME A!CredentialsAssumption, AccountsOK, [A!Next]_(A!vars)
    PROVE  AccountsOK'
<1>1. ASSUME NEW r \in Requests, A!Mailed(r) PROVE AccountsOK'
  BY <1>1, A!CredentialsAssumption, AsidesKeep, InsertKeeps, ResetKeeps DEF A!Mailed
<1>2. ASSUME NEW r \in Requests, A!Changed(r) PROVE AccountsOK'
  BY <1>2, A!CredentialsAssumption, FindsKeep, WritesKeep, SaveEmailKeeps, AnswerKeeps DEF A!Changed
<1>3. CASE UNCHANGED A!vars
  BY <1>3 DEF A!vars, AccountsOK, A!TypeOK, RowsOK, RowOK, Located, Agrees, A!Stored, Met, A!WorksOn,
     OneAccountPerEmail, KnownOK, SureEmail, SurePassword, SureSecret, Changing
<1> QED BY <1>1, <1>2, <1>3, A!CredentialsAssumption, FailedRequestKeeps, ExpireTokenKeeps,
        LapseKeeps DEF A!Next

LEMMA AlwaysAccounts ==
    ASSUME A!CredentialsAssumption
    PROVE  A!Spec => []AccountsOK
BY A!CredentialsAssumption, InitAccounts, StepAccounts, PTL DEF A!Spec

\* The accounts, the tokens, the requests and what users know keep their types.
THEOREM AccountsTyped ==
    ASSUME A!CredentialsAssumption
    PROVE  A!Spec => []A!TypeOK
<1>1. AccountsOK => A!TypeOK
  BY DEF AccountsOK
<1> QED BY <1>1, A!CredentialsAssumption, AlwaysAccounts, PTL

\* Whatever others change, register or have mailed, and whenever calls fail, a user that
\* is sure of its address, its password and its secret signs in with them, as itself.  Who
\* asked for a password with an access token that names an email given up since, and
\* whose account it changed, are not sure (Answer).
THEOREM NobodyLockedOut ==
    ASSUME A!CredentialsAssumption
    PROVE  A!Spec => []A!CanSignIn
<1>1. ASSUME AccountsOK PROVE A!CanSignIn
  <2> SUFFICES ASSUME NEW u \in Users, A!Quiet(u), knows[u].email # "unsure",
                      knows[u].password # "unsure", knows[u].secret # "unsure"
               PROVE  A!Accepts(knows[u].email, knows[u].password, knows[u].secret) = {u}
    BY DEF A!CanSignIn
  <2>1. A!Stored(u)
    BY <1>1 DEF AccountsOK, KnownOK, A!Nothing
  <2>2. \A a, labels : ~ Changing(u, a, labels)
    BY DEF A!Quiet, Changing, A!WorksOn
  <2>3. /\ users[u].email = A!lower(<<knows[u].email, "mixed">>)
        /\ users[u].password = knows[u].password
        /\ users[u].totp => users[u].secret = knows[u].secret
    BY <1>1, <2>2 DEF AccountsOK, KnownOK, SureEmail, SurePassword, SureSecret
  <2>4. \A v \in Users : A!Stored(v) /\ users[v].email = users[u].email => v = u
    BY <1>1, <2>1 DEF AccountsOK, OneAccountPerEmail
  <2> QED BY <2>1, <2>3, <2>4 DEF A!Accepts, A!verifyCredentials
<1> QED BY <1>1, A!CredentialsAssumption, AlwaysAccounts, PTL
=============================================================================
