------------------------------- MODULE SignIn -------------------------------
(***************************************************************************)
(* Signing in with a QR code, which a browser shows and a device that is   *)
(* signed in validates (AuthenticationService, and the authorization of    *)
(* qr-code/:token in start/transmit.ts), and who is online: the hash       *)
(* userStates, written by AuthenticationController and UsersController.    *)
(*                                                                         *)
(* All of it is in redis.  A QR code is three keys, set, read and deleted  *)
(* by one command each, which expire one by one: each command is an        *)
(* action, and a key may expire between any two.  Tokens and passkeys are  *)
(* random, and taken to be new.  Of a sign-in by password, which is in     *)
(* Credentials, only the end matters here (Connect).                       *)
(***************************************************************************)
EXTENDS Naturals

CONSTANTS
    Users,          \* rows of the table users
    Tokens,         \* bound: the QR codes
    PassKeys,       \* bound: the passkeys that validations draw
    Lifetime,       \* of an entry of userStates, in ticks: 1200 seconds
    Requests,       \* slots for HTTP requests being served at the same time
    MayFail,        \* whether an awaited call may reject (or the process die)
    NULL

States == {"generated", "pending", "validated"}
Remaining == 0..Lifetime             \* until expiresAt; 0: expired
Grant == [user: Users, key: PassKeys]

ASSUME SignInAssumption ==
    /\ Lifetime \in Nat \ {0}
    /\ MayFail \in BOOLEAN
    /\ NULL \notin Users \cup Tokens \cup PassKeys
    /\ NULL \notin States /\ NULL \notin Nat /\ NULL \notin Grant
    /\ NULL \notin [Users -> Remaining \cup {NULL}]

VARIABLES
    state,          \* qr-code:token, NULL when there is none
    user,           \* qr-code:token:user, or NULL
    passkey,        \* qr-code:token:passkey, or NULL
    online,         \* userStates: user -> what remains of the entry, or NULL
    req,            \* slot -> where the request is, and its local variables
    announced,      \* history: token -> the passkey broadcast and not used yet
    validated,      \* history: <<token, user>> of the validations
    spent,          \* history: <<token, passkey>> that signed somebody in
    renewed,        \* history: slot -> who came online since it listed who is
    contended       \* history: tokens on which a request failed or met another
                    \* one, or a key expired without its state

keys == <<state, user, passkey>>
past == <<announced, validated, spent>>
vars == <<keys, online, req, past, renewed, contended>>

Labels == {"idle", "setPending", "setValidated", "setUser", "setPassKey",
           "announce", "readPassKey", "readUser", "delUser", "delState",
           "delPassKey", "signIn", "drop"}

\* on, user, key: the token, who validates or signs in, the passkey;
\* listed: the entries that a listing read.
Request == [pc: Labels, on: Tokens \cup {NULL}, user: Users \cup {NULL},
            key: PassKeys \cup {NULL},
            listed: [Users -> Remaining \cup {NULL}] \cup {NULL}]

Idle == [pc |-> "idle", on |-> NULL, user |-> NULL, key |-> NULL, listed |-> NULL]

TypeOK ==
    /\ state \in [Tokens -> States \cup {NULL}]
    /\ user \in [Tokens -> Users \cup {NULL}]
    /\ passkey \in [Tokens -> PassKeys \cup {NULL}]
    /\ online \in [Users -> Remaining \cup {NULL}]
    /\ req \in [Requests -> Request]
    /\ announced \in [Tokens -> Grant \cup {NULL}]
    /\ validated \subseteq Tokens \X Users
    /\ spent \subseteq Tokens \X PassKeys
    /\ renewed \in [Requests -> SUBSET Users]
    /\ contended \subseteq Tokens

Init ==
    /\ state = [t \in Tokens |-> NULL]
    /\ user = [t \in Tokens |-> NULL]
    /\ passkey = [t \in Tokens |-> NULL]
    /\ online = [u \in Users |-> NULL]
    /\ req = [r \in Requests |-> Idle]
    /\ announced = [t \in Tokens |-> NULL]
    /\ validated = {} /\ spent = {}
    /\ renewed = [r \in Requests |-> {}]
    /\ contended = {}

-----------------------------------------------------------------------------
Quiet(t) == \A r \in Requests : req[r].on # t

\* A token that redis and the requests do not know, and a passkey or a code that
\* nobody has: they are drawn at random.
NewToken(t) ==
    state[t] = NULL /\ user[t] = NULL /\ passkey[t] = NULL /\ Quiet(t)
NewPassKey(k) ==
    /\ \A t \in Tokens : /\ passkey[t] # k /\ <<t, k>> \notin spent
                         /\ announced[t] # NULL => announced[t].key # k
    /\ \A r \in Requests : req[r].key # k

Goto(r, label) == req' = [req EXCEPT ![r].pc = label]
Finish(r) == req' = [req EXCEPT ![r] = Idle]

\* A request that read what lets it go on starts to work on t, alone or not.
StartOn(r, t, request) ==
    /\ req[r].pc = "idle"
    /\ req' = [req EXCEPT ![r] = request]
    /\ contended' = IF Quiet(t) THEN contended ELSE contended \cup {t}

\* Users come online, and are no longer as the listings in progress read them.
ComeOnline(u) ==
    /\ online' = [online EXCEPT ![u] = Lifetime]
    /\ renewed' = [r \in Requests |->
            IF req[r].pc = "drop" THEN renewed[r] \cup {u} ELSE renewed[r]]

-----------------------------------------------------------------------------
\* Faults: what each property is tested against is the action of the same place
\* with the mistake its name says.

SetUserUnknown(r) ==
    /\ req[r].pc = "setUser"
    /\ user' = [user EXCEPT ![req[r].on] = req[r].key]
    /\ Goto(r, "setPassKey")
    /\ UNCHANGED <<state, passkey, online, past, renewed, contended>>

ValidateWithoutState(r, t, u, k) ==
    /\ NewPassKey(k)
    /\ user' = [user EXCEPT ![t] = u]
    /\ IF state[t] = "pending"
         THEN StartOn(r, t, [Idle EXCEPT !.pc = "setValidated", !.on = t, !.user = u, !.key = k])
         ELSE UNCHANGED <<req, contended>> /\ req[r].pc = "idle"
    /\ UNCHANGED <<state, passkey, online, past, renewed>>

KeepPassKey(r) ==
    /\ req[r].pc = "delPassKey"
    /\ announced' = [announced EXCEPT ![req[r].on] = NULL]
    /\ IF req[r].user = NULL THEN Finish(r) ELSE Goto(r, "signIn")
    /\ UNCHANGED <<keys, online, validated, spent, renewed, contended>>

AnnounceFirst(r) ==
    /\ req[r].pc = "setPassKey"
    /\ announced' = [announced EXCEPT ![req[r].on] = [user |-> req[r].user, key |-> req[r].key]]
    /\ Finish(r)
    /\ UNCHANGED <<keys, online, validated, spent, renewed, contended>>

DropAnyListed(r, u) ==
    /\ req[r].pc = "drop"
    /\ req[r].listed[u] # NULL
    /\ online' = [online EXCEPT ![u] = NULL]
    /\ req' = [req EXCEPT ![r].listed[u] = NULL]
    /\ UNCHANGED <<keys, past, renewed, contended>>

-----------------------------------------------------------------------------
\* GET /authentication/qr-code : generateQRCodeToken.
GenerateQRCode(t) ==
    /\ NewToken(t)
    /\ state' = [state EXCEPT ![t] = "generated"]
    /\ announced' = [announced EXCEPT ![t] = NULL]
    /\ validated' = {v \in validated : v[1] # t}
    /\ spent' = {s \in spent : s[1] # t}
    /\ contended' = contended \ {t}
    /\ UNCHANGED <<user, passkey, online, req, renewed>>

\* The browser subscribes to qr-code/:token: read, then set.
StartSubscribe(r, t) ==
    /\ state[t] = "generated"
    /\ StartOn(r, t, [Idle EXCEPT !.pc = "setPending", !.on = t])
    /\ UNCHANGED <<keys, online, past, renewed>>

SetPending(r) ==
    /\ req[r].pc = "setPending"
    /\ state' = [state EXCEPT ![req[r].on] = "pending"]
    /\ Finish(r)
    /\ UNCHANGED <<user, passkey, online, past, renewed, contended>>

-----------------------------------------------------------------------------
\* POST /authentication/qr-code/:token : validateQRCodeToken, by a device of u.
StartValidate(r, t, u, k) ==
    /\ state[t] = "pending"
    /\ NewPassKey(k)
    /\ StartOn(r, t, [Idle EXCEPT !.pc = "setValidated", !.on = t, !.user = u, !.key = k])
    /\ UNCHANGED <<keys, online, past, renewed>>

SetValidated(r) ==
    /\ req[r].pc = "setValidated"
    /\ state' = [state EXCEPT ![req[r].on] = "validated"]
    /\ validated' = validated \cup {<<req[r].on, req[r].user>>}
    /\ Goto(r, "setUser")
    /\ UNCHANGED <<user, passkey, online, announced, spent, renewed, contended>>

SetUser(r) ==
    /\ req[r].pc = "setUser"
    /\ user' = [user EXCEPT ![req[r].on] = req[r].user]
    /\ Goto(r, "setPassKey")
    /\ UNCHANGED <<state, passkey, online, past, renewed, contended>>

SetPassKey(r) ==
    /\ req[r].pc = "setPassKey"
    /\ passkey' = [passkey EXCEPT ![req[r].on] = req[r].key]
    /\ Goto(r, "announce")
    /\ UNCHANGED <<state, user, online, past, renewed, contended>>

Announce(r) ==
    /\ req[r].pc = "announce"
    /\ announced' = [announced EXCEPT ![req[r].on] = [user |-> req[r].user, key |-> req[r].key]]
    /\ Finish(r)
    /\ UNCHANGED <<keys, online, validated, spent, renewed, contended>>

-----------------------------------------------------------------------------
\* POST /authentication/signin with a token and a passkey: retrieveUserQRCode,
\* then handleSignIn.
StartRetrieve(r, t, k) ==
    /\ state[t] = "validated"
    /\ StartOn(r, t, [Idle EXCEPT !.pc = "readPassKey", !.on = t, !.key = k])
    /\ UNCHANGED <<keys, online, past, renewed>>

ReadPassKey(r) ==
    /\ req[r].pc = "readPassKey"
    /\ IF passkey[req[r].on] = req[r].key THEN Goto(r, "readUser") ELSE Finish(r)
    /\ UNCHANGED <<keys, online, past, renewed, contended>>

ReadUser(r) ==
    /\ req[r].pc = "readUser"
    /\ req' = [req EXCEPT ![r].pc = "delUser", ![r].user = user[req[r].on]]
    /\ UNCHANGED <<keys, online, past, renewed, contended>>

DelUser(r) ==
    /\ req[r].pc = "delUser"
    /\ user' = [user EXCEPT ![req[r].on] = NULL]
    /\ Goto(r, "delState")
    /\ UNCHANGED <<state, passkey, online, past, renewed, contended>>

DelState(r) ==
    /\ req[r].pc = "delState"
    /\ state' = [state EXCEPT ![req[r].on] = NULL]
    /\ Goto(r, "delPassKey")
    /\ UNCHANGED <<user, passkey, online, past, renewed, contended>>

\* A key that had expired gives no user: refused, after the deletions.
DelPassKey(r) ==
    /\ req[r].pc = "delPassKey"
    /\ passkey' = [passkey EXCEPT ![req[r].on] = NULL]
    /\ announced' = [announced EXCEPT ![req[r].on] = NULL]
    /\ IF req[r].user = NULL THEN Finish(r) ELSE Goto(r, "signIn")
    /\ UNCHANGED <<state, user, online, validated, spent, renewed, contended>>

HandleSignIn(r) ==
    /\ req[r].pc = "signIn"
    /\ ComeOnline(req[r].user)
    /\ spent' = spent \cup {<<req[r].on, req[r].key>>}
    /\ Finish(r)
    /\ UNCHANGED <<keys, announced, validated, contended>>

-----------------------------------------------------------------------------
\* Presence.  Connect: /users/connect, /authentication/refresh and a sign-in by
\* password; Disconnect: /users/disconnect and /authentication/logout.
Connect(u) ==
    /\ ComeOnline(u)
    /\ UNCHANGED <<keys, req, past, contended>>

Disconnect(u) ==
    /\ online' = [online EXCEPT ![u] = NULL]
    /\ UNCHANGED <<keys, req, past, renewed, contended>>

\* GET /users/onlines reads all the entries, then deletes those that, as it read
\* them, are expired when it comes to them.
StartOnlines(r) ==
    /\ req[r].pc = "idle"
    /\ req' = [req EXCEPT ![r] = [Idle EXCEPT !.pc = "drop", !.listed = online]]
    /\ renewed' = [renewed EXCEPT ![r] = {}]
    /\ UNCHANGED <<keys, online, past, contended>>

Drop(r, u) ==
    /\ req[r].pc = "drop"
    /\ req[r].listed[u] = 0
    /\ online' = [online EXCEPT ![u] = NULL]
    /\ req' = [req EXCEPT ![r].listed[u] = NULL]
    /\ UNCHANGED <<keys, past, renewed, contended>>

Skip(r, u) ==
    /\ req[r].pc = "drop"
    /\ req[r].listed[u] \in Nat \ {0}
    /\ req' = [req EXCEPT ![r].listed[u] = NULL]
    /\ UNCHANGED <<keys, online, past, renewed, contended>>

EndOnlines(r) ==
    /\ req[r].pc = "drop"
    /\ \A u \in Users : req[r].listed[u] = NULL
    /\ Finish(r)
    /\ renewed' = [renewed EXCEPT ![r] = {}]
    /\ UNCHANGED <<keys, online, past, contended>>

-----------------------------------------------------------------------------
\* Time.

Older(x) == IF x \in Nat \ {0} THEN x - 1 ELSE x

Tick ==
    /\ online' = [u \in Users |-> Older(online[u])]
    /\ req' = [r \in Requests |-> IF req[r].listed = NULL THEN req[r] ELSE
            [req[r] EXCEPT !.listed = [u \in Users |-> Older(req[r].listed[u])]]]
    /\ UNCHANGED <<keys, past, renewed, contended>>

ExpireState(t) ==
    /\ state[t] # NULL
    /\ state' = [state EXCEPT ![t] = NULL]
    /\ announced' = [announced EXCEPT ![t] = NULL]
    /\ contended' = IF Quiet(t) THEN contended ELSE contended \cup {t}
    /\ UNCHANGED <<user, passkey, online, req, validated, spent, renewed>>

ExpireUser(t) ==
    /\ user[t] # NULL
    /\ user' = [user EXCEPT ![t] = NULL]
    /\ contended' = contended \cup {t}
    /\ UNCHANGED <<state, passkey, online, req, past, renewed>>

ExpirePassKey(t) ==
    /\ passkey[t] # NULL
    /\ passkey' = [passkey EXCEPT ![t] = NULL]
    /\ contended' = contended \cup {t}
    /\ UNCHANGED <<state, user, online, req, past, renewed>>

\* The awaited call rejects, or the process stops.
Fail(r) ==
    /\ MayFail
    /\ req[r].pc # "idle"
    /\ Finish(r)
    /\ renewed' = [renewed EXCEPT ![r] = {}]
    /\ contended' = contended \cup ({req[r].on} \ {NULL})
    /\ UNCHANGED <<keys, online, past>>

QRCode(r) ==
    \/ \E t \in Tokens : StartSubscribe(r, t)
    \/ \E t \in Tokens, u \in Users, k \in PassKeys : StartValidate(r, t, u, k)
    \/ \E t \in Tokens, k \in PassKeys : StartRetrieve(r, t, k)
    \/ SetPending(r) \/ SetValidated(r) \/ SetUser(r) \/ SetPassKey(r) \/ Announce(r)
    \/ ReadPassKey(r) \/ ReadUser(r) \/ DelUser(r) \/ DelState(r) \/ DelPassKey(r)
    \/ HandleSignIn(r)

Onlines(r) ==
    StartOnlines(r) \/ EndOnlines(r) \/ \E u \in Users : Drop(r, u) \/ Skip(r, u)

Next ==
    \/ \E r \in Requests : QRCode(r) \/ Onlines(r) \/ Fail(r)
    \/ \E t \in Tokens :
          GenerateQRCode(t) \/ ExpireState(t) \/ ExpireUser(t) \/ ExpirePassKey(t)
    \/ \E u \in Users : Connect(u) \/ Disconnect(u)
    \/ Tick

Spec == Init /\ [][Next]_vars

-----------------------------------------------------------------------------
\* Properties.

\* Whoever a QR code signs in has validated that very code, however validations,
\* retrievals and expiries of its three keys interleave.
SignsInWhoValidated ==
    \A r \in Requests : req[r].pc = "signIn" => <<req[r].on, req[r].user>> \in validated

\* A passkey that has signed somebody in is gone for good: a retrieval that comes
\* after it, even before the other keys are deleted, is refused.
SpentIsGone ==
    \A s \in spent : passkey[s[1]] # s[2]

\* The browser is told a passkey when, and as long as, it can sign in with it:
\* the three keys are those of the validation announced, if no other request met
\* those on the code and no key expired alone.
CodesAsAnnounced ==
    \A t \in Tokens \ contended : Quiet(t) =>
        /\ announced[t] = NULL <=> state[t] # "validated"
        /\ announced[t] # NULL => announced[t] = [user |-> user[t], key |-> passkey[t]]

\* A listing puts offline only users whose entry has expired, or who came back
\* while it was being served.
DropsOnlyStale ==
    [][\A r \in Requests, u \in Users :
         (req[r].pc = "drop" /\ req'[r] # req[r] /\ online[u] \in Nat \ {0} /\ online'[u] = NULL)
            => u \in renewed[r]]_vars

-----------------------------------------------------------------------------
\* How far a code is, as its browser sees it, and who is about to come in.
Stage ==
    [t \in Tokens |-> IF announced[t] # NULL THEN "told"
                      ELSE IF state[t] = "validated" THEN "approved" ELSE state[t]]
Due ==
    {<<req[r].on, req[r].user, req[r].key>> : r \in {s \in Requests : req[s].pc = "signIn"}}

Promise == INSTANCE Codes WITH
    code <- Stage, told <- announced, approved <- validated, due <- Due, doubt <- contended

\* Three keys are set, read and deleted one by one, and still every step is one of
\* Codes or none: a code on which nothing interfered lets in the user its browser
\* was told, with the passkey it was told, once; and any code only who validated it.
ImplementsCodes == Promise!Spec
=============================================================================
