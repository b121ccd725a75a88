------------------------------ MODULE Credentials ------------------------------
(***************************************************************************)
(* What an account is signed in with: its address, its password and, once  *)
(* the second factor is on, the codes of a secret (AuthenticationService,  *)
(* UserService), with the tokens that are mailed to reset a password.      *)
(*                                                                         *)
(* Every change reads the row, then writes the columns that differ from    *)
(* what was read; an address is looked up, and the unique index decides.   *)
(* A request names its account by the sub of an access token; a change of  *)
(* the password names it by the email in the token, which the account may  *)
(* have given up since.                                                    *)
(*                                                                         *)
(* Left out: the QR codes (see SignIn), how a token is got (an account can *)
(* always have one: it refreshes), user names and the rest of the profile, *)
(* the confirmation of addresses, which no sign-in asks for, the hashing.  *)
(***************************************************************************)
EXTENDS Naturals

CONSTANTS
    Users,          \* bound: the UUIDs that may be given to accounts
    Active,         \* bound: those of them that make requests after they were made
    Addresses,      \* the addresses of clients
    Passwords,
    Secrets,        \* bound: the random secrets of the codes
    Tokens,         \* bound: the random tokens that are mailed
    Requests,       \* slots for HTTP requests being served at the same time
    MayFail,        \* whether an awaited call may reject (or the process die)
    NULL

\* An address is written in lower case or not: toLowerCase tells them apart.
Emails == Addresses \X {"lower", "mixed"}
lower(e) == <<e[1], "lower">>

\* secret: the last one drawn; totp: TOTPAuthentication, whether codes are asked for.
User == [email: Emails, password: Passwords, totp: BOOLEAN, secret: Secrets \cup {NULL}]
Token == [owner: Users, live: BOOLEAN]
Known == [email: Addresses \cup {"unsure"}, password: Passwords \cup {"unsure"},
          secret: Secrets \cup {NULL, "unsure"}]

\* What a request may change of an account.
Aspects == {"email", "password", "secret"}

ASSUME CredentialsAssumption ==
    /\ Active \subseteq Users
    /\ MayFail \in BOOLEAN
    /\ NULL \notin Users /\ NULL \notin Tokens /\ NULL \notin Aspects
    /\ NULL \notin Emails /\ NULL \notin Passwords /\ NULL \notin Secrets
    /\ NULL \notin User /\ NULL \notin Token

VARIABLES
    users,          \* accounts: id -> row, or NULL
    tokens,         \* tokens mailed: token -> row, or NULL
    former,         \* account -> the email it had before the last one, while access
                    \* tokens that name it live, or NULL (bound: only that one)
    req,            \* slot -> where the request is, and its local variables
    knows           \* history: account -> what its user was last told to sign in with,
                    \* "unsure" if the request that changed it failed or met another,
                    \* or was not its own

vars == <<users, tokens, former, req, knows>>

Labels == {"idle", "insert", "createToken", "savePassword", "saveEmail",
           "saveSecret", "rollSecret", "findFlag", "saveFlag", "answer"}

\* user: the account at work on, once it is known; by: the account that asks for it;
\* aspect: what the request changes of what the user knows; email, password, secret:
\* what is sent, or drawn; on, was: the flag to save and the value that was read; met:
\* another request changed the same.
Request == [pc: Labels, user: Users \cup {NULL}, by: Users \cup {NULL}, aspect: Aspects \cup {NULL},
            email: Emails \cup {NULL}, password: Passwords \cup {NULL},
            secret: Secrets \cup {NULL}, wasEmail: Emails \cup {NULL},
            on: BOOLEAN, was: BOOLEAN, met: BOOLEAN]

Idle == [pc |-> "idle", user |-> NULL, by |-> NULL, aspect |-> NULL, email |-> NULL,
         password |-> NULL, secret |-> NULL, wasEmail |-> NULL,
         on |-> FALSE, was |-> FALSE, met |-> FALSE]

Nothing == [email |-> "unsure", password |-> "unsure", secret |-> "unsure"]

TypeOK ==
    /\ users \in [Users -> User \cup {NULL}]
    /\ tokens \in [Tokens -> Token \cup {NULL}]
    /\ former \in [Users -> Emails \cup {NULL}]
    /\ req \in [Requests -> Request]
    /\ knows \in [Users -> Known]

Init ==
    /\ users = [u \in Users |-> NULL]
    /\ tokens = [t \in Tokens |-> NULL]
    /\ former = [u \in Users |-> NULL]
    /\ req = [r \in Requests |-> Idle]
    /\ knows = [u \in Users |-> Nothing]

-----------------------------------------------------------------------------
Stored(u) == users[u] # NULL

\* findOrFail, within the bound.
Found(u) == u \in Active /\ Stored(u)

\* The account with this email, if this is its password (by an auth finder).
verifyCredentials(e, p) == {u \in Users : Stored(u) /\ users[u].email = e /\ users[u].password = p}

\* The unique index: another account has the email.
Taken(e, u) == \E v \in Users \ {u} : Stored(v) /\ users[v].email = e

NewUser(u) == ~ Stored(u)
\* A random token that nobody holds; one that has expired is given up for it.
NewToken(t) == tokens[t] # NULL => ~ tokens[t].live
NewSecret(s) ==
    /\ \A u \in Users : knows[u].secret # s /\ (Stored(u) => users[u].secret # s)
    /\ \A r \in Requests : req[r].secret # s

Goto(r, label) == req' = [req EXCEPT ![r].pc = label]
Finish(r) == req' = [req EXCEPT ![r] = Idle]
\* What was read is of no use any more.
Done(r) == req' = [req EXCEPT ![r].pc = "answer", ![r].wasEmail = NULL,
                              ![r].on = FALSE, ![r].was = FALSE]

WorksOn(r, u, a) == req[r].user = u /\ req[r].aspect = a
Quiet(u) == \A r \in Requests : req[r].user # u

\* A request starts to change something of an account, alone or not.
Take(r, q) ==
    LET others == {s \in Requests \ {r} : WorksOn(s, q.user, q.aspect)}
    IN  req' = [s \in Requests |->
            IF s = r THEN [q EXCEPT !.met = others # {}]
            ELSE IF s \in others THEN [req[s] EXCEPT !.met = TRUE] ELSE req[s]]

On(u, a, label) == [Idle EXCEPT !.pc = label, !.user = u, !.by = u, !.aspect = a]

\* From now on these users do not know this part of their credentials for sure.
Lose(some, a) == [u \in Users |-> IF u \notin some THEN knows[u] ELSE
    [email |-> IF a = "email" THEN "unsure" ELSE knows[u].email,
     password |-> IF a = "password" THEN "unsure" ELSE knows[u].password,
     secret |-> IF a = "secret" THEN "unsure" ELSE knows[u].secret]]

-----------------------------------------------------------------------------
\* Faults: what each property is tested against is the action of the same place
\* with the mistake its name says.

InsertWithoutDefault(r, u) ==
    /\ req[r].pc = "insert" /\ NewUser(u)
    /\ users' = [users EXCEPT ![u] = [email |-> req[r].email, password |-> req[r].password,
                                      totp |-> NULL, secret |-> NULL]]
    /\ req' = [req EXCEPT ![r] = On(u, NULL, "createToken")]
    /\ UNCHANGED <<tokens, former, knows>>

SaveTakenEmail(r) ==
    LET q == req[r]
    IN  /\ q.pc = "saveEmail"
        /\ IF q.email = q.wasEmail THEN UNCHANGED <<users, former>> ELSE
             /\ users' = [users EXCEPT ![q.user].email = q.email]
             /\ former' = [former EXCEPT ![q.user] = users[q.user].email]
        /\ Done(r)
        /\ UNCHANGED <<tokens, knows>>

EnableOnly(r) ==
    /\ req[r].pc = "saveFlag"
    /\ users' = IF req[r].on THEN [users EXCEPT ![req[r].user].totp = TRUE] ELSE users
    /\ Done(r)
    /\ UNCHANGED <<tokens, former, knows>>

-----------------------------------------------------------------------------
\* POST /signup: registerUser, then the token of the mail.
StartRegister(r, e, p) ==
    /\ req[r] = Idle
    /\ ~ \E u \in Users : Stored(u) /\ users[u].email = lower(e)
    /\ req' = [req EXCEPT ![r] = [Idle EXCEPT !.pc = "insert", !.email = lower(e),
                                              !.password = p]]
    /\ UNCHANGED <<users, tokens, former, knows>>

Insert(r, u) ==
    LET q == req[r]
    IN  /\ q.pc = "insert" /\ NewUser(u)
        /\ IF Taken(q.email, u)
             THEN Finish(r) /\ UNCHANGED <<users, knows>>
             ELSE /\ users' = [users EXCEPT ![u] = [email |-> q.email, password |-> q.password,
                                                    totp |-> FALSE, secret |-> NULL]]
                  /\ knows' = [knows EXCEPT ![u] = [email |-> q.email[1],
                                                    password |-> q.password, secret |-> NULL]]
                  /\ req' = [req EXCEPT ![r] = On(u, NULL, "createToken")]
        /\ UNCHANGED <<tokens, former>>

\* POST /send-email and /reset-password: the account is found, and a token mailed.
StartMail(r, u) ==
    /\ req[r] = Idle /\ Found(u)
    /\ req' = [req EXCEPT ![r] = On(u, NULL, "createToken")]
    /\ UNCHANGED <<users, tokens, former, knows>>

CreateToken(r, t) ==
    /\ req[r].pc = "createToken" /\ NewToken(t)
    /\ tokens' = [tokens EXCEPT ![t] = [owner |-> req[r].user, live |-> TRUE]]
    /\ Finish(r)
    /\ UNCHANGED <<users, former, knows>>

\* Two hours have passed.
Expire(t) ==
    /\ tokens[t] # NULL /\ tokens[t].live
    /\ tokens' = [tokens EXCEPT ![t].live = FALSE]
    /\ UNCHANGED <<users, former, req, knows>>

-----------------------------------------------------------------------------
\* PATCH /password: u names an email, and the account with that email and the old
\* password is the one that is changed.
StartUpdatePassword(r, u, e, old, p) ==
    /\ req[r] = Idle /\ Found(u) /\ e \in {users[u].email, former[u]}
    /\ \E v \in verifyCredentials(e, old) :
          Take(r, [On(v, "password", "savePassword") EXCEPT !.by = u, !.password = p])
    /\ UNCHANGED <<users, tokens, former, knows>>

\* POST /verify-reset-password: the token is not consumed; when it is too old nothing
\* is done, and the answer is the same.
StartReset(r, t, p) ==
    /\ req[r] = Idle /\ tokens[t] # NULL /\ Found(tokens[t].owner)
    /\ IF tokens[t].live
         THEN /\ Take(r, [On(tokens[t].owner, "password", "savePassword") EXCEPT !.password = p])
              /\ UNCHANGED knows
         ELSE /\ knows' = Lose({tokens[t].owner}, "password")
              /\ UNCHANGED req
    /\ UNCHANGED <<users, tokens, former>>

SavePassword(r) ==
    /\ req[r].pc = "savePassword"
    /\ users' = [users EXCEPT ![req[r].user].password = req[r].password]
    /\ Goto(r, "answer")
    /\ UNCHANGED <<tokens, former, knows>>

-----------------------------------------------------------------------------
\* POST /users/@me/email/update (with the password) and PUT /users/@me: the new email
\* is saved as it was written.
StartUpdateEmail(r, u, e) ==
    /\ req[r] = Idle /\ Found(u)
    /\ Take(r, [On(u, "email", "saveEmail") EXCEPT !.email = e, !.wasEmail = users[u].email])
    /\ UNCHANGED <<users, tokens, former, knows>>

SaveEmail(r) ==
    LET q == req[r]
    IN  /\ q.pc = "saveEmail"
        /\ IF q.email # q.wasEmail /\ Taken(q.email, q.user)
             THEN UNCHANGED <<users, former>> /\ Finish(r)
             ELSE /\ IF q.email = q.wasEmail THEN UNCHANGED <<users, former>> ELSE
                       /\ users' = [users EXCEPT ![q.user].email = q.email]
                       /\ former' = [former EXCEPT ![q.user] = users[q.user].email]
                  /\ Done(r)
        /\ UNCHANGED <<tokens, knows>>

-----------------------------------------------------------------------------
\* POST /totp: the password is checked, then a secret drawn, saved and given.
StartTOTP(r, u) ==
    /\ req[r] = Idle /\ Found(u)
    /\ Take(r, On(u, "secret", "saveSecret"))
    /\ UNCHANGED <<users, tokens, former, knows>>

SaveSecret(r, s) ==
    /\ req[r].pc = "saveSecret" /\ NewSecret(s)
    /\ users' = [users EXCEPT ![req[r].user].secret = s]
    /\ req' = [req EXCEPT ![r].pc = "answer", ![r].secret = s]
    /\ UNCHANGED <<tokens, former, knows>>

\* POST /totp/complete: a code of the secret stored, then the flag.
StartFinalize(r, u) ==
    /\ req[r] = Idle /\ Found(u)
    /\ users[u].secret # NULL /\ knows[u].secret \in {users[u].secret, "unsure"}
    /\ Take(r, [On(u, "secret", "findFlag") EXCEPT !.on = TRUE, !.secret = users[u].secret])
    /\ UNCHANGED <<users, tokens, former, knows>>

\* POST /totp/disable: the secret is drawn anew, and not given, then the flag saved.
StartDisable(r, u) ==
    /\ req[r] = Idle /\ Found(u)
    /\ Take(r, On(u, "secret", "rollSecret"))
    /\ UNCHANGED <<users, tokens, former, knows>>

RollSecret(r, s) ==
    /\ req[r].pc = "rollSecret" /\ NewSecret(s)
    /\ users' = [users EXCEPT ![req[r].user].secret = s]
    /\ Goto(r, "findFlag")
    /\ UNCHANGED <<tokens, former, knows>>

FindFlag(r) ==
    /\ req[r].pc = "findFlag"
    /\ req' = [req EXCEPT ![r].pc = "saveFlag", ![r].was = users[req[r].user].totp]
    /\ UNCHANGED <<users, tokens, former, knows>>

SaveFlag(r) ==
    /\ req[r].pc = "saveFlag"
    /\ users' = IF req[r].on = req[r].was THEN users
                  ELSE [users EXCEPT ![req[r].user].totp = req[r].on]
    /\ Done(r)
    /\ UNCHANGED <<tokens, former, knows>>

-----------------------------------------------------------------------------
\* The answer: the user knows what was changed, if nobody else changed it meanwhile
\* and it is its own.  An email that is not in lower case cannot be signed in with.
Answer(r) ==
    LET q == req[r]
        u == q.user
    IN  /\ q.pc = "answer"
        /\ knows' =
             IF q.met \/ q.by # u \/ (q.aspect = "email" /\ q.email # lower(q.email))
               THEN Lose({u, q.by}, q.aspect)
             ELSE [knows EXCEPT ![u] =
                    [email |-> IF q.aspect = "email" THEN q.email[1] ELSE @.email,
                     password |-> IF q.aspect = "password" THEN q.password ELSE @.password,
                     secret |-> IF q.aspect = "secret" THEN q.secret ELSE @.secret]]
        /\ Finish(r)
        /\ UNCHANGED <<users, tokens, former>>

\* The access tokens that name an earlier email have lapsed (15 minutes).
Lapse(u) ==
    /\ former[u] # NULL
    /\ former' = [former EXCEPT ![u] = NULL]
    /\ UNCHANGED <<users, tokens, req, knows>>

\* The awaited call rejects, or the process stops, or the answer is lost.
Fail(r) ==
    /\ MayFail
    /\ req[r].pc # "idle"
    /\ Finish(r)
    /\ knows' = IF req[r].aspect = NULL THEN knows
                  ELSE Lose({req[r].user, req[r].by}, req[r].aspect)
    /\ UNCHANGED <<users, tokens, former>>

Mailed(r) ==
    \/ \E e \in Emails, p \in Passwords : StartRegister(r, e, p)
    \/ \E u \in Users : Insert(r, u) \/ StartMail(r, u)
    \/ \E t \in Tokens : CreateToken(r, t)
    \/ \E t \in Tokens, p \in Passwords : StartReset(r, t, p)

Changed(r) ==
    \/ \E u \in Users, e \in Emails, old, p \in Passwords : StartUpdatePassword(r, u, e, old, p)
    \/ \E u \in Users, e \in Emails : StartUpdateEmail(r, u, e)
    \/ \E u \in Users : StartTOTP(r, u) \/ StartFinalize(r, u) \/ StartDisable(r, u)
    \/ \E s \in Secrets : SaveSecret(r, s) \/ RollSecret(r, s)
    \/ SavePassword(r) \/ SaveEmail(r) \/ FindFlag(r) \/ SaveFlag(r) \/ Answer(r)

Next ==
    \/ \E r \in Requests : Mailed(r) \/ Changed(r) \/ Fail(r)
    \/ \E t \in Tokens : Expire(t)
    \/ \E u \in Users : Lapse(u)

Spec == Init /\ [][Next]_vars

-----------------------------------------------------------------------------
\* authenticate, authenticateWithTotp: the account that is signed in with an address,
\* a password and the codes of a secret (or none).
Accepts(a, p, s) ==
    {u \in verifyCredentials(lower(<<a, "mixed">>), p) :
        users[u].totp => users[u].secret = s}

-----------------------------------------------------------------------------
\* Properties.

\* Whoever knows for sure what it was told can sign in, and to its own account: no
\* sequence or interleaving of changes, of it or of others, locks it out.  The code
\* does not promise this of a password that was changed with an access token which
\* names an email that its account gave up: neither who asked nor whose account it
\* is now knows its password for sure.
CanSignIn ==
    \A u \in Users :
        LET k == knows[u]
        IN  Quiet(u) /\ "unsure" \notin {k.email, k.password, k.secret}
                => Accepts(k.email, k.password, k.secret) = {u}
=============================================================================
