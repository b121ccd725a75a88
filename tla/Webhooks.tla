------------------------------- MODULE Webhooks -------------------------------
(***************************************************************************)
(* The webhooks of channels (WebhookService, ServerWebhooksController):    *)
(* created, renamed, deleted and triggered, each with a broadcast after    *)
(* the row was written, and the messages that a trigger posts.             *)
(*                                                                         *)
(* No foreign key ties a webhook to its channel, nor a message to its      *)
(* webhook: only the messages of a channel go with it.  A name is looked   *)
(* up before it is taken, and a unique index decides.  Left out: the       *)
(* pictures (see Storage), the server of a webhook, which is only stored,  *)
(* and who may call the routes (members of the server, or for the trigger  *)
(* anyone).                                                                *)
(***************************************************************************)
EXTENDS Naturals

CONSTANTS
    Hooks,          \* bound: the UUIDs that may be given to webhooks
    Channels,       \* the channels there are at first
    Names,          \* bound: the names that clients give to webhooks
    Owners,         \* who creates: a user, or NULL as the route has no owner
    PostIds,        \* bound: the UUIDs that may be given to messages of webhooks
    Requests,       \* slots for HTTP requests being served at the same time
    MayFail,        \* whether an awaited call may reject (or the process die)
    NULL

\* Signed with the key of the application, or any other string.
Tokens == {"signed", "other"}
Hook == [channel: Channels, name: Names, user: Owners, token: Tokens]
Post == [hook: Hooks, channel: Channels]

ASSUME WebhooksAssumption ==
    /\ MayFail \in BOOLEAN
    /\ NULL \notin Hooks /\ NULL \notin Names /\ NULL \notin Channels
    /\ NULL \notin Tokens /\ NULL \notin Hook /\ NULL \notin Post
    /\ NULL # "unsure"

VARIABLES
    hooks,          \* webhooks: id -> row, or NULL
    channels,       \* the channels stored
    posts,          \* messages of webhooks: id -> row, or NULL
    req,            \* slot -> where the request is, and its local variables
    told            \* history: webhook -> the name it was last broadcast with (on
                    \* either feed of its channel), NULL before and once deleted,
                    \* and "unsure" since a request on it failed, met another, or
                    \* read another webhook

vars == <<hooks, channels, posts, req, told>>

Labels == {"idle", "insert", "save", "delete", "post", "tell"}

\* hook: the row at work on, once it is known; row: the row to insert, or the row
\* that a trigger read; name, token: what to save, NULL when it was so in the row
\* that was read; tells: the name to broadcast.
Request == [pc: Labels, hook: Hooks \cup {NULL}, row: Hook \cup {NULL},
            name: Names \cup {NULL}, token: Tokens \cup {NULL},
            tells: Names \cup {NULL}]

Idle == [pc |-> "idle", hook |-> NULL, row |-> NULL, name |-> NULL,
         token |-> NULL, tells |-> NULL]

TypeOK ==
    /\ hooks \in [Hooks -> Hook \cup {NULL}]
    /\ channels \subseteq Channels
    /\ posts \in [PostIds -> Post \cup {NULL}]
    /\ req \in [Requests -> Request]
    /\ told \in [Hooks -> Names \cup {NULL, "unsure"}]

Init ==
    /\ hooks = [h \in Hooks |-> NULL]
    /\ channels = Channels
    /\ posts = [p \in PostIds |-> NULL]
    /\ req = [r \in Requests |-> Idle]
    /\ told = [h \in Hooks |-> NULL]

-----------------------------------------------------------------------------
Stored(h) == hooks[h] # NULL
Quiet(h) == \A r \in Requests : req[r].hook # h

\* The unique index: another webhook of the channel has the name.
Taken(c, n, h) ==
    \E g \in Hooks \ {h} : Stored(g) /\ hooks[g].channel = c /\ hooks[g].name = n

NewHook(h) == ~ Stored(h) /\ told[h] = NULL /\ Quiet(h)
NewPost(p) == posts[p] = NULL

Goto(r, label) == req' = [req EXCEPT ![r].pc = label]
Finish(r) == req' = [req EXCEPT ![r] = Idle]
Meets(h) == told' = IF Quiet(h) THEN told ELSE [told EXCEPT ![h] = "unsure"]

\* A trigger has read the row of a webhook.
Found(h) == [Idle EXCEPT !.pc = "post", !.hook = h, !.row = hooks[h]]

\* An update has read the row of h, and merged what the client sent into it.
Merged(h, g, n, t) == [Idle EXCEPT !.pc = "save", !.hook = g, !.tells = n,
    !.name = IF n = hooks[h].name THEN NULL ELSE n,
    !.token = IF t = hooks[h].token THEN NULL ELSE t]

\* What remains is to broadcast the webhook by this name, or its deletion.
ThenTell(r, h, n) == req' = [req EXCEPT ![r] = [Idle EXCEPT !.pc = "tell", !.hook = h, !.tells = n]]

-----------------------------------------------------------------------------
\* Faults: what each property is tested against is the action of the same place
\* with the mistake its name says.

InsertUnsigned(r, h) ==
    /\ req[r].pc = "insert" /\ NewHook(h)
    /\ hooks' = [hooks EXCEPT ![h] = [req[r].row EXCEPT !.token = NULL]]
    /\ ThenTell(r, h, req[r].row.name)
    /\ UNCHANGED <<channels, posts, told>>

TrustTheLookup(r, h) ==
    /\ req[r].pc = "insert" /\ NewHook(h)
    /\ hooks' = [hooks EXCEPT ![h] = req[r].row]
    /\ ThenTell(r, h, req[r].row.name)
    /\ UNCHANGED <<channels, posts, told>>

TellBeforeSave(r, h, g, n, t) ==
    /\ req[r] = Idle /\ Stored(h)
    /\ req' = [req EXCEPT ![r] = Merged(h, g, n, t)]
    /\ told' = [told EXCEPT ![g] = IF g = h /\ Quiet(h) THEN n ELSE "unsure"]
    /\ UNCHANGED <<hooks, channels, posts>>

TriggerUnsigned(r, h) ==
    /\ req[r] = Idle /\ Stored(h) /\ hooks[h].user # NULL
    /\ req' = [req EXCEPT ![r] = Found(h)]
    /\ Meets(h)
    /\ UNCHANGED <<hooks, channels, posts>>

-----------------------------------------------------------------------------
\* create: the name is looked up in the channel, whatever the channel is.
StartCreate(r, c, n, owner) ==
    /\ req[r] = Idle
    /\ ~ \E h \in Hooks : Stored(h) /\ hooks[h].channel = c /\ hooks[h].name = n
    /\ req' = [req EXCEPT ![r] = [Idle EXCEPT !.pc = "insert",
            !.row = [channel |-> c, name |-> n, user |-> owner, token |-> "signed"]]]
    /\ UNCHANGED <<hooks, channels, posts, told>>

InsertHook(r, h) ==
    /\ req[r].pc = "insert" /\ NewHook(h)
    /\ IF Taken(req[r].row.channel, req[r].row.name, h)
         THEN UNCHANGED hooks /\ Finish(r)
         ELSE /\ hooks' = [hooks EXCEPT ![h] = req[r].row]
              /\ ThenTell(r, h, req[r].row.name)
    /\ UNCHANGED <<channels, posts, told>>

\* update: the row of the route's id (h) is read, and what the client sent merged
\* into it, without a look at what it is: the token when there is one (t), and the
\* id of the body (g), of which the row is then the one that is written and told of.
StartUpdate(r, h, g, n, t) ==
    /\ req[r] = Idle /\ Stored(h)
    /\ req' = [req EXCEPT ![r] = Merged(h, g, n, t)]
    /\ IF g = h THEN Meets(h) ELSE told' = [told EXCEPT ![g] = "unsure"]
    /\ UNCHANGED <<hooks, channels, posts>>

\* Only the columns that differ from the row read are written, nothing if the row is
\* gone; a name that is taken ends the request.
Save(r) ==
    LET q == req[r]
        h == q.hook
    IN  /\ q.pc = "save"
        /\ IF Stored(h) /\ q.name # NULL /\ Taken(hooks[h].channel, q.name, h)
             THEN UNCHANGED hooks /\ Finish(r)
             ELSE /\ hooks' = [g \in Hooks |->
                        IF g = h /\ Stored(h)
                          THEN [hooks[h] EXCEPT !.name = IF q.name = NULL THEN @ ELSE q.name,
                                                !.token = IF q.token = NULL THEN @ ELSE q.token]
                          ELSE hooks[g]]
                  /\ ThenTell(r, h, q.tells)
        /\ UNCHANGED <<channels, posts, told>>

\* delete: the messages of the webhook are kept.
StartDelete(r, h) ==
    /\ req[r] = Idle /\ Stored(h)
    /\ req' = [req EXCEPT ![r] = [Idle EXCEPT !.pc = "delete", !.hook = h]]
    /\ Meets(h)
    /\ UNCHANGED <<hooks, channels, posts>>

DeleteHook(r) ==
    /\ req[r].pc = "delete"
    /\ hooks' = [hooks EXCEPT ![req[r].hook] = NULL]
    /\ ThenTell(r, req[r].hook, NULL)
    /\ UNCHANGED <<channels, posts, told>>

\* trigger: the token of the row must be signed, and the row have a user.
StartTrigger(r, h) ==
    /\ req[r] = Idle /\ Stored(h)
    /\ hooks[h].token = "signed" /\ hooks[h].user # NULL
    /\ req' = [req EXCEPT ![r] = Found(h)]
    /\ Meets(h)
    /\ UNCHANGED <<hooks, channels, posts>>

\* The foreign key refuses a message whose channel is gone.
InsertPost(r, p) ==
    /\ req[r].pc = "post" /\ NewPost(p)
    /\ IF req[r].row.channel \in channels
         THEN /\ posts' = [posts EXCEPT ![p] = [hook |-> req[r].hook,
                                                channel |-> req[r].row.channel]]
              /\ ThenTell(r, req[r].hook, req[r].row.name)
         ELSE UNCHANGED posts /\ Finish(r)
    /\ UNCHANGED <<hooks, channels, told>>

\* The broadcast that ends a request.
Tell(r) ==
    /\ req[r].pc = "tell"
    /\ told' = [told EXCEPT ![req[r].hook] = IF @ = "unsure" THEN @ ELSE req[r].tells]
    /\ Finish(r)
    /\ UNCHANGED <<hooks, channels, posts>>

\* The awaited call rejects, or the process stops.
Fail(r) ==
    /\ MayFail
    /\ req[r].pc # "idle"
    /\ Finish(r)
    /\ told' = [h \in Hooks |-> IF h = req[r].hook THEN "unsure" ELSE told[h]]
    /\ UNCHANGED <<hooks, channels, posts>>

\* A channel goes with its messages, and leaves its webhooks.
DeleteChannel(c) ==
    /\ c \in channels
    /\ channels' = channels \ {c}
    /\ posts' = [p \in PostIds |->
            IF posts[p] # NULL /\ posts[p].channel = c THEN NULL ELSE posts[p]]
    /\ UNCHANGED <<hooks, req, told>>

\* A message is deleted like any other (see Messages).
DeletePost(p) ==
    /\ posts[p] # NULL
    /\ posts' = [posts EXCEPT ![p] = NULL]
    /\ UNCHANGED <<hooks, channels, req, told>>

Managed(r) ==
    \/ \E c \in Channels, n \in Names, owner \in Owners : StartCreate(r, c, n, owner)
    \/ \E h \in Hooks : InsertHook(r, h) \/ StartDelete(r, h)
    \/ \E g, h \in Hooks, n \in Names, t \in Tokens \cup {NULL} : StartUpdate(r, h, g, n, t)
    \/ Save(r) \/ DeleteHook(r) \/ Tell(r)

Triggered(r) ==
    \/ \E h \in Hooks : StartTrigger(r, h)
    \/ \E p \in PostIds : InsertPost(r, p)

Next ==
    \/ \E r \in Requests : Managed(r) \/ Triggered(r) \/ Fail(r)
    \/ \E c \in Channels : DeleteChannel(c)
    \/ \E p \in PostIds : DeletePost(p)

Spec == Init /\ [][Next]_vars

-----------------------------------------------------------------------------
\* Properties.

\* Two webhooks of a channel have different names, although creations and renamings
\* look a name up, or not at all, before they write it.
OneNamePerChannel ==
    \A g, h \in Hooks :
        g # h /\ Stored(g) /\ Stored(h)
            => <<hooks[g].channel, hooks[g].name>> # <<hooks[h].channel, hooks[h].name>>

\* The last broadcast about a webhook gives its name as stored, and its deletion once
\* it is gone, unless requests on it failed or met, or one was sent with the id of
\* another webhook: a renaming that is refused is not broadcast, and a message of the
\* webhook is broadcast under the name it has.
HooksAsTold ==
    \A h \in Hooks :
        told[h] # "unsure" /\ Quiet(h)
            => told[h] = IF Stored(h) THEN hooks[h].name ELSE NULL

\* A message is posted only by a webhook that was broadcast and whose deletion was
\* not, unless requests on it failed or met, or one was sent with another's id.
PostsByTold ==
    [][\A p \in PostIds :
        posts'[p] # NULL /\ posts'[p] # posts[p]
            => told[posts'[p].hook] # NULL]_vars

-----------------------------------------------------------------------------
\* A trigger that was let in, and has yet to post.
Licence(r) ==
    IF req[r].pc = "post" THEN [hook |-> req[r].hook, channel |-> req[r].row.channel] ELSE NULL

Directory == INSTANCE Posters
    WITH poster <- hooks, known <- told, licence <- [r \in Requests |-> Licence(r)]

\* Requests read a webhook, write it and broadcast it one await after the other, and
\* still every step is one of Posters or none.  Of every webhook: its name is nobody
\* else's in its channel, which it never leaves, and each post was let in by a look at
\* the token and the user, goes into the channel that was read then, and is the only
\* one that look allows.  Of a webhook on which no request failed or met another also:
\* a change waits until the one before was broadcast, and what posts is at that moment
\* signed, has a user, and is stored under the name the channel was told.  The code
\* does not promise the latter of a webhook that is deleted, renamed or given a token
\* while a trigger is between its look and its post.
ImplementsPosters == Directory!Spec
=============================================================================
