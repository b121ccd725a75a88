# beep-api in TLA+

beep-api is the AdonisJS (Node) backend of a chat application: users befriend
each other, create servers with members, roles and channels, and exchange
messages.  Its state is a PostgreSQL database reached through the Lucid ORM, a
redis store, an S3 bucket, and the subscriptions of the clients (Transmit,
server-sent events).  Requests are served concurrently by one event loop:
between two `await`s a handler runs alone, at every `await` any other request
may run.  Apart from one transaction, in the creation of a server, no handler
uses transactions or locks.  What can go wrong here is therefore the
interleaving of requests at their awaits, and the failure of one database call
after others succeeded, or of one write to redis or S3 that goes with a write
to the database.  That is what this directory models.

1. [Inventory](#inventory): components, state, hard behaviours, properties
2. [Modules](#modules): which module models what, and how
3. [Runs](#runs): what TLC checks, bounds, fairness
4. [Proofs](#proofs): what TLAPS proves, and along which argument
5. [Findings](#findings): where code and docs disagree
6. [What does not hold](#what-does-not-hold): what one would expect, and the code does not do
7. [Assumptions and what is not modelled](#assumptions-and-what-is-not-modelled)
8. [Plan](#plan)

## Inventory

Sources are under `src/apps/`.  A service holds the logic of a component, a
controller validates a request, asks a policy and calls one or two services.

| Component | State | Operations | Modelled |
|---|---|---|---|
| Friend invitations (`invitations`) | table `invitations` | `createFriend`, `answerFriendInvitation` | `Friendship` |
| Friends (`friends`) | table `friends`, private chats in `channels`, `channels_users` | `createFriendship`, `deleteFriendship` | `Friendship` |
| Servers (`servers`) | table `servers` | `create` (the transaction), `delete`, `update`, banners and icons | `Membership`, `Channels`, `Storage` (names, visibility: no) |
| Members (`members`) | `members` | `createForServer`, `createFromInvitation`, `create` | `Membership` (nicknames: no) |
| Roles (`roles`) | `roles`, `roles_members` | `create`, `update`, `deleteById`, `assign`, `assignToMembers`, `unassign` | `Membership`, `Access` |
| Permission masks and policies (`shared`, `servers/policies`) | the masks of `roles` | `PermissionsService`, `getMemberPermissions`, the policies | `Access` |
| Server invitations | `invitations` | `createForServer` | `Membership` |
| Channels (`channels`) | `channels`, `channels_users` | `create`, `update`, `deleteById` | `Channels` |
| Voice presence (`channels`) | redis | `joinVoiceChannel`, `quitVoiceChannel`, ... | no |
| Messages and pins (`messages`) | `messages`, the broadcasts of each channel | `create`, `update`, `destroy`, `pinning` | `Messages` |
| Files (`storage`) | `attachments`, columns that name a picture, S3 | `store`, `update`, `destroy`, pictures | `Storage` |
| Webhooks (`webhooks`) | `webhooks`, the messages they post, two feeds | `create`, `update`, `delete`, `trigger` | `Webhooks` |
| QR codes and presence (`authentication`, `users`) | redis keys `qr-code:*`, hash `userStates` | generate, subscribe, validate, retrieve; connect, list, disconnect | `SignIn` |
| Accounts (`authentication`, `users`) | tables `users`, `tokens` | sign-up, password, reset, address, second factor | `Credentials` |
| One-time passwords (`users`) | keys `otp:*` | `verifyOtp` | no |
| Mail, notifications, health check, JWT guard, S3 driver, limiter | none of their own | | no: I/O and glue |

**How they interact.**  By calls and by shared tables.  Answering an invitation
calls `FriendService.createFriendship`, which calls `ChannelService` to find or
make the private chat.  Joining reads an invitation, inserts a member, looks a
role up and attaches it, while other requests rename, assign and delete roles
and servers.  The deletion of a server cascades, through foreign keys, to its
members, roles, invitations and channels, whatever request is about to insert
into them.  Every route of a server awaits a policy, which reads roles that
other requests change.  A message takes its files to S3 one by one; a webhook
posts messages and outlives its channel.  A browser and a phone meet on a QR
code through three keys of redis.  Foreign keys and unique constraints are often what repairs a check
that was stale, and where there is none, nothing does.

**Hard behaviours.**  Checks separated from the write they guard by an await
(invitations, friendships, joins, positions and parents of channels); sequences
of statements that may stop half way; a promise that is not awaited
(`member_service.ts:80`); a policy that is not awaited, or asked after the
write (`server_channels_controller.ts:53`); permissions read in several statements, and
twice (`server_role_policy.ts:23`); a file stored in one place and described in
another; Lucid's single primary key under a
composite key; state in redis under several keys that expire one by one.
`PROJECT.json` lists each of them at its line with the properties that cover it.

**What correct means**, per modelled component:

* *Friendship*: one open invitation, one row and one private chat per pair;
  an answer stays; friends have a chat; nobody becomes a friend without an
  invitation; the tables implement the social graph users are shown.
* *Membership*: a server keeps its owner and its default role (every policy
  needs both); roles stay in their server; nothing of a deleted server remains;
  private servers are entered by invitation; a unique invitation admits one.
* *Channels*: no channel outlives its folder or its server; new channels hang
  under folders only; a new channel goes first.
* *Messages*: no message outlives its channel or what it replies to; what
  subscribers were last told of a message is what is stored; a pin takes back no
  edit.
* *Access*: who is admitted held what the route needs; who holds it all along is
  not refused.
* *SignIn*: a code signs in who validated it, once; what the browser is told can
  be used; nobody who is online is put offline by a listing.
* *Credentials*: who was told what to sign in with can sign in, to its own
  account.
* *Webhooks*: names are unique in a channel; the feeds say what is stored; a
  webhook posts as long as it is.
* *Storage*: a file is there and is what its row says; a message is broadcast
  with all its files; a picture that is named is stored.

## Modules

| Module | What it is |
|---|---|
| `Friendship` | detailed model of invitations, friendships and private chats |
| `SocialGraph` | abstract specification: who has invited whom, who is friend of whom |
| `FriendshipProofs` | theorems about `Friendship` |
| `Membership` | servers, members, roles and server invitations |
| `Communities` | abstract specification: who is inside which server, which invitations are still good |
| `MembershipProofs` | theorems about `Membership` |
| `Channels` | the channel tree of servers |
| `ChannelsProofs` | theorems about `Channels` |
| `Messages` | the messages of channels and what their subscribers are told |
| `Feed` | abstract specification: what those who follow a channel are told, and when it is true |
| `MessagesProofs` | theorems about `Messages` |
| `Access` | the policies: masks, and the reads that decide while roles change |
| `AccessProofs` | theorems about `Access` |
| `SignIn` | QR codes and who is online, in redis |
| `Codes` | abstract specification: a code, who approves it, what its browser is told, who comes in by it |
| `SignInProofs` | theorems about `SignIn`, and about `Credentials`, which it instantiates |
| `Credentials` | accounts: address, password, second factor, mailed tokens |
| `Webhooks` | the webhooks of channels, their broadcasts and their messages |
| `Posters` | abstract specification: who may post into which channel, and its known name |
| `WebhooksProofs` | theorems about `Webhooks` |
| `Storage` | attachments and pictures, in the database and in S3 |
| `StorageProofs` | theorems about `Storage` |
| `MCFriendship`, `MCMembership`, ..., one for each model | symmetry sets and bounds for TLC |

**Common conventions.**  A table is a function from ids to rows, `NULL` where
there is none.  `Requests` is a set of slots, each a request being served:
`req[r].pc` names the awaited call that comes next, the other fields are the
handler's locals.  One action is one awaited statement, with the synchronous
code up to the next await.  Where a handler makes a single write and what it
read before it cannot have changed when the write happens (the columns it reads
are never updated and foreign keys check the rows again), it is one action.  An
exception and a response both end the request (`Finish`).  Ids are UUIDs: an id
is new when no row and no request has it.  `Fail`, enabled by the constant
`MayFail`, is a rejected database call or the death of the process: the locals
are lost and what was written stays.

Beside each model, under *Faults*, is the same action with one mistake in it (a
dropped check, a check the wrong way round, a missing write): every property is
known to fail when the model contains the mistake listed for it in
`PROJECT.json`.

**Friendship.**  `StartInvite`, `CheckNotFriends`, `CheckNotInvited`,
`InsertInvitation` are `InvitationService.createFriend`; `StartAnswer` (the
policy) to `SaveAnswer` are `answerFriendInvitation` with the `createFriendship`
it awaits; `StartUnfriend`, `FindRow`, `DeleteRow` are `deleteFriendship`.  The
key of `friends` is the ordered pair, checks look in both directions.  Lucid
keeps one primary key per model, the last declared, so `delete()` filters on
`friend_id` alone: the constant `PrimaryKey` holds the columns of that filter.
The theorems hold for either, or both, columns.  The answer `Pending`, which the
validator admits, changes no column, so that its save writes nothing.

**SocialGraph.**  Two undirected relations, `invited` and `befriended`, and four
atomic steps.  `Friendship!Graph` maps the pending rows to one and the rows of
`friends` to the other; as long as no two requests add to the same pair at the same time, every step of
`Friendship` is a step of the graph or a stutter.  `Unfriend` may drop several friends at once,
because of the primary key above: the graph promises only that they all are
friends of the same user.

**Membership.**  `JoinPublic`, `JoinPrivate`, `InsertMember`, `FindDefaultRole`,
`AttachRole` and `SaveInvitation` are `MemberService`.  `createFromInvitation`
calls `create` without awaiting it, then saves the invitation: a slot carries
both strands, `pc` for the creation and `save` for the save, and they run in any
order and fail apart.  The other handlers are one action each.  Visibility and
owner of a server are never updated, so that they are read at once.  The roles
that are looked up by name are those with `basic`, the name of the default role
(names are not unique); the default role is the one that has its server's id.
`admitted` is history: who came in by which invitation.  `ServersListed` is what
the limit counts: empty, because it goes through the pivot `servers_users`
which no statement fills.  Policies are left out as guards, which only admits
more behaviours; the owner passes all of them as long as `ServersComplete`
holds.

**Communities.**  Servers, who is inside them, and what invitations are worth, in
six atomic steps; a unique invitation is spent in the step that lets somebody
in.  `Membership` does that in three: a join reads the status, inserts the
member and saves the status, the last two in any order.  `Worth` maps them: a
unique invitation is kept good by a join that has not inserted yet, also when
the save came first, and is spent from the insertion, also when the save is
still to come.  What remains of a join that fails is a step of its own, `Waste`.
The mapping is exact as long as no two joins use one unique invitation at a time
and no save fails.

**Channels.**  `StartCreate` to `Attach` are `ChannelService.create`:
parent check, positions, insertion (where the foreign keys check server and
parent again), pivot.  `StartUpdate` and `Save` are `update`: the row is read
and merged, then only the columns that differ from what was read are written,
to a row that may be gone.  `DeleteChannel` is `deleteById`, `CreateServer` and
`DeleteServer` what `ServerService` does to channels.  `Subtrees` is the cascade
of `parent_id`, the least set closed under it, which also describes the cascade
on the cycles that `update` can make.  `later` is history: for a request about
to insert, the channels others stored or moved since it read the positions.

**Messages.**  `StartCreate`, `Insert`, `SignalCreate` are
`MessageService.create`; `StartEdit`, `Save`, `SignalUpdate` are `update`;
`StartDestroy`, `SignalDelete`, `DeleteRow` are `destroy`; a pin is `StartPin`,
then the creation of its announcement, then `FindAgain`, `Save` and
`SignalUpdate`.  A statement and the broadcast after it are two actions, since
other statements reach the database before the handler resumes.  `signal[m]` is
the last broadcast about `m`, which is all that a subscriber is assumed to keep.
`pinning` hands `update` the Lucid instance it read at first: merging one
instance into another makes them share their attributes and their originals, so
that the save writes the one dirty column and the broadcast carries the row as
it was read, with the new `pinned`.  A slot has the attributes (`row`) and the
originals (`was`) of its instance, and `Dirty` compares them, as `save()` does;
`asked` is history, the columns to which the client gave another value than the
request read.  A creation signals a message without `pinned`, which is the
database's default, `FALSE`.  `PinsKeepEdits` then says, of each column of each
message, that whoever changes it was asked to: an instance merged the other way,
old attributes over fresh originals, takes an edit back and violates it.
`unannounced` is history too: the messages whose creation failed between the row
and its broadcast.  `contended` is history: the messages whose last request failed or met
another one on the same message.  Two requests that meet may save in one order
and broadcast in the other, so nothing is promised of these messages until a
request that runs alone repairs them.  `Replies` is the cascade of
`parent_message_id`, the least closed set, which is not broadcast: a message
may be gone without a signal when its channel or what it replies to is
(`GoneAlong`).

**Feed.**  A broadcast about a message is one step, and true in that step: it
carries the message as it is then.  The first one is the creation and no other
is, and a message is removed after its deletion was told.  `Messages` implements it with its rows,
signals and `contended` as they are (`Audience`): what a request broadcasts it
read some awaits before, so that each step of `Feed` hides that nothing changed
in between.  Three things are left out of the promise, as the code leaves them out:
what a cascade takes goes without a word, and may be spoken of afterwards (an
edit whose message went with its channel is broadcast all the same); of a message
whose creation failed before it was told (`unannounced`), a later change may be
the first thing said; and a message in doubt, on which requests met or failed,
may be spoken of wrongly.

**Access.**  A mask is the set of its bits, as `has_permission` is inclusion of
bits and roles add up by union; `isValidMask` admits the bits of the enum.
`Rules` has one element for each condition of the policies under which a user is
admitted, and `Admits` is what they mean on one consistent reading.  The code
does not read once: `ReadMembers` is `userPartOfServer`, `ReadRoles` and
`ReadDefault` are the two statements of `getMemberPermissions`, run for the hook
`before` and, unless it decided, again for the action (`Decide`).  `CreateRole`
to `UnassignRole` are the writes of `RoleService`, by a request that was
admitted (`Admitted`): here, or, with `Foreign`, on another server, since the
controller authorizes the server of the route and hands over the role of the
route without a look at its server.  Another role, a join or the deletion of the
server may come between any two reads.  `ever` and `steady` are history: what the caller held at some
time since it asked, and all that time and from the same role.  The two routes
that do not wait for an answer are left out (see *What does not hold*).

**SignIn.**  One action is one redis command, since that is all redis does at
once: `StartSubscribe`, `SetPending` are the authorization in
`start/transmit.ts`; `StartValidate` to `Announce` are `validateQRCodeToken` and
the broadcast to the browser; `StartRetrieve` to `HandleSignIn` are
`retrieveUserQRCode` and `handleSignIn`.  Each of the three keys may expire alone
between any two commands (`ExpireState`, `ExpireUser`, `ExpirePassKey`).
Passkeys are random: `NewPassKey` draws one that nobody has, but a client may
present any, a wrong one too.  `Connect`, `Disconnect` and a listing
(`StartOnlines`, `Drop`, `Skip`, `EndOnlines`) write the hash `userStates`;
`Tick` is time, in units that make a `Lifetime`, and ages what a listing has read
as well, as the listing compares `expiresAt` to the clock when it comes to an
entry.  `contended` has the codes on which requests met or failed or a key
expired alone: two users may validate the same code, and then the browser may be
told a passkey that is not the one stored.

**Codes.**  A code is shown, followed by its browser, approved by one user, told
(a passkey for that user), taken with what was told, and its user comes in,
once: six atomic steps for all the commands of `SignIn`.  `Promise` maps
them: a code is approved from the first of the three keys that a validation
sets, told from the broadcast, and taken by the last of the three deletions
(`Stage`); who is about to come in (`Due`) are the requests that have nothing to
read any more.  A code in doubt (`contended`) may be at any stage; but no code,
in doubt or not, is told or lets anybody in for a user who has not approved it.

**Credentials.**  A row is read, then the columns that differ are written; a
change names the `aspect` it is about.  The account is the `sub` of the access
token, except in `updatePassword`, which looks for the email in the token and the
old password (`verifyCredentials`): `former` is the email that tokens drawn
before the last change of address still name, until they have lapsed (`Lapse`).
So the account that is changed (`user`) may not be the one that asks (`by`).  An email is an address and how it is
written (`lower`, `mixed`), as sign-up and every sign-in put it in lower case and
the updates do not.  `knows` is history: what the user was last told to sign in
with, `"unsure"` where the request failed, met another of the same aspect, changed
another account than its own (then of both), was answered without being done (`StartReset` on an expired token) or saved what
cannot be signed in with.  `Accepts` is `authenticate` with or without a code.
`StartDisable`, `RollSecret`, `FindFlag`, `SaveFlag` are the disabling of the
second factor, which draws a secret it does not give before the flag is off.
`Active` bounds the accounts that change after sign-up; the others are there to
compete for an address.

**Webhooks.**  `StartCreate`, `InsertHook`, `StartUpdate`, `Save`,
`StartDelete`, `DeleteHook`, `StartTrigger`, `InsertPost` are the statements of
`WebhookService`, `Tell` the broadcast after them.  `Taken` is the unique index
on channel and name, which decides what the look-up before it cannot.  `Save`
writes the columns that differ from the row that was read.  An update merges the
body into that row (`Merged`), the id included: it reads the webhook of the route
(`h`) and writes and broadcasts the one of the body (`g`), which then is
`"unsure"` unless they are the same.  Nothing ties a
webhook to its channel: `DeleteChannel` takes the messages only, and a trigger
is refused by the foreign key of the message.  `told` is history: the name that
the last broadcast about a webhook had, on either of the two feeds.

**Posters.**  Who may post into which channel under which name, one atomic step
per promise; `Webhooks` implements it with the rows and what was told of them
(`Directory`).  To post is two steps: a caller is admitted while the poster is
signed and has a user, which gives it a licence for the poster's channel, and
spends the licence on one post there.  `Licence` maps the triggers past their
checks to it.  A poster is changed, used or removed only while its channel knows
it by its name, so that the channel is one broadcast behind at most; its name is
free where it takes it; and when a licence is spent the poster still is signed
and has a user, although `trigger` checked both before an await.

Of a webhook in doubt, on which requests met or failed or which was written with
another's id, less holds, and the refinement says no more: it stays in its
channel, its name is nobody else's there, and it still takes a licence to post,
which is good for one post into the channel of the licence.  That is what the
code gives when a webhook is deleted, renamed or loses its token between a
trigger's look and its post: one more post in its name, and no second one.

**Storage.**  A key of the store is made of the owner's id and the client's name
of the file, so that two attachments of a message may share one.
`StartCreate`, then `Upload` and `Insert` for each file, then `Announce`, are
`MessageService.create`; `StartUpdate` to `SaveType` are `StorageService.update`,
which stores the file before it looks the row up; `StartDestroy`, `DeleteFile`,
`DeleteRow` are `destroy`.  A deletion of the message takes the rows and leaves
the files.  `Holders` are the rows with a picture (servers, users, webhooks),
`StartPicture`, `UploadPicture`, `SavePicture` any of the routes that change it.
`contended` has the keys of two attachments and those on which requests met
(from when each took the key up) or failed.  `asked` and `announced` are history:
with which files a message was sent, and whether it was broadcast.

The modules are checked apart, and share tables as follows.  `servers`: only its
creation and its deletion are common to `Membership`, `Channels`, `Access` and
`Storage`.  `roles`: `Membership` has their rows and who holds them, with
everything that writes members; `Access` has their masks, and of joining and
deleting only the effect.  `channels`: the private chats of `Friendship` have no
server and no position, the channels of `Channels` have a server; `Messages`
and `Webhooks` need of a channel only that it is deleted.  `messages`: `Messages`
has what is told of them, `Storage` their files, `Webhooks` those that a trigger
inserts.  `userStates`: a sign-in by password is `Connect` in `SignIn`, what
decides it is in `Credentials`.

## Runs

| Run | Instance | States | Shows |
|---|---|---|---|
| `friendship_serial` | 3 users, 1 slot, 3 invitations, 2 chats, failures | 92,932 | one pending invitation, row and chat per pair; answers stay; implements `SocialGraph` |
| `friendship_race` | 2 users, 2 slots, 2 invitations, 2 chats | 237,369 | under every interleaving friends have, and get, their chat; no friendship without invitation |
| `membership_race` | 2 users, 2 servers, 1 custom role, 1 invitation, 2 slots, failures | 66,066 | the five invariants under joins racing joins and management |
| `membership_serial` | 3 users, 1 server, 1 role, 2 invitations, 1 slot | 50,497 | a unique invitation admits one user, and ends up spent; implements `Communities` |
| `channels_race` | 2 servers, 2 channels, 2 slots, failures | 209,577 | the tree stays stored, creations go first |
| `messages_race` | 2 messages, 1 channel, 2 slots, failures | 840,890 | subscribers show what is stored, or know it is gone; pins keep edits, and edits pins; implements `Feed` |
| `access_race` | 2 users, default and 2 custom roles, 3 masks, 3 routes, 1 slot, roles written at any time | 247,408 | whoever is admitted held what the route needs; no race costs a right |
| `signin_race` | 2 users, 1 code, 2 passkeys, 2 slots, failures | 513,465 | used passkeys are gone; the browser is told what works; listings drop stale entries only; implements `Codes` |
| `credentials_race` | 2 accounts, 2 addresses, 2 passwords, 2 secrets, 1 token, 2 slots, failures | 2,043,731 | who was told for sure what to sign in with can |
| `webhooks_race` | 2 webhooks, 2 channels, 2 names, 1 message, 2 slots, failures | 621,442 | the feeds say what is stored; implements `Posters` |
| `storage_race` | 1 message of up to 3 files, 2 attachments, 2 names, 1 picture, 2 slots, failures | 1,226,532 | files are as described; messages are broadcast complete; named pictures are stored |
| `friendship_unfriend` | 3 users, 1 slot | violated | the finding |

**Bounds.**  Every bounded set is a constant, marked *bound* where the program
has no such limit.

* Two slots give every pairwise interleaving; all the races found need two.
  That more slots add nothing is what the theorems show for the properties
  they cover.
* Three users are needed where one invitation concerns two of them and a third
  has a row with one of the two (`Rows`, `SameKey`, a second taker of an
  invitation); two users where the property is about one pair.
* Ids are never reused while stored or referred to, so two or three of a kind
  suffice to befriend, unfriend and befriend again, or to answer two crossing
  invitations.
* Two channels give a folder with a child, a channel under itself and a cycle of
  two.  Deeper trees are covered by the theorems.  `NewPositions = {0}` and
  `LowestPosition = -1` give a channel moved back among the others and a
  creation before it; positions are only compared.
* Two messages and one channel give a reply, a pin with its announcement, and an
  edit or a deletion racing either; `NewContents` has one content besides the
  announcement's, which is enough to tell an edited row from a pinned one, and
  `NewPinned = {TRUE, NULL}` gives edits that set `pinned` and that leave it; what
  clears it here is a pin.
* `ServerLimit = 1` stands for the code's 50.
* `Access`: a mask of each kind that the decisions tell apart, one that is not
  valid among them, and a route of each: one that changes roles, one with two
  ways in and a hook that refuses, one that only asks for membership.  A role
  that is created, given, and destroyed while the default role is updated is what
  a caller may lose or gain between two reads.  One slot is enough, as requests
  meet only in the tables: with `Foreign` every write of a role is enabled between
  any two of its reads, which is all that other slots could do.
* `SignIn`: one code, as codes share nothing, and a second passkey for a second
  validation.  `Lifetime = 1` separates an entry that lives from one that has
  expired.
* `Credentials`: the second account competes for an address, and may take the one
  that the first gave up, with the same password.  `former` keeps the last such
  address only.  Two secrets let a request draw one while the user knows the other, or
  two requests each draw the first; what a third would add is in the theorems.
  With one account in `Active`, `View` identifies states that behave alike: it drops
  an earlier email that no other account can have, or that the account has again,
  and an expired token of an account that makes no request.
* `Webhooks`: two webhooks may meet in one channel under one of two names; a post
  may be deleted and posted again, so that one id is enough.
* `Storage`: with two names and up to three files, a message may send two files
  of one key and take up a key again after another.  What three attachments would
  add is in the theorems.
* `Types` in `MCChannels` leaves out `VOICE_SERVER` and `PRIVATE_CHAT`, which no
  check of the program treats otherwise than `TEXT_SERVER` and a non-folder.

Symmetry is used only in runs without liveness.  Deadlock is checked in every
run but `storage_race`: a server that has served its requests receives others,
and where ids run out something can still be undone.  In `storage_race` a file
that stays in the store after its message keeps the id of the message in use
for good, so that the ids of the bound may run out.

**Fairness.**  `FairSpec` in `Friendship` and `Membership` is weak fairness of
the continuation of each slot: Node runs the continuation of every promise that
has settled, and a database call settles.  Requests are received with no
fairness at all.  The liveness properties (`FriendsGetChat`, `SpentOnceUsed`)
are stated with `MayFail = FALSE`, since nothing in the code resumes a request
that failed.

**One slot or two.**  `OneOfEachPerPair`, `AnsweredOnce`, `ImplementsGraph`,
`AdmitsOne` and `ImplementsCommunities` are checked with one slot: the code checks, then writes, and no
constraint of the database backs the check.  With two requests on the same pair,
or on the same invitation, they fail (see *What does not hold*).  The theorems
say under which condition they hold with any number of slots: `PairsApart` and
`JoinsApart`, which one slot meets by itself (`OneAtATime`).  The other
properties hold with two slots (those of `Access` with one, beside writes at any
moment) and, as the proofs show, with any number.

## Proofs

All theorems hold for every value of the constants that satisfies the named
assumption of the module (`FriendshipAssumption`, `AccessAssumption`,
`StorageAssumption`, ...: the kinds of values are apart, bounds have their types),
so for any number of users, servers, channels, messages and concurrent requests.  TLC
evaluates the assumptions in the passing runs.

**FriendshipProofs.**  `WellFormed` strengthens `TypeOK` with what a request
past a label may rely on: which of its locals are set, and that an answering
request names the users of its stored invitation (invitations are never
deleted, and creator and target never change).  It is inductive
(`AlwaysWellFormed`); `TypeCorrect` follows.  `StrangersAlwaysStayApart` is
inductive over it: rows and members of chats come from the locals of an
answering request, which come from an invitation.  `FriendsAlwaysHaveChat`
(assuming `~MayFail`) needs `OwnChat` besides: no two requests, and no stored
chat, share the id that a request is about to give, so that inserting and
attaching it disturbs no other chat.

What the checks of the code guarantee although nothing locks is proved under
`PairsApart`: of two requests that invite or answer, no two are about the same
two users at the same time.  Any number may run, each on a pair of its own, and
friendships may be ended at any moment, also between a check and the write it
guards, since that only takes away.  `Checked` is then inductive beside
`WellFormed` and `OwnChat`: what a request found out is still so when it writes
(`StillTrue`: the two are not friends, no invitation is open, the invitation
answered is pending), no chat of the pair is stored when it makes one, and there is one of each
per pair.  From it follow `NeverTwoOfAnything`, the action property
`AnswersStay`, and the refinement `ImplementsSocialGraph`, with a lemma for each
kind of step (`InvitesInGraph`, `BefriendsInGraph`, `ClosesInGraph`,
`UnfriendsInGraph`); what fails half way leaves rows that the graph ignores.

**MembershipProofs.**  `Invariant` proves `[]Inv`, where `Inv` is the five
invariants, `DefaultRoles` (a stored role with a server's id belongs to that
server) and `JoinsOK`: what a join in progress knows of the rows it read, if
they still are stored: its server is public or its invitation is for it, the
role it found is of its server.  `ServersComplete` and `RolesStayInServer` need
each other and `JoinsOK`; `PrivateByInvitation` needs that the invitation of a
join, if stored, is of that join's server.  A unique invitation has a second
invariant, `Uses`: once somebody came in by it, it is no longer pending or a
join is about to save it; a join that has not inserted its member yet has let
nobody in.  It is inductive over `Inv` while no two joins use the same unique
invitation at the same time (`JoinsApart`) and no save of an invitation fails
(`SavesSucceed`; creations may).  Both are needed: the code saves the invitation
beside the creation and waits for neither.  Over `Inv` and `Uses`,
`ImplementsCommunity` proves the refinement of `Communities`, with a lemma for
each kind of step; `InsertCommunity` is the one in which a user enters and the
invitation is spent, and `SaveCommunity` shows that the save, before or after,
changes the worth of no invitation.

**ChannelsProofs.**  `Inv` adds to `TypeOK`, `TreeStored` and `GoesFirst` two
conjuncts: `Fresh`, the id of a creation is nobody's row, parent or other
request's id; and `ParentsOK`, a creation past its check has a parent that is a
folder or no longer stored (types never change, so the foreign key at the
insertion decides).  `GoesFirst` is kept by deletions, which shrink the set
compared, and by every write, which `later` records.  `SubtreesClosed`
characterises the cascade without recursion: the subtrees are closed, hence no
row left has a parent that is gone, for trees of any depth.

**MessagesProofs.**  `Inv` follows a message from its insertion to the signal
about it.  Of every message: `Places`, its signals and the requests on it agree
with its row on channel and parent, which never change; `Fresh`, the id of a
message about to be inserted is known to nobody.  Of the messages that are not
contended: `Alone`, at most one request works on them; and `Works`, what that
request read still is what is stored, but for the columns it is about to write.
So its broadcast, which carries what it read and wrote, carries the row; and if
the row went away meanwhile, a cascade took it, whose reason `Places` finds in
the signal.  `DeleteKeeps` treats the deletion of a message and of a channel
together: both remove a set closed under the foreign keys whose members each
have a reason to go (`RepliesOK`, again without recursion).
`PinsAlwaysKeepEdits` is an action property.  It needs an invariant of its own,
`Asked`: at every label up to its `Save`, across the creation of an announcement
and the second look-up, what the instance of a request has dirty is what its
client asked for.

`ImplementsAudience` is the refinement of `Feed`, with no condition on the
requests.  It needs two more invariants.  `Unheard`: a creation that is about to
be broadcast, of a message not contended, is the first that is heard of it.
`Announced`: a stored message was heard of, or is about to be by its creation, or
is one of the `unannounced`; and one that a request works on, not contended, is
no longer waiting for its creation to be told.  Each
broadcast has a lemma; `ToldAsStored` is what they share: by `Alone` and `Works`
the row it carries is the one stored now, or went with what `Places` finds.  A
deletion and a closed channel use the closed sets of `DeleteKeeps`.

**AccessProofs.**  `Reading` says what a request being decided knows: what it
read, the caller held at some time (it is in `ever`); and of what is steady it
missed nothing, since each of it comes either from a role of the caller, already
read, or from the default role, which is read last.  The other requests, and with
`Foreign` those of other servers, only add to `ever` and take from `steady`.  `NoGhosts` (a server that is gone has no
members) is what makes a refusal for want of the default role sound.

**WebhooksProofs.**  The invariant is about the webhooks on which no request
failed or met another.  On these at most one request is at work (`Alone`), what
it read is stored and was told, and what it has yet to tell is what it stored
(`AsRead`).  Of any webhook, the request that saves it knows its channel, which
never changes: so the index that `Taken` stands for is asked about the right
channel, and `OneNamePerChannel` is inductive.

`ImplementsDirectory` is the refinement of `Posters`, with no condition on the
requests, and a lemma for each kind of step.  `TriggerAdmitted` gives a trigger its
licence by what it checks; `LicenceOf` and `LicencesStay` carry it across the steps
of others, and nothing but its own message spends it.  A change or a deletion
needs, of a webhook that is not `"unsure"`, that its row still is what was read and
what was told (`AsRead`); a message needs it in full, with the token and the user
that `trigger` checked before the await; of any webhook it needs that the channel
read is the webhook's, if there still is one (`SlotOK`: rows never change channel
and ids are not given twice).  A broadcast tells what was stored by the same
request.

**SignInProofs.**  `UsersOK`: whoever is found under a code, or was read from it,
has validated it; the state that the validation sets first is what makes it so.
`KeysOK`: a passkey that was drawn and is not set yet is nobody's, so that a
client that presents it has guessed, and is refused by `readPassKey`; one that is
about to sign somebody in is not stored any more, because the deletion of the
passkey is the last of the three.  `ListsOK`: an entry is as old as the listing
that read it takes it to be, unless it is gone or renewed.

`CodesAsAnnounced` has an invariant of its own, `CodesOK`.  On a code that is not
contended at most one request is at work (`Alone`).  When none is, the keys are
what was announced (`AsAnnounced`).  When one is, its label tells which keys
already are those of the validation and which are still as before, or, in a
retrieval, which are already deleted (`Progress`).

`ImplementsPromise` is the refinement of `Codes`, with no condition on the
requests.  `Progress` gives the stage of a code not in doubt at each label, and
that a retrieval past the passkey holds what was announced.  That a code is
approved and used once needs a third invariant, `OnceOK`: a code that waits was
validated by nobody, and one that somebody came in by has no state, and so
nobody takes it up.  What holds of codes in doubt too, that they
only serve users who approved them, comes from `UsersOK`, which follows the user from the
validation to the broadcast and from the look-up to the sign-in.

The module ends with `Credentials`, instantiated as `A` because its names are
those of `SignIn`; `CredentialsAssumption`, which TLC evaluates in
`credentials_race`, is a hypothesis of its theorems.  `AccountsOK` has four parts
besides types.  `RowsOK`: a request that met no other one of its aspect finds in
the row what it read or wrote (`Agrees`).  `Met`: two requests on one aspect of
an account both know that they met.  `OneAccountPerEmail`: what the unique index
keeps, and what makes the account that `verifyCredentials` finds the only one.
`KnownOK`: of each of address, password and second factor, the user is
unsure, or the row has what it was told, or a request has written something else
and is about to tell it or to fail.  A request on an account that is not the one that asks ends by
making both unsure (`LoseKeeps`).  With no request on the account only the
first two are left, and the index makes the account the only one that accepts
what the user knows.

**StorageProofs.**  Of a message being sent, each file has its row or is among
those yet to do (`FilesSent`, for lists of any length).  A key that is not
contended is of one attachment and of one request at most (`Unique`, `Alone`);
its file is what the row says until that request writes (`Described`) and then
what the request sent (`Works`).  That needs every meeting of requests on a key
to be recorded when the second takes the key up, also when it does so in the
middle of a message, on coming to its next file (`Insert`).  `PicturesOK`: a
request that is about to save a picture has stored it, and files of pictures are
never deleted.

| Theorem | Property, checked by |
|---|---|
| `TypeCorrect` (twice), `MembershipTyped`, `ChannelsTyped`, `MessagesTyped`, `WebhooksTyped`, `SignInTyped`, `AccountsTyped`, `StorageTyped` | the `TypeOK` of each |
| `StrangersAlwaysStayApart`, `FriendsAlwaysHaveChat` | `friendship_race` |
| `NeverTwoOfAnything`, `AnswersStay`, `ImplementsSocialGraph`, `OneAtATime` | `friendship_serial` |
| `ServersStayComplete`, `RolesNeverCross`, `NeverOrphans`, `PrivateOnlyByInvitation` | `membership_race` |
| `OneUserPerInvitation`, `ImplementsCommunity`, `OneAtATime` | `membership_serial` |
| `TreeAlwaysStored`, `AlwaysGoesFirst` | `channels_race` |
| `AlwaysBornInFolder` | proved only: `BornInFolder` is an action property of `Channels` |
| `RepliesAlwaysStored` | proved only: `RepliesStored` of `Messages` |
| `AlwaysShownAsStored`, `AlwaysGoneIsSignalled`, `PinsAlwaysKeepEdits`, `ImplementsAudience` | `messages_race` |
| `GrantsSound`, `RefusalsSound` | `access_race` |
| `SpentForGood`, `OnlyStaleDropped`, `ToldWhatSignsIn`, `ImplementsPromise` | `signin_race` |
| `OnlyWhoValidated` | proved only: `SignsInWhoValidated` of `SignIn`, which `ImplementsCodes` also gives |
| `NobodyLockedOut` | `credentials_race` |
| `HooksAlwaysAsTold`, `ImplementsDirectory` | `webhooks_race` |
| `NamesNeverMeet`, `PostsAlwaysByTold` | proved only: `OneNamePerChannel` and `PostsByTold` of `Webhooks`, which `ImplementsPosters` also gives |
| `AlwaysDescribed`, `AlwaysAnnouncedComplete`, `PicturesAlwaysStored` | `storage_race` |

**Only model-checked.**  Liveness (`FriendsGetChat`, `SpentOnceUsed`), which is
out of the reach of the installed provers.  Every other property of a passing
run is a theorem.

## Findings

`friendship_unfriend`: `Friend` declares two primary key columns, Lucid keeps one;
ending a friendship deletes all rows with the same `friend_id`.  `PROJECT.json`
quotes the lines of both sides.

## What does not hold

What one would expect of the code, and it does not guarantee.  Where it is
modelled, the property is stated so that it leaves the case out, and says so.

* Answers, joins and server creation:
  * two concurrent answers to a friend invitation both pass the check, and the
    later save overwrites the earlier answer (`invitation_service.ts:160`);
  * the creator of a friend invitation may accept it in the target's place
    (`invitation_policy.ts:22`);
  * two concurrent joins use the same unique invitation (`member_service.ts:80`);
  * the limit on the servers of a user counts the rows of a pivot that nothing
    fills, and never applies (`server_service.ts:61`).
* Channels: `update` accepts any channel as a parent, also one that is no folder
  or the channel itself (`channel_service.ts:242`); `deleteChannel` deletes before
  it asks the policy (`server_channels_controller.ts:53`).
* Servers: `destroy` does not await the policy (`server_controller.ts:103`);
  `update` hands the row to a policy that expects its id (`:73-74`).
* Roles: the policy is asked about the server of the route, and the role of the
  route is written whatever its server is (`server_roles_controller.ts:48`, `:58`,
  `:65`, `role_service.ts:66`).
* Messages: of two requests that meet on a message the subscribers may keep what
  lost (`message_service.ts:144`), and the broadcast of a pin shows the content
  from before an edit it met (`message_service.ts:80`), until a request runs alone;
  a creation that fails after the insertion is never announced
  (`message_service.ts:123`).
* Accounts:
  * a reset token that has expired is answered as if the password were updated
    (`authentication_controller.ts:167-169`), and one that was used is not
    consumed (`authentication_service.ts:142`);
  * a new address is saved as it was written, while every sign-in puts it in
    lower case (`user_service.ts:133`);
  * the mail that says the address *has been* changed (`mail_service.ts:157-160`)
    is sent before the row is saved, which may be refused (`user_service.ts:67`);
    and a save that fails for any other reason than a name or an address is
    answered as done (`user_service.ts:73`);
  * disabling the second factor draws a new secret first
    (`authentication_controller.ts:247`): a failure in between, or a `finalize`
    that passed its check before (`authentication_service.ts:255`), leaves an
    account that asks for codes of a secret nobody has;
  * a new password goes to the account that has the email of the access token and
    the old password (`authentication_controller.ts:157`), and the token names an
    email for 15 minutes after it was given up: whoever took it meanwhile, with the
    same old password, is locked out, and the one who asked is told it is done;
  * the token of a change of address lives 20 seconds, where the comment says one
    day (`user_service.ts:107`).
* Sign-in: two users who validate one code, or two browsers that subscribe to it,
  leave its three keys mixed (`authentication_service.ts:160`, `transmit.ts:8`);
  the code then is refused or signs in either, never anybody else.
* Webhooks: no route gives `params.ownerId`, so that a webhook made over HTTP has
  no user and its trigger is refused (`server_webhooks_controller.ts:20`,
  `webhook_service.ts:207`); updates are broadcast in the feed of messages, the
  other changes in the feed of webhooks (`webhook_service.ts:113`).  `Owners` has
  both a user and `NULL`, as the service allows either.
  An update writes the webhook whose id is in the body, of whatever channel
  (`webhook_service.ts:92`).  A trigger that has read a webhook posts although it
  was deleted or lost its token meanwhile (`webhook_service.ts:164`).
* Presence: a listing deletes the entry of a user who came back since it read the
  entries (`users_v0_controller.ts:101`).
* Files: a deletion that fails between the file and the row leaves a row without a
  file (`storage_service.ts:53`), and two requests on one key a row that says what
  the file is not (`storage_service.ts:43`): such keys are left out of
  `DescribedAsStored` until the message is deleted.  Two attachments of one name
  share a file; files whose row was refused,
  or whose message was deleted, are never removed.

## Assumptions and what is not modelled

* PostgreSQL executes each statement atomically, refuses violations of foreign
  keys and unique constraints, and cascades in the same statement.
* Users are never deleted (no route does), nor are friend invitations.
* `DELETE /servers/:serverId/channels/:channelId` takes any channel id.
  `Friendship` and `Channels` assume that clients pass a channel of the server,
  not a private chat; the hazard is listed.
* Names, nicknames and descriptions are left out of `Membership`, masks are in
  `Access`, icons and banners in `Storage`; names and descriptions, and the redis key that `update`
  deletes and nothing sets, out of `Channels`.
* `Messages` leaves out owners, attachments (see `Storage`), mentions and
  notifications, the messages of webhooks (see `Webhooks`), the unused column
  `reply_to_message_id`, and the policy, which only admits more behaviours.
  Signals reach the subscribers in the order they are broadcast.
* A refused request that reads only (an expired invitation, a policy that
  denies) changes nothing and is left out, as are listings.
* redis executes each command atomically and may drop a key with a lifetime at any
  time; S3 stores a file or does not.
* What is broadcast of a webhook that was written with the id of another is left
  open in `Webhooks` (`"unsure"`).
* `Credentials` leaves out user names and the rest of the profile, the
  confirmation of an address (`verifiedAt`, which nothing reads), refresh and
  logout (cookies and presence), and `createEmailToken` (the route that would
  consume it is commented out).
* Not modelled: voice presence and one-time passwords, small and apart from the
  rest; mentions and notifications, which only format and broadcast; mails; the
  verification of JWTs, which has no shared state; the glue of the framework, of
  S3 and of the limiter; the health check.

## Plan

Done: `Friendship` with `SocialGraph`, `Membership` with `Communities`,
`Channels`, `Messages` with `Feed`, `Access`, `SignIn` with `Codes`,
`Credentials`, `Webhooks` with `Posters`, and `Storage`, each with its runs, and
with proofs.  Left:

1. `Presence`: voice channels in redis and one-time passwords, with keys that
   expire.
