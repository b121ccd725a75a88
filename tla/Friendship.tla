----------------------------- MODULE Friendship -----------------------------
(***************************************************************************)
(* Friend invitations, friendships and the private chat of two friends:    *)
(* InvitationService.createFriend and answerFriendInvitation, FriendService*)
(* createFriendship and deleteFriendship, ChannelService.findFromUsers.    *)
(*                                                                         *)
(* The tables invitations, friends and channels (with its pivot            *)
(* channels_users) are shared.  Requests run concurrently, and every await *)
(* of a database call is a place where another request may run: one action *)
(* per awaited statement.  No transaction is open anywhere in this code.   *)
(* Reads that only touch users are left out, users being never deleted.    *)
(***************************************************************************)
EXTENDS FiniteSets

CONSTANTS
    Users,          \* rows of the table users
    Requests,       \* slots for HTTP requests being served at the same time
    InvitationIds,  \* bound: the UUIDs that may be given to invitations
    ChatIds,        \* bound: the UUIDs that may be given to private chats
    PrimaryKey,     \* the columns of friends that Lucid puts in a DELETE
    MayFail,        \* whether an awaited call may reject (or the process die)
    NULL

Columns == {"user_id", "friend_id"}
InvitationStatus == {"Pending", "Accepted", "Declined"}
Invitation == [creator: Users, target: Users, status: InvitationStatus]

ASSUME FriendshipAssumption ==
    /\ PrimaryKey \in (SUBSET Columns) \ {{}}
    /\ MayFail \in BOOLEAN
    /\ NULL \notin Invitation \cup InvitationIds \cup ChatIds

VARIABLES
    invitations,    \* id -> row, NULL while the id is not given
    friends,        \* rows <<user_id, friend_id>>; the pair is the key
    chats,          \* ids of the stored private chats
    members,        \* chat id -> users attached to it in channels_users
    req             \* slot -> where the request is, and its local variables

tables == <<invitations, friends, chats, members>>
vars == <<invitations, friends, chats, members, req>>

Labels == {"idle",
           "areFriends", "isInvited", "insertInvitation",
           "readInvitation", "findFriendship", "insertFriend", "findChat",
           "insertChat", "attachUsers", "saveAnswer",
           "findRow", "deleteRow"}

Request == [pc: Labels, by: Users \cup {NULL},
            u: Users \cup {NULL}, v: Users \cup {NULL},
            inv: InvitationIds \cup {NULL},
            answer: InvitationStatus \cup {NULL}, chat: ChatIds \cup {NULL}]

Idle == [pc |-> "idle", by |-> NULL, u |-> NULL, v |-> NULL,
         inv |-> NULL, answer |-> NULL, chat |-> NULL]

TypeOK ==
    /\ invitations \in [InvitationIds -> Invitation \cup {NULL}]
    /\ friends \subseteq Users \X Users
    /\ chats \subseteq ChatIds
    /\ members \in [ChatIds -> SUBSET Users]
    /\ req \in [Requests -> Request]

Init ==
    /\ invitations = [i \in InvitationIds |-> NULL]
    /\ friends = {}
    /\ chats = {}
    /\ members = [c \in ChatIds |-> {}]
    /\ req = [r \in Requests |-> Idle]

-----------------------------------------------------------------------------
\* What the queries return.

Stored == {i \in InvitationIds : invitations[i] # NULL}

RowsOneWay(u, v) == {<<u, v>>} \cap friends
Rows(u, v) == {<<u, v>>, <<v, u>>} \cap friends
AreFriends(u, v) == Rows(u, v) # {}

PendingBetween(u, v) ==
    {i \in Stored : /\ invitations[i].status = "Pending"
                    /\ \/ invitations[i].creator = u /\ invitations[i].target = v
                       \/ invitations[i].creator = v /\ invitations[i].target = u}

ChatsOf(u, v) == {c \in chats : members[c] = {u, v}}

\* An id that no row has and that no request is about to give (a new UUID).
NewInvitation(i) == i \notin Stored /\ \A r \in Requests : req[r].inv # i
NewChat(c) == c \notin chats /\ \A r \in Requests : req[r].chat # c

Goto(r, label) == req' = [req EXCEPT ![r].pc = label]
Finish(r) == req' = [req EXCEPT ![r] = Idle]
Start(r, request) == req[r].pc = "idle" /\ req' = [req EXCEPT ![r] = request]

-----------------------------------------------------------------------------
\* Faults: what each property is tested against is the action of the same place
\* with the mistake its name says.

InviteWithoutFriendCheck(r) ==
    /\ req[r].pc = "areFriends"
    /\ IF req[r].u = req[r].v THEN Finish(r) ELSE Goto(r, "isInvited")
    /\ UNCHANGED tables

InviteIfNotMine(r) ==
    /\ req[r].pc = "isInvited"
    /\ IF \E i \in PendingBetween(req[r].u, req[r].v) : invitations[i].creator = req[r].u
         THEN Finish(r)
         ELSE Goto(r, "insertInvitation")
    /\ UNCHANGED tables

InsertUnresolvedTarget(r) ==
    /\ req[r].pc = "insertInvitation"
    /\ invitations' = [invitations EXCEPT ![req[r].inv] =
            [creator |-> req[r].u, target |-> NULL, status |-> "Pending"]]
    /\ Finish(r)
    /\ UNCHANGED <<friends, chats, members>>

AnswerWithoutStatusCheck(r) ==
    /\ req[r].pc = "readInvitation"
    /\ req' = [req EXCEPT ![r].pc = IF req[r].answer = "Accepted"
                                      THEN "findFriendship" ELSE "saveAnswer",
                          ![r].u = invitations[req[r].inv].creator,
                          ![r].v = invitations[req[r].inv].target]
    /\ UNCHANGED tables

InsertFriendReversed(r) ==
    /\ req[r].pc = "insertFriend"
    /\ friends' = friends \cup {<<req[r].v, req[r].u>>}
    /\ Goto(r, "findChat")
    /\ UNCHANGED <<invitations, chats, members>>

FindNoChat(r) ==
    /\ req[r].pc = "findChat"
    /\ Goto(r, "insertChat")
    /\ UNCHANGED tables

InsertChatWithoutAttach(r) ==
    /\ req[r].pc = "insertChat"
    /\ chats' = chats \cup {req[r].chat}
    /\ Goto(r, "saveAnswer")
    /\ UNCHANGED <<invitations, friends, members>>

AttachOnlyTarget(r) ==
    /\ req[r].pc = "attachUsers"
    /\ members' = [members EXCEPT ![req[r].chat] = {req[r].v}]
    /\ Goto(r, "saveAnswer")
    /\ UNCHANGED <<invitations, friends, chats>>

-----------------------------------------------------------------------------
\* POST /invitations : createFriend.

StartInvite(r, u, v, i) ==
    /\ NewInvitation(i)
    /\ Start(r, [Idle EXCEPT !.pc = "areFriends", !.by = u, !.u = u, !.v = v,
                             !.inv = i])
    /\ UNCHANGED tables

CheckNotFriends(r) ==
    /\ req[r].pc = "areFriends"
    /\ IF AreFriends(req[r].u, req[r].v) \/ req[r].u = req[r].v
         THEN Finish(r)
         ELSE Goto(r, "isInvited")
    /\ UNCHANGED tables

CheckNotInvited(r) ==
    /\ req[r].pc = "isInvited"
    /\ IF PendingBetween(req[r].u, req[r].v) # {}
         THEN Finish(r)
         ELSE Goto(r, "insertInvitation")
    /\ UNCHANGED tables

InsertInvitation(r) ==
    /\ req[r].pc = "insertInvitation"
    /\ invitations' = [invitations EXCEPT ![req[r].inv] =
            [creator |-> req[r].u, target |-> req[r].v, status |-> "Pending"]]
    /\ Finish(r)
    /\ UNCHANGED <<friends, chats, members>>

-----------------------------------------------------------------------------
\* PATCH /invitations/:id : the policy, answerFriendInvitation and, for an
\* acceptance, createFriendship.

StartAnswer(r, u, i, answer, c) ==
    /\ i \in Stored
    /\ u \in {invitations[i].creator, invitations[i].target}
    /\ NewChat(c)
    /\ Start(r, [Idle EXCEPT !.pc = "readInvitation", !.by = u, !.inv = i,
                             !.answer = answer, !.chat = c])
    /\ UNCHANGED tables

ReadInvitation(r) ==
    /\ req[r].pc = "readInvitation"
    /\ LET invitation == invitations[req[r].inv]
       IN  IF invitation.status # "Pending"
             THEN Finish(r)
             ELSE req' = [req EXCEPT
                    ![r].pc = IF req[r].answer = "Accepted"
                                THEN "findFriendship" ELSE "saveAnswer",
                    ![r].u = invitation.creator,
                    ![r].v = invitation.target]
    /\ UNCHANGED tables

FindFriendship(r) ==
    /\ req[r].pc = "findFriendship"
    /\ IF AreFriends(req[r].u, req[r].v)
         THEN Finish(r)
         ELSE Goto(r, "insertFriend")
    /\ UNCHANGED tables

\* The primary key of the table refuses a second row for the same pair in the
\* same order; the request then ends with the database's error.
InsertFriend(r) ==
    /\ req[r].pc = "insertFriend"
    /\ friends' = friends \cup {<<req[r].u, req[r].v>>}
    /\ IF <<req[r].u, req[r].v>> \in friends
         THEN Finish(r)
         ELSE Goto(r, "findChat")
    /\ UNCHANGED <<invitations, chats, members>>

FindChat(r) ==
    /\ req[r].pc = "findChat"
    /\ Goto(r, IF ChatsOf(req[r].u, req[r].v) = {}
                 THEN "insertChat" ELSE "saveAnswer")
    /\ UNCHANGED tables

InsertChat(r) ==
    /\ req[r].pc = "insertChat"
    /\ chats' = chats \cup {req[r].chat}
    /\ Goto(r, "attachUsers")
    /\ UNCHANGED <<invitations, friends, members>>

AttachUsers(r) ==
    /\ req[r].pc = "attachUsers"
    /\ members' = [members EXCEPT ![req[r].chat] = {req[r].u, req[r].v}]
    /\ Goto(r, "saveAnswer")
    /\ UNCHANGED <<invitations, friends, chats>>

\* save() writes the answer over the row whatever its status is by now.  The
\* answer Pending, which the validator admits, leaves the model clean: no write.
SaveAnswer(r) ==
    /\ req[r].pc = "saveAnswer"
    /\ invitations' = IF req[r].answer = "Pending"
                        THEN invitations
                        ELSE [invitations EXCEPT
                                ![req[r].inv].status = req[r].answer]
    /\ Finish(r)
    /\ UNCHANGED <<friends, chats, members>>

-----------------------------------------------------------------------------
\* DELETE /friends/:friendId : deleteFriendship.

StartUnfriend(r, u, v) ==
    /\ Start(r, [Idle EXCEPT !.pc = "findRow", !.by = u, !.u = u, !.v = v])
    /\ UNCHANGED tables

\* first() of an unordered query: either row, when both directions are stored.
FindRow(r) ==
    /\ req[r].pc = "findRow"
    /\ \/ /\ ~AreFriends(req[r].u, req[r].v)
          /\ Finish(r)
       \/ \E row \in Rows(req[r].u, req[r].v) :
             req' = [req EXCEPT ![r].pc = "deleteRow",
                                ![r].u = row[1], ![r].v = row[2]]
    /\ UNCHANGED tables

\* Model.delete() filters on the model's primary key alone.
SameKey(row, other) ==
    /\ "user_id" \in PrimaryKey => row[1] = other[1]
    /\ "friend_id" \in PrimaryKey => row[2] = other[2]

DeleteRow(r) ==
    /\ req[r].pc = "deleteRow"
    /\ friends' = {row \in friends : ~SameKey(row, <<req[r].u, req[r].v>>)}
    /\ Finish(r)
    /\ UNCHANGED <<invitations, chats, members>>

-----------------------------------------------------------------------------
\* The awaited call rejects, or the process stops: the locals are lost and
\* what the earlier statements wrote stays.

Fail(r) ==
    /\ MayFail
    /\ req[r].pc # "idle"
    /\ Finish(r)
    /\ UNCHANGED tables

Receive(r) ==
    \/ \E u, v \in Users, i \in InvitationIds : StartInvite(r, u, v, i)
    \/ \E u \in Users, i \in InvitationIds, answer \in InvitationStatus,
          c \in ChatIds : StartAnswer(r, u, i, answer, c)
    \/ \E u, v \in Users : StartUnfriend(r, u, v)

Continue(r) ==
    \/ CheckNotFriends(r) \/ CheckNotInvited(r) \/ InsertInvitation(r)
    \/ ReadInvitation(r) \/ FindFriendship(r) \/ InsertFriend(r)
    \/ FindChat(r) \/ InsertChat(r) \/ AttachUsers(r) \/ SaveAnswer(r)
    \/ FindRow(r) \/ DeleteRow(r)

Next == \E r \in Requests : Receive(r) \/ Continue(r) \/ Fail(r)

Spec == Init /\ [][Next]_vars

\* Node runs every continuation whose awaited call has settled.
FairSpec == Spec /\ \A r \in Requests : WF_vars(Continue(r))

-----------------------------------------------------------------------------
\* Properties.

\* Between two users there is at most one open invitation (the check of createFriend
\* in both directions), one row of friendship, never one in each direction
\* (deleteFriendship deletes one row), and one private chat, which survives the end of
\* the friendship and is found again by the next one.  It needs one request at a time.
OneOfEachPerPair ==
    \A u, v \in Users :
        /\ \A i, j \in PendingBetween(u, v) : i = j
        /\ ~(<<u, v>> \in friends /\ <<v, u>> \in friends)
        /\ u # v => \A c, d \in ChatsOf(u, v) : c = d

\* Once answered, an invitation keeps its answer: the E_UNUSABLE_INVITATION
\* refusal of answerFriendInvitation.
AnsweredOnce ==
    [][\A i \in Stored : invitations[i].status # "Pending"
                            => invitations'[i] = invitations[i]]_vars

\* Friends can talk: as long as no call fails, a stored friendship has its
\* private chat, or a request that is about to find or to create it.
FriendsHaveChat ==
    \A row \in friends :
        \/ ChatsOf(row[1], row[2]) # {}
        \/ \E r \in Requests :
              /\ req[r].pc \in {"findChat", "insertChat", "attachUsers"}
              /\ {req[r].u, req[r].v} = {row[1], row[2]}

\* Users share a friendship or a chat only after one invited the other, and
\* the row of a friendship has the creator of that invitation first, whatever
\* requests race or fail.
StrangersStayApart ==
    /\ \A row \in friends : \E i \in Stored :
          row = <<invitations[i].creator, invitations[i].target>>
    /\ \A c \in ChatIds : members[c] # {} => \E i \in Stored :
          members[c] = {invitations[i].creator, invitations[i].target}

\* deleteFriendship(u, v) ends the friendship of u and v and no other.
UnfriendsOnlyThePair ==
    [][\A row \in friends \ friends' : \E r \in Requests :
         /\ req[r].pc = "deleteRow"
         /\ row \in {<<req[r].u, req[r].v>>, <<req[r].v, req[r].u>>}]_vars

\* Nobody stays friend without a chat to talk in: a request that stored a
\* friendship goes on to find or create the chat, whatever the others do.
FriendsGetChat == \A u, v \in Users : <<u, v>> \in friends ~> ChatsOf(u, v) # {}

\* One request at a time implements the social graph.
Graph == INSTANCE SocialGraph WITH
    invited <- {{invitations[i].creator, invitations[i].target} :
                  i \in {j \in Stored : invitations[j].status = "Pending"}},
    befriended <- {{row[1], row[2]} : row \in friends}

ImplementsGraph == Graph!Spec
=============================================================================
