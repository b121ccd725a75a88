-------------------------- MODULE FriendshipProofs --------------------------
(***************************************************************************)
(* Theorems of Friendship for every set of users, requests and ids, and    *)
(* for both readings of the primary key of friends.                        *)
(***************************************************************************)
EXTENDS Friendship, TLAPS

Inviting == {"areFriends", "isInvited", "insertInvitation"}
Answered == {"findFriendship", "insertFriend", "findChat", "insertChat",
             "attachUsers", "saveAnswer"}
Answering == Answered \cup {"readInvitation"}
Unfriending == {"findRow", "deleteRow"}

\* What the local variables q of a request are, given where it is and the rows
\* of the invitations.
LocalsOK(q, rows) ==
    /\ q.pc \in Inviting => /\ q.u \in Users /\ q.v \in Users
                            /\ q.inv \in InvitationIds /\ rows[q.inv] = NULL
    /\ q.pc \in Answering => /\ q.inv \in InvitationIds /\ rows[q.inv] # NULL
                             /\ q.chat \in ChatIds
                             /\ q.answer \in InvitationStatus
    /\ q.pc \in Answered =>
         q.u = rows[q.inv].creator /\ q.v = rows[q.inv].target
    /\ q.pc \in Unfriending => q.u \in Users /\ q.v \in Users

\* The UUID of an invitation being created belongs to one request.
OwnInvitation ==
    \A r, q \in Requests :
        req[r].pc \in Inviting /\ q # r => req[q].inv # req[r].inv

\* Invariants of the tables and the locals together: neither is inductive alone.
WellFormed ==
    /\ TypeOK
    /\ \A r \in Requests : LocalsOK(req[r], invitations)
    /\ OwnInvitation

\* What a step of request r does to the tables: at most it gives its own id to
\* a new invitation and changes the status of others.
TablesOK(r) ==
    /\ friends' \subseteq Users \X Users
    /\ chats' \subseteq ChatIds
    /\ members' \in [ChatIds -> SUBSET Users]
    /\ invitations' \in [InvitationIds -> Invitation \cup {NULL}]
    /\ \A i \in Stored : /\ i \in Stored'
                         /\ invitations'[i].creator = invitations[i].creator
                         /\ invitations'[i].target = invitations[i].target
    /\ \A i \in Stored' \ Stored : req[r].pc \in Inviting /\ req[r].inv = i

-----------------------------------------------------------------------------
\* One request moves, to the locals x; the others keep theirs.
LEMMA Move ==
    ASSUME WellFormed, NEW r \in Requests, NEW x \in Request,
           req' = [req EXCEPT ![r] = x], TablesOK(r), LocalsOK(x, invitations'),
           \A q \in Requests : q # r /\ x.pc \in Inviting => req[q].inv # x.inv,
           \A q \in Requests : q # r /\ req[q].pc \in Inviting => req[q].inv # x.inv
    PROVE  WellFormed'
<1>1. TypeOK'
  BY DEF WellFormed, TypeOK, TablesOK
<1>2. ASSUME NEW q \in Requests PROVE LocalsOK(req'[q], invitations')
  <2>1. CASE q = r
    BY <2>1 DEF WellFormed, TypeOK
  <2>2. CASE q # r
    <3>1. req'[q] = req[q] /\ LocalsOK(req[q], invitations)
      BY <2>2 DEF WellFormed, TypeOK
    <3>2. req[q].pc \in Inviting => invitations'[req[q].inv] = NULL
      BY <2>2, <3>1 DEF WellFormed, OwnInvitation, TablesOK, LocalsOK, Stored
    <3> QED
      BY <3>1, <3>2 DEF LocalsOK, TablesOK, Answering, Stored
  <2> QED BY <2>1, <2>2
<1>3. OwnInvitation'
  BY DEF WellFormed, TypeOK, OwnInvitation
<1> QED BY <1>1, <1>2, <1>3 DEF WellFormed

LEMMA Typed == ASSUME WellFormed, NEW r \in Requests
               PROVE  /\ TypeOK /\ req[r] \in Request
                      /\ LocalsOK(req[r], invitations)
                      /\ \A q \in Requests : req[r].pc \in Inviting /\ q # r
                                              => req[q].inv # req[r].inv
                      /\ \A q \in Requests : req[q].pc \in Inviting /\ q # r
                                              => req[q].inv # req[r].inv
BY DEF WellFormed, TypeOK, OwnInvitation

LEMMA SameTables == ASSUME WellFormed, NEW r \in Requests, UNCHANGED tables
                    PROVE  TablesOK(r) /\ invitations' = invitations
BY DEF WellFormed, TypeOK, TablesOK, tables, Stored

\* The request ends.
LEMMA MoveToIdle == ASSUME WellFormed, NEW r \in Requests, Finish(r), TablesOK(r)
                    PROVE  WellFormed'
<1>1. Idle \in Request /\ LocalsOK(Idle, invitations') /\ Idle.pc \notin Inviting
  BY DEF Idle, Request, Labels, LocalsOK, Inviting, Answering, Answered, Unfriending
<1>2. \A q \in Requests : req[q].pc \in Inviting => req[q].inv # Idle.inv
  BY FriendshipAssumption DEF WellFormed, LocalsOK, Idle
<1> QED BY <1>1, <1>2, Move DEF Finish

\* The request goes on with the same invitation, to the locals it has read.
LEMMA MoveOn ==
    ASSUME WellFormed, NEW r \in Requests, NEW x \in Request,
           req' = [req EXCEPT ![r] = x], TablesOK(r), LocalsOK(x, invitations'),
           x.inv = req[r].inv, x.pc \in Inviting => req[r].pc \in Inviting
    PROVE  WellFormed'
BY Typed, Move

LEMMA ReceiveWellFormed ==
    ASSUME WellFormed, NEW r \in Requests, Receive(r)
    PROVE  WellFormed'
<1>1. TablesOK(r) /\ invitations' = invitations
  BY SameTables DEF Receive, StartInvite, StartAnswer, StartUnfriend
<1>2. ASSUME NEW u \in Users, NEW v \in Users, NEW i \in InvitationIds,
             StartInvite(r, u, v, i)
      PROVE  WellFormed'
  <2> DEFINE x == [Idle EXCEPT !.pc = "areFriends", !.by = u, !.u = u, !.v = v,
                               !.inv = i]
  <2>1. /\ x \in Request /\ LocalsOK(x, invitations)
        /\ \A q \in Requests : req[q].inv # x.inv
    BY <1>2 DEF StartInvite, NewInvitation, Idle, Request, Labels, LocalsOK, Stored,
                Inviting, Answering, Answered, Unfriending
  <2>2. req' = [req EXCEPT ![r] = x]
    BY <1>2 DEF StartInvite, Start
  <2> HIDE DEF x
  <2>3. LocalsOK(x, invitations')
    BY <1>1, <2>1
  <2> QED BY <1>1, <2>1, <2>2, <2>3, Move
<1>3. ASSUME NEW u \in Users, NEW i \in InvitationIds,
             NEW answer \in InvitationStatus, NEW c \in ChatIds,
             StartAnswer(r, u, i, answer, c)
      PROVE  WellFormed'
  <2> DEFINE x == [Idle EXCEPT !.pc = "readInvitation", !.by = u, !.inv = i,
                               !.answer = answer, !.chat = c]
  <2>1. /\ x \in Request /\ LocalsOK(x, invitations) /\ x.pc \notin Inviting
        /\ invitations[x.inv] # NULL
    BY <1>3 DEF StartAnswer, Idle, Request, Labels, LocalsOK, Stored,
                Inviting, Answering, Answered, Unfriending
  <2>2. req' = [req EXCEPT ![r] = x]
    BY <1>3 DEF StartAnswer, Start
  <2> HIDE DEF x
  <2>3. \A q \in Requests : req[q].pc \in Inviting => req[q].inv # x.inv
    BY <2>1 DEF WellFormed, LocalsOK
  <2>4. LocalsOK(x, invitations')
    BY <1>1, <2>1
  <2> QED BY <1>1, <2>1, <2>2, <2>3, <2>4, Move
<1>4. ASSUME NEW u \in Users, NEW v \in Users, StartUnfriend(r, u, v)
      PROVE  WellFormed'
  <2> DEFINE x == [Idle EXCEPT !.pc = "findRow", !.by = u, !.u = u, !.v = v]
  <2>1. /\ x \in Request /\ LocalsOK(x, invitations) /\ x.pc \notin Inviting
        /\ x.inv = NULL
    BY DEF Idle, Request, Labels, LocalsOK, Inviting, Answering, Answered, Unfriending
  <2>2. req' = [req EXCEPT ![r] = x]
    BY <1>4 DEF StartUnfriend, Start
  <2> HIDE DEF x
  <2>3. \A q \in Requests : req[q].pc \in Inviting => req[q].inv # x.inv
    BY <2>1, FriendshipAssumption DEF WellFormed, LocalsOK
  <2>4. LocalsOK(x, invitations')
    BY <1>1, <2>1
  <2> QED BY <1>1, <2>1, <2>2, <2>3, <2>4, Move
<1> QED BY <1>2, <1>3, <1>4 DEF Receive

\* A request goes on with its locals unchanged.
LEMMA MoveToLabel ==
    ASSUME WellFormed, NEW r \in Requests, NEW label \in Labels,
           Goto(r, label), TablesOK(r),
           \/ /\ label \in Inviting /\ req[r].pc \in Inviting
              /\ invitations' = invitations
           \/ label \in Answered /\ req[r].pc \in Answered
    PROVE  WellFormed'
<1> DEFINE x == [req[r] EXCEPT !.pc = label]
<1>1. x \in Request /\ x.inv = req[r].inv /\ x.pc = label
  BY Typed DEF Request
<1>2. req' = [req EXCEPT ![r] = x]
  BY Typed DEF Goto, TypeOK, Request
<1>3. LocalsOK(x, invitations')
  BY Typed DEF LocalsOK, TablesOK, Stored, Request, TypeOK,
               Inviting, Answering, Answered, Unfriending
<1>4. x.pc \in Inviting => req[r].pc \in Inviting
  BY <1>1 DEF Inviting, Answered
<1> HIDE DEF x
<1> QED BY <1>1, <1>2, <1>3, <1>4, MoveOn

\* The statements that only read.
LEMMA ReadWellFormed ==
    ASSUME WellFormed, NEW r \in Requests,
           \/ CheckNotFriends(r) \/ CheckNotInvited(r) \/ ReadInvitation(r)
           \/ FindFriendship(r) \/ FindChat(r) \/ FindRow(r)
    PROVE  WellFormed'
<1>1. TablesOK(r) /\ invitations' = invitations
  BY SameTables DEF CheckNotFriends, CheckNotInvited, ReadInvitation,
                    FindFriendship, FindChat, FindRow
<1>2. CASE Finish(r)
  BY <1>1, <1>2, MoveToIdle
<1>3. CASE CheckNotFriends(r) \/ CheckNotInvited(r)
  BY <1>1, <1>2, <1>3, MoveToLabel
     DEF CheckNotFriends, CheckNotInvited, Inviting, Labels
<1>4. CASE FindFriendship(r) \/ FindChat(r)
  BY <1>1, <1>2, <1>4, MoveToLabel DEF FindFriendship, FindChat, Answered, Labels
<1>5. CASE ReadInvitation(r)
  <2> DEFINE invitation == invitations[req[r].inv]
             x == [req[r] EXCEPT
                     !.pc = IF req[r].answer = "Accepted"
                              THEN "findFriendship" ELSE "saveAnswer",
                     !.u = invitation.creator, !.v = invitation.target]
  <2>1. invitation \in Invitation
    BY <1>5, Typed DEF ReadInvitation, LocalsOK, TypeOK, Answering
  <2>2. SUFFICES ASSUME req' = [req EXCEPT ![r] = x]
                 PROVE  WellFormed'
    BY <1>2, <1>5, Typed DEF ReadInvitation, TypeOK, Request
  <2>3. x \in Request /\ x.inv = req[r].inv
    BY <2>1, Typed DEF Request, Labels, Invitation
  <2>4. LocalsOK(x, invitations') /\ x.pc \notin Inviting
    BY <1>1, <1>5, Typed DEF ReadInvitation, LocalsOK, Request,
                             Inviting, Answering, Answered, Unfriending
  <2> HIDE DEF x
  <2> QED BY <1>1, <2>2, <2>3, <2>4, MoveOn
<1>6. CASE FindRow(r)
  <2>1. SUFFICES ASSUME NEW row \in Rows(req[r].u, req[r].v),
                        req' = [req EXCEPT ![r].pc = "deleteRow",
                                           ![r].u = row[1], ![r].v = row[2]]
                 PROVE  WellFormed'
    BY <1>2, <1>6 DEF FindRow
  <2> DEFINE x == [req[r] EXCEPT !.pc = "deleteRow", !.u = row[1], !.v = row[2]]
  <2>2. row[1] \in Users /\ row[2] \in Users
    BY Typed DEF TypeOK, Rows
  <2>3. x \in Request /\ x.inv = req[r].inv /\ req' = [req EXCEPT ![r] = x]
    BY <2>1, <2>2, Typed DEF TypeOK, Request, Labels
  <2>4. LocalsOK(x, invitations') /\ x.pc \notin Inviting
    BY <2>2, Typed DEF LocalsOK, Request, Inviting, Answering, Answered, Unfriending
  <2> HIDE DEF x
  <2> QED BY <1>1, <2>3, <2>4, MoveOn
<1> QED BY <1>3, <1>4, <1>5, <1>6

LEMMA WriteInvitation ==
    ASSUME WellFormed, NEW r \in Requests, InsertInvitation(r) \/ SaveAnswer(r)
    PROVE  TablesOK(r)
<1>1. CASE InsertInvitation(r)
  BY <1>1, Typed DEF InsertInvitation, TablesOK, TypeOK, LocalsOK, Stored, Request,
                     Invitation, InvitationStatus, Inviting
<1>2. CASE SaveAnswer(r)
  <2>1. /\ req[r].inv \in InvitationIds /\ req[r].answer \in InvitationStatus
        /\ invitations[req[r].inv] \in Invitation
    BY <1>2, Typed DEF SaveAnswer, LocalsOK, TypeOK, Answering, Answered
  <2> QED BY <1>2, <2>1, Typed, FriendshipAssumption
             DEF SaveAnswer, TablesOK, TypeOK, Stored, Invitation
<1> QED BY <1>1, <1>2

\* The statements that write a row.
LEMMA WriteWellFormed ==
    ASSUME WellFormed, NEW r \in Requests,
           \/ InsertInvitation(r) \/ InsertFriend(r) \/ InsertChat(r)
           \/ AttachUsers(r) \/ SaveAnswer(r) \/ DeleteRow(r)
    PROVE  WellFormed'
<1>1. CASE InsertInvitation(r) \/ SaveAnswer(r)
  BY <1>1, WriteInvitation, MoveToIdle DEF InsertInvitation, SaveAnswer
<1>2. CASE InsertFriend(r)
  <2>1. invitations[req[r].inv] \in Invitation
    BY <1>2, Typed DEF InsertFriend, LocalsOK, TypeOK, Answering, Answered
  <2>2. req[r].u \in Users /\ req[r].v \in Users
    BY <1>2, <2>1, Typed DEF InsertFriend, LocalsOK, Answered, Invitation
  <2>3. TablesOK(r)
    BY <1>2, <2>2, Typed DEF InsertFriend, TablesOK, TypeOK, Stored
  <2> QED BY <1>2, <2>3, MoveToIdle, MoveToLabel DEF InsertFriend, Answered, Labels
<1>3. CASE InsertChat(r)
  <2>1. TablesOK(r)
    BY <1>3, Typed DEF InsertChat, TablesOK, TypeOK, LocalsOK, Stored,
                       Answering, Answered
  <2> QED BY <1>3, <2>1, MoveToLabel DEF InsertChat, Answered, Labels
<1>4. CASE AttachUsers(r)
  <2>1. invitations[req[r].inv] \in Invitation
    BY <1>4, Typed DEF AttachUsers, LocalsOK, TypeOK, Answering, Answered
  <2>2. req[r].u \in Users /\ req[r].v \in Users
    BY <1>4, <2>1, Typed DEF AttachUsers, LocalsOK, Answered, Invitation
  <2>3. TablesOK(r)
    BY <1>4, <2>2, Typed DEF AttachUsers, TablesOK, TypeOK, Stored
  <2> QED BY <1>4, <2>3, MoveToLabel DEF AttachUsers, Answered, Labels
<1>5. CASE DeleteRow(r)
  <2>1. TablesOK(r)
    BY <1>5, Typed DEF DeleteRow, TablesOK, TypeOK, Stored
  <2> QED BY <1>5, <2>1, MoveToIdle DEF DeleteRow
<1> QED BY <1>1, <1>2, <1>3, <1>4, <1>5

LEMMA InitWellFormed == Init => WellFormed
BY DEF Init, WellFormed, TypeOK, LocalsOK, OwnInvitation, Idle, Request, Labels,
       Inviting, Answering, Answered, Unfriending

LEMMA NextWellFormed == WellFormed /\ [Next]_vars => WellFormed'
<1> SUFFICES ASSUME WellFormed, [Next]_vars PROVE WellFormed'
  OBVIOUS
<1>1. ASSUME NEW r \in Requests, Receive(r) PROVE WellFormed'
  BY <1>1, ReceiveWellFormed
<1>2. ASSUME NEW r \in Requests, Continue(r) PROVE WellFormed'
  BY <1>2, ReadWellFormed, WriteWellFormed DEF Continue
<1>3. ASSUME NEW r \in Requests, Fail(r) PROVE WellFormed'
  BY <1>3, SameTables, MoveToIdle DEF Fail
<1>4. CASE UNCHANGED vars
  BY <1>4 DEF vars, WellFormed, TypeOK, LocalsOK, OwnInvitation
<1> QED BY <1>1, <1>2, <1>3, <1>4 DEF Next

\* The invitations a request works on, and the users it names, are those of its
\* handler; in particular no two requests create the same invitation.
THEOREM AlwaysWellFormed == Spec => []WellFormed
BY InitWellFormed, NextWellFormed, PTL DEF Spec

\* The tables and the locals keep their types.
THEOREM TypeCorrect == Spec => []TypeOK
<1>1. WellFormed => TypeOK
  BY DEF WellFormed
<1> QED BY <1>1, AlwaysWellFormed, PTL

-----------------------------------------------------------------------------
\* A friendship and a chat go back to an invitation between the two users: the
\* statements that create them use the pair that the request read, and an
\* invitation is never deleted and never changes hands.
LEMMA NextStrangersStayApart ==
    WellFormed /\ StrangersStayApart /\ [Next]_vars => StrangersStayApart'
<1> SUFFICES ASSUME WellFormed, StrangersStayApart, [Next]_vars
             PROVE  StrangersStayApart'
  OBVIOUS
<1>1. CASE UNCHANGED <<invitations, friends, members>>
  BY <1>1 DEF StrangersStayApart, Stored
<1>2. ASSUME NEW r \in Requests, InsertInvitation(r) \/ SaveAnswer(r)
      PROVE  StrangersStayApart'
  BY <1>2, WriteInvitation
     DEF TablesOK, InsertInvitation, SaveAnswer, StrangersStayApart
<1>3. ASSUME NEW r \in Requests, InsertFriend(r) PROVE StrangersStayApart'
  BY <1>3, Typed DEF InsertFriend, StrangersStayApart, LocalsOK, Stored,
                     Answering, Answered
<1>4. ASSUME NEW r \in Requests, AttachUsers(r) PROVE StrangersStayApart'
  BY <1>4, Typed DEF AttachUsers, StrangersStayApart, LocalsOK, Stored, TypeOK,
                     Answering, Answered
<1>5. ASSUME NEW r \in Requests, DeleteRow(r) PROVE StrangersStayApart'
  BY <1>5 DEF DeleteRow, StrangersStayApart, Stored
<1>6. ASSUME NEW r \in Requests, Receive(r) \/ Fail(r) PROVE StrangersStayApart'
  BY <1>1, <1>6 DEF Receive, StartInvite, StartAnswer, StartUnfriend, Fail, tables
<1>7. ASSUME NEW r \in Requests, Continue(r) PROVE StrangersStayApart'
  BY <1>1, <1>2, <1>3, <1>4, <1>5, <1>7
     DEF Continue, CheckNotFriends, CheckNotInvited, ReadInvitation, FindFriendship,
         FindChat, InsertChat, FindRow, tables
<1> QED BY <1>1, <1>6, <1>7 DEF Next, vars

THEOREM StrangersAlwaysStayApart == Spec => []StrangersStayApart
<1>1. Init => StrangersStayApart
  BY DEF Init, StrangersStayApart
<1> QED BY <1>1, AlwaysWellFormed, NextStrangersStayApart, PTL DEF Spec

-----------------------------------------------------------------------------
\* Where the chat that an answer may create is, while the answer runs: its id is
\* its own, the row comes first and then its two members.
BeforeChat == {"readInvitation", "findFriendship", "insertFriend", "findChat",
               "insertChat"}

OwnChat ==
    /\ \A c \in ChatIds : c \notin chats => members[c] = {}
    /\ \A r \in Requests :
         /\ req[r].pc \in BeforeChat => req[r].chat \notin chats
         /\ req[r].pc = "attachUsers" =>
              req[r].chat \in chats /\ members[req[r].chat] = {}
    /\ \A r, q \in Requests :
         req[r].pc \in Answering /\ q # r => req[q].chat # req[r].chat

\* What a step of a request does to the locals of all.
Others(r) == \A q \in Requests : q # r => req'[q] = req[q]

LEMMA GotoEffect ==
    ASSUME TypeOK, NEW r \in Requests, NEW label \in Labels, Goto(r, label)
    PROVE  /\ Others(r) /\ req'[r].pc = label /\ req'[r].chat = req[r].chat
           /\ req'[r].u = req[r].u /\ req'[r].v = req[r].v
BY DEF Others, TypeOK, Request, Goto

LEMMA FinishEffect ==
    ASSUME TypeOK, NEW r \in Requests, Finish(r)
    PROVE  Others(r) /\ req'[r] = Idle
BY DEF Others, TypeOK, Finish

LEMMA ReceiveEffect ==
    ASSUME TypeOK, NEW r \in Requests, Receive(r)
    PROVE  Others(r) /\ UNCHANGED tables /\ req[r].pc = "idle"
BY DEF Others, TypeOK, Receive, StartInvite, StartAnswer, StartUnfriend, Start

LEMMA NextOwnChat == WellFormed /\ OwnChat /\ [Next]_vars => OwnChat'
<1> SUFFICES ASSUME WellFormed, OwnChat, [Next]_vars PROVE OwnChat'
  OBVIOUS
<1>1. ASSUME NEW r \in Requests, Finish(r), UNCHANGED <<chats, members>>
      PROVE  OwnChat'
  BY <1>1, FriendshipAssumption
     DEF OwnChat, WellFormed, TypeOK, LocalsOK, Finish, Idle, BeforeChat,
         Answering, Answered
<1>2. ASSUME NEW r \in Requests, UNCHANGED <<chats, members>>, Others(r),
             req'[r].chat = req[r].chat, req'[r].pc # "attachUsers",
             req'[r].pc \in BeforeChat => req[r].pc \in BeforeChat,
             req'[r].pc \in Answering => req[r].pc \in Answering
      PROVE  OwnChat'
  BY <1>2 DEF OwnChat, Others
<1>3. ASSUME NEW r \in Requests, Receive(r) PROVE OwnChat'
  <2>1. UNCHANGED <<chats, members>> /\ req[r].pc = "idle" /\ Others(r)
    BY <1>3, Typed, ReceiveEffect DEF tables
  <2>2. \A c \in ChatIds : NewChat(c) => \A q \in Requests : req[q].chat # c
    BY DEF NewChat
  <2>3. \/ req'[r].chat = NULL /\ req'[r].pc \in {"areFriends", "findRow"}
        \/ /\ req'[r].pc = "readInvitation" /\ req'[r].chat \in ChatIds
           /\ NewChat(req'[r].chat)
    <3>1. ASSUME NEW u \in Users, NEW v \in Users, NEW i \in InvitationIds,
                 StartInvite(r, u, v, i)
          PROVE  req'[r].chat = NULL /\ req'[r].pc = "areFriends"
      BY <3>1, Typed DEF StartInvite, Start, Idle, TypeOK
    <3>2. ASSUME NEW u \in Users, NEW i \in InvitationIds,
                 NEW answer \in InvitationStatus, NEW c \in ChatIds,
                 StartAnswer(r, u, i, answer, c)
          PROVE  req'[r].pc = "readInvitation" /\ req'[r].chat = c /\ NewChat(c)
      BY <3>2, Typed DEF StartAnswer, Start, Idle, TypeOK
    <3>3. ASSUME NEW u \in Users, NEW v \in Users, StartUnfriend(r, u, v)
          PROVE  req'[r].chat = NULL /\ req'[r].pc = "findRow"
      BY <3>3, Typed DEF StartUnfriend, Start, Idle, TypeOK
    <3> QED BY <1>3, <3>1, <3>2, <3>3 DEF Receive
  <2>4. \A q \in Requests : req[q].pc \in Answering => req[q].chat \in ChatIds
    BY Typed DEF LocalsOK
  <2> QED
    BY <2>1, <2>2, <2>3, <2>4, FriendshipAssumption
       DEF OwnChat, Others, NewChat, BeforeChat, Answering, Answered
<1>4. ASSUME NEW r \in Requests, ReadInvitation(r) \/ FindRow(r) PROVE OwnChat'
  <2>1. CASE Finish(r)
    BY <1>1, <1>4, <2>1 DEF ReadInvitation, FindRow, tables
  <2>2. CASE ~Finish(r)
    <3>1. /\ Others(r) /\ req'[r].chat = req[r].chat
          /\ req'[r].pc \in {"findFriendship", "saveAnswer", "deleteRow"}
          /\ req'[r].pc # "deleteRow" => req[r].pc = "readInvitation"
      <4>1. CASE ReadInvitation(r)
        BY <2>2, <4>1, Typed DEF ReadInvitation, TypeOK, Request, Others
      <4>2. CASE FindRow(r)
        <5>1. PICK row \in Rows(req[r].u, req[r].v) :
                  req' = [req EXCEPT ![r].pc = "deleteRow",
                                     ![r].u = row[1], ![r].v = row[2]]
          BY <2>2, <4>2 DEF FindRow
        <5> QED BY <5>1, Typed DEF TypeOK, Request, Others
      <4> QED BY <1>4, <4>1, <4>2
    <3> QED BY <1>2, <1>4, <3>1
            DEF ReadInvitation, FindRow, tables, BeforeChat, Answering, Answered
  <2> QED BY <2>1, <2>2
<1>5. ASSUME NEW r \in Requests, InsertChat(r) PROVE OwnChat'
  <2>1. /\ Others(r) /\ req'[r].pc = "attachUsers" /\ req'[r].chat = req[r].chat
        /\ req[r].chat \in ChatIds /\ req[r].pc = "insertChat"
        /\ chats' = chats \cup {req[r].chat} /\ members' = members
    BY <1>5, Typed, GotoEffect DEF InsertChat, LocalsOK, Answering, Answered, Labels
  <2>2. req[r].pc \in BeforeChat /\ req[r].pc \in Answering
    BY <2>1 DEF BeforeChat, Answering, Answered
  <2>3. members[req[r].chat] = {}
    BY <2>1, <2>2 DEF OwnChat
  <2>4. \A q \in Requests : q # r => req[q].chat # req[r].chat
    BY <2>2 DEF OwnChat
  <2>5. "attachUsers" \notin BeforeChat
    BY DEF BeforeChat
  <2> QED BY <2>1, <2>2, <2>3, <2>4, <2>5 DEF OwnChat, Others
<1>6. ASSUME NEW r \in Requests, AttachUsers(r) PROVE OwnChat'
  BY <1>6 DEF AttachUsers, Goto, OwnChat, WellFormed, TypeOK, LocalsOK, Request,
              BeforeChat, Answering, Answered
<1>7. ASSUME NEW r \in Requests, Continue(r) \/ Fail(r) PROVE OwnChat'
  <2>1. CASE /\ UNCHANGED <<chats, members>>
             /\ \E label \in {"isInvited", "insertInvitation"} : Goto(r, label)
    BY <1>2, <2>1, Typed, GotoEffect DEF Labels, BeforeChat, Answering, Answered
  <2>2. CASE FindFriendship(r) \/ InsertFriend(r) \/ FindChat(r)
    <3>1. CASE Finish(r)
      BY <1>1, <2>2, <3>1 DEF FindFriendship, InsertFriend, FindChat, tables
    <3>2. CASE \E label \in {"insertFriend", "findChat", "insertChat", "saveAnswer"} :
                 Goto(r, label)
      BY <1>2, <2>2, <3>2, Typed, GotoEffect
         DEF FindFriendship, InsertFriend, FindChat, tables,
             Labels, BeforeChat, Answering, Answered
    <3> QED BY <2>2, <3>1, <3>2 DEF FindFriendship, InsertFriend, FindChat
  <2> QED BY <1>1, <1>4, <1>5, <1>6, <1>7, <2>1, <2>2
          DEF Continue, Fail, CheckNotFriends, CheckNotInvited, InsertInvitation,
              SaveAnswer, DeleteRow, tables
<1>8. CASE UNCHANGED vars
  BY <1>8 DEF vars, OwnChat
<1> QED BY <1>3, <1>7, <1>8 DEF Next

\* The chat of two friends is never lost, and a request that stored a friendship
\* only lets go of it once the two users have a chat.
LEMMA NextFriendsHaveChat ==
    ASSUME ~MayFail
    PROVE  WellFormed /\ OwnChat /\ FriendsHaveChat /\ [Next]_vars => FriendsHaveChat'
<1> SUFFICES ASSUME WellFormed, OwnChat, FriendsHaveChat, [Next]_vars
             PROVE  FriendsHaveChat'
  OBVIOUS
<1> DEFINE Making == {"findChat", "insertChat", "attachUsers"}
<1>1. ASSUME NEW r \in Requests, req[r].pc \notin Making,
             UNCHANGED <<chats, members>>, friends' \subseteq friends, Others(r)
      PROVE  FriendsHaveChat'
  BY <1>1 DEF FriendsHaveChat, ChatsOf, Others
<1>2. ASSUME NEW r \in Requests, Receive(r) PROVE FriendsHaveChat'
  BY <1>1, <1>2, Typed, ReceiveEffect DEF tables
<1>3. ASSUME NEW r \in Requests,
             \/ CheckNotFriends(r) \/ CheckNotInvited(r) \/ InsertInvitation(r)
             \/ ReadInvitation(r) \/ FindFriendship(r) \/ SaveAnswer(r)
             \/ FindRow(r) \/ DeleteRow(r)
      PROVE  FriendsHaveChat'
  <2>1. /\ req[r].pc \notin Making /\ UNCHANGED <<chats, members>>
        /\ friends' \subseteq friends
    BY <1>3 DEF CheckNotFriends, CheckNotInvited, InsertInvitation, ReadInvitation,
                FindFriendship, SaveAnswer, FindRow, DeleteRow, tables
  <2>2. Others(r)
    BY <1>3, Typed
       DEF CheckNotFriends, CheckNotInvited, InsertInvitation, ReadInvitation,
           FindFriendship, SaveAnswer, FindRow, DeleteRow, Goto, Finish, Others, TypeOK
  <2> QED BY <1>1, <2>1, <2>2
<1>4. ASSUME NEW r \in Requests, req'[r].pc \in Making,
             req'[r].u = req[r].u, req'[r].v = req[r].v,
             Others(r), chats \subseteq chats', members' = members,
             friends' \subseteq friends \cup {<<req[r].u, req[r].v>>}
      PROVE  FriendsHaveChat'
  <2>1. ASSUME NEW row \in friends, ChatsOf(row[1], row[2]) # {}
        PROVE  ChatsOf(row[1], row[2])' # {}
    BY <1>4, <2>1 DEF ChatsOf
  <2>2. ASSUME NEW row \in friends'
        PROVE  \/ ChatsOf(row[1], row[2])' # {}
               \/ \E q \in Requests : /\ req'[q].pc \in Making
                                      /\ {req'[q].u, req'[q].v} = {row[1], row[2]}
    <3>1. CASE row = <<req[r].u, req[r].v>>
      BY <1>4, <3>1
    <3>2. CASE row \in friends
      BY <1>4, <2>1, <3>2 DEF FriendsHaveChat, Others
    <3> QED BY <1>4, <2>2, <3>1, <3>2
  <2> QED BY <2>2 DEF FriendsHaveChat
<1>5. ASSUME NEW r \in Requests, InsertFriend(r) \/ FindChat(r) \/ InsertChat(r)
      PROVE  FriendsHaveChat'
  <2>1. CASE InsertFriend(r) /\ <<req[r].u, req[r].v>> \in friends
    <3>1. Finish(r) /\ friends' = friends /\ UNCHANGED <<chats, members>>
      BY <2>1 DEF InsertFriend
    <3> QED BY <1>1, <2>1, <3>1, Typed, FinishEffect DEF InsertFriend
  <2>2. CASE FindChat(r) /\ ChatsOf(req[r].u, req[r].v) # {}
    <3>1. UNCHANGED tables /\ Others(r)
      BY <2>2, Typed, GotoEffect DEF FindChat, Labels
    <3>2. ASSUME NEW row \in friends, {row[1], row[2]} = {req[r].u, req[r].v}
          PROVE  ChatsOf(row[1], row[2]) # {}
      BY <2>2, <3>2 DEF ChatsOf
    <3>3. ASSUME NEW row \in friends
          PROVE  \/ ChatsOf(row[1], row[2]) # {}
                 \/ \E q \in Requests : /\ q # r /\ req[q].pc \in Making
                                        /\ {req[q].u, req[q].v} = {row[1], row[2]}
      BY <3>2, <3>3 DEF FriendsHaveChat
    <3>4. \A u, v : ChatsOf(u, v)' = ChatsOf(u, v)
      BY <3>1 DEF ChatsOf, tables
    <3>5. friends' = friends
      BY <3>1 DEF tables
    <3> QED BY <3>1, <3>3, <3>4, <3>5 DEF FriendsHaveChat, Others
  <2>3. CASE InsertFriend(r) /\ <<req[r].u, req[r].v>> \notin friends
    BY <1>4, <2>3, Typed, GotoEffect DEF InsertFriend, Labels
  <2>4. CASE \/ FindChat(r) /\ ChatsOf(req[r].u, req[r].v) = {}
             \/ InsertChat(r)
    BY <1>4, <2>4, Typed, GotoEffect DEF FindChat, InsertChat, tables, Labels
  <2> QED BY <1>5, <2>1, <2>2, <2>3, <2>4
<1>6. ASSUME NEW r \in Requests, AttachUsers(r) PROVE FriendsHaveChat'
  <2>1. /\ Others(r) /\ UNCHANGED <<friends, chats>>
        /\ members' = [members EXCEPT ![req[r].chat] = {req[r].u, req[r].v}]
        /\ req[r].chat \in chats /\ members[req[r].chat] = {}
        /\ req[r].chat \in ChatIds
    BY <1>6, Typed, GotoEffect DEF AttachUsers, OwnChat, LocalsOK, Labels,
                                   Answering, Answered
  <2>2. ASSUME NEW u, NEW v, ChatsOf(u, v) # {} \/ {u, v} = {req[r].u, req[r].v}
        PROVE  ChatsOf(u, v)' # {}
    <3>1. CASE {u, v} = {req[r].u, req[r].v}
      <4>1. members'[req[r].chat] = {u, v}
        BY <2>1, <3>1, Typed DEF TypeOK
      <4> QED BY <2>1, <4>1 DEF ChatsOf
    <3>2. ASSUME NEW c \in ChatsOf(u, v) PROVE c \in ChatsOf(u, v)'
      BY <2>1, <3>2, Typed DEF ChatsOf, TypeOK
    <3> QED BY <2>2, <3>1, <3>2
  <2>3. ASSUME NEW row \in friends PROVE \/ ChatsOf(row[1], row[2])' # {}
                                        \/ \E q \in Requests :
                                              /\ q # r /\ req[q].pc \in Making
                                              /\ {req[q].u, req[q].v} = {row[1], row[2]}
    BY <2>2, <2>3 DEF FriendsHaveChat
  <2> QED BY <2>1, <2>3 DEF FriendsHaveChat, Others
<1>7. CASE UNCHANGED vars
  BY <1>7 DEF vars, FriendsHaveChat, ChatsOf
<1> QED BY <1>2, <1>3, <1>5, <1>6, <1>7 DEF Next, Continue, Fail

THEOREM FriendsAlwaysHaveChat == ASSUME ~MayFail PROVE Spec => []FriendsHaveChat
<1>1. Init => OwnChat /\ FriendsHaveChat
  BY DEF Init, OwnChat, FriendsHaveChat, Idle, BeforeChat, Answering, Answered
<1> QED BY <1>1, AlwaysWellFormed, NextOwnChat, NextFriendsHaveChat, PTL DEF Spec

-----------------------------------------------------------------------------
(* What the checks of createFriend and answerFriendInvitation are worth.  The    *)
(* handlers check, await, and write; nothing holds the pair in between.  The     *)
(* promises of the social graph hold of every behaviour in which no two requests *)
(* that invite or answer are about the same two users at the same time, however  *)
(* many requests there are, whatever fails, and though friendships are ended at  *)
(* any moment.                                                                   *)

Adding == Inviting \cup Answering

PairOf(i) == {invitations[i].creator, invitations[i].target}

\* The two users that r is about.
Between(r) ==
    IF req[r].pc \in Answering THEN PairOf(req[r].inv) ELSE {req[r].u, req[r].v}

PairsApart ==
    \A r, q \in Requests :
        r # q /\ req[r].pc \in Adding /\ req[q].pc \in Adding => Between(r) # Between(q)

\* What r has found out, and relies on when it writes.
StillTrue(r) ==
    LET q == req[r]
    IN  /\ q.pc \in {"isInvited", "insertInvitation"} => q.u # q.v /\ ~AreFriends(q.u, q.v)
        /\ q.pc = "insertInvitation" => PendingBetween(q.u, q.v) = {}
        /\ q.pc \in Answered => invitations[q.inv].status = "Pending"
        /\ q.pc = "insertFriend" => ~AreFriends(q.u, q.v)
        /\ q.pc \in {"insertChat", "attachUsers"} => ChatsOf(q.u, q.v) = {}

\* Nobody invites himself.
Distinct == \A i \in Stored : invitations[i].creator # invitations[i].target

Checked ==
    /\ \A r \in Requests : StillTrue(r)
    /\ Distinct
    /\ OneOfEachPerPair

Inv == WellFormed /\ OwnChat /\ Checked

\* A step of r, seen from two users that r is not about: nothing is added.
NothingNew(u, v) ==
    /\ friends' \cap {<<u, v>>, <<v, u>>} \subseteq friends
    /\ PendingBetween(u, v)' \subseteq PendingBetween(u, v)
    /\ ChatsOf(u, v)' = ChatsOf(u, v)
    /\ \A i \in Stored : PairOf(i) = {u, v} => invitations'[i] = invitations[i]

\* The users of a request that adds are the locals u and v once it knows them.
LEMMA Locals ==
    ASSUME WellFormed, NEW r \in Requests
    PROVE  /\ req[r].pc \in Adding => Between(r) \in SUBSET Users
           /\ req[r].pc \in Inviting \cup Answered =>
                 /\ Between(r) = {req[r].u, req[r].v}
                 /\ req[r].u \in Users /\ req[r].v \in Users
           /\ req[r].pc \in Answering =>
                 /\ req[r].inv \in Stored /\ Between(r) = PairOf(req[r].inv)
                 /\ invitations[req[r].inv] \in Invitation
<1>1. CASE req[r].pc \in Inviting
  BY <1>1, Typed DEF Between, LocalsOK, Inviting, Answering, Answered
<1>2. CASE req[r].pc \in Answering
  <2>1. req[r].inv \in Stored /\ invitations[req[r].inv] \in Invitation
    BY <1>2, Typed DEF LocalsOK, Stored, TypeOK
  <2>2. req[r].pc \notin Inviting
    BY <1>2 DEF Inviting, Answering, Answered
  <2>3. PairOf(req[r].inv) \in SUBSET Users
    BY <2>1 DEF PairOf, Invitation
  <2>4. req[r].pc \in Answered =>
          /\ PairOf(req[r].inv) = {req[r].u, req[r].v}
          /\ req[r].u \in Users /\ req[r].v \in Users
    BY <2>1, Typed DEF LocalsOK, PairOf, Invitation
  <2> QED BY <1>2, <2>1, <2>2, <2>3, <2>4 DEF Between
<1> QED BY <1>1, <1>2 DEF Adding, Answering

LEMMA NothingNewWhenUnchanged ==
    ASSUME UNCHANGED <<invitations, chats, members>>, friends' \subseteq friends,
           NEW u, NEW v
    PROVE  NothingNew(u, v)
BY DEF NothingNew, PendingBetween, Stored, ChatsOf

\* A step of r adds nothing between users that r is not about.
LEMMA Elsewhere ==
    ASSUME WellFormed, OwnChat, NEW r \in Requests, Receive(r) \/ Continue(r) \/ Fail(r),
           NEW u \in Users, NEW v \in Users,
           req[r].pc \in Adding => Between(r) # {u, v}
    PROVE  NothingNew(u, v)
<1>1. CASE UNCHANGED tables
  BY <1>1, NothingNewWhenUnchanged DEF tables
<1>2. CASE InsertInvitation(r)
  <2>1. /\ req[r].pc \in Adding /\ Between(r) = {req[r].u, req[r].v}
        /\ {req[r].u, req[r].v} # {u, v}
        /\ req[r].inv \in InvitationIds /\ req[r].inv \notin Stored
    BY <1>2, Locals, Typed DEF InsertInvitation, Adding, Inviting, LocalsOK, Stored
  <2>2. UNCHANGED <<friends, chats, members>>
    BY <1>2 DEF InsertInvitation
  <2>3. \A i \in InvitationIds : i # req[r].inv => invitations'[i] = invitations[i]
    BY <1>2, Typed DEF InsertInvitation, TypeOK
  <2>4. /\ invitations'[req[r].inv].creator = req[r].u
        /\ invitations'[req[r].inv].target = req[r].v
    BY <1>2, <2>1, Typed DEF InsertInvitation, TypeOK
  <2>5. PendingBetween(u, v)' \subseteq PendingBetween(u, v)
    BY <2>1, <2>3, <2>4 DEF PendingBetween, Stored
  <2> QED BY <2>1, <2>2, <2>3, <2>5 DEF NothingNew, ChatsOf, Stored
<1>3. CASE SaveAnswer(r)
  <2>1. /\ Between(r) # {u, v} /\ Between(r) = PairOf(req[r].inv) /\ req[r].inv \in Stored
        /\ invitations[req[r].inv] \in Invitation
    BY <1>3, Locals DEF SaveAnswer, Adding, Answering, Answered
  <2>2. UNCHANGED <<friends, chats, members>>
    BY <1>3 DEF SaveAnswer
  <2>3. \A i \in InvitationIds : i # req[r].inv => invitations'[i] = invitations[i]
    BY <1>3, Typed DEF SaveAnswer, TypeOK
  <2>4. /\ invitations'[req[r].inv].creator = invitations[req[r].inv].creator
        /\ invitations'[req[r].inv].target = invitations[req[r].inv].target
    BY <1>3, <2>1, WriteInvitation DEF TablesOK
  <2>5. PendingBetween(u, v)' \subseteq PendingBetween(u, v)
    BY <2>1, <2>3, <2>4 DEF PendingBetween, Stored, PairOf
  <2> QED BY <2>1, <2>2, <2>3, <2>5 DEF NothingNew, ChatsOf, Stored
<1>4. CASE InsertFriend(r)
  <2>1. Between(r) # {u, v} /\ Between(r) = {req[r].u, req[r].v}
    BY <1>4, Locals DEF InsertFriend, Adding, Answering, Answered
  <2> QED BY <1>4, <2>1 DEF InsertFriend, NothingNew, ChatsOf, PendingBetween, Stored
<1>5. CASE InsertChat(r)
  <2>1. req[r].chat \in ChatIds /\ req[r].chat \notin chats
    BY <1>5, Typed DEF InsertChat, OwnChat, BeforeChat, LocalsOK, Answering, Answered
  <2>2. members[req[r].chat] = {}
    BY <2>1 DEF OwnChat
  <2> QED BY <1>5, <2>2 DEF InsertChat, NothingNew, ChatsOf, PendingBetween, Stored
<1>6. CASE AttachUsers(r)
  <2>1. /\ Between(r) # {u, v} /\ Between(r) = {req[r].u, req[r].v}
        /\ req[r].chat \in ChatIds /\ members[req[r].chat] = {}
    BY <1>6, Locals, Typed DEF AttachUsers, Adding, Answering, Answered, LocalsOK, OwnChat
  <2>2. \A c \in ChatIds : members'[c] = IF c = req[r].chat THEN {req[r].u, req[r].v}
                                                            ELSE members[c]
    BY <1>6, Typed DEF AttachUsers, TypeOK
  <2>3. ChatsOf(u, v)' = ChatsOf(u, v)
    BY <1>6, <2>1, <2>2, Typed DEF AttachUsers, ChatsOf, TypeOK
  <2> QED BY <1>6, <2>3 DEF AttachUsers, NothingNew, PendingBetween, Stored
<1>7. CASE DeleteRow(r)
  BY <1>7, NothingNewWhenUnchanged DEF DeleteRow
<1> QED
  BY <1>1, <1>2, <1>3, <1>4, <1>5, <1>6, <1>7, Typed, ReceiveEffect
     DEF Continue, Fail, CheckNotFriends, CheckNotInvited, ReadInvitation,
         FindFriendship, FindChat, FindRow

\* What another request relies on stays true.
LEMMA OthersRely ==
    ASSUME Inv, PairsApart, NEW r \in Requests, Receive(r) \/ Continue(r) \/ Fail(r),
           NEW q \in Requests, q # r, req'[q] = req[q]
    PROVE  StillTrue(q)'
<1>1. SUFFICES ASSUME req[q].pc \in Adding, req[q].pc # "readInvitation"
               PROVE  StillTrue(q)'
  BY DEF StillTrue, Adding, Inviting, Answering, Answered
<1>2. /\ Between(q) = {req[q].u, req[q].v} /\ req[q].u \in Users /\ req[q].v \in Users
      /\ req[q].pc \in Answered => req[q].inv \in Stored /\ PairOf(req[q].inv) = Between(q)
  BY <1>1, Locals DEF Inv, Adding, Answering
<1>3. req[r].pc \in Adding => Between(r) # {req[q].u, req[q].v}
  BY <1>1, <1>2 DEF PairsApart
<1>4. NothingNew(req[q].u, req[q].v)
  BY <1>2, <1>3, Elsewhere DEF Inv
<1>5. StillTrue(q)
  BY DEF Inv, Checked
<1>6. ~AreFriends(req[q].u, req[q].v) => ~AreFriends(req[q].u, req[q].v)'
  BY <1>4 DEF NothingNew, AreFriends, Rows
<1>7. PendingBetween(req[q].u, req[q].v) = {} => PendingBetween(req[q].u, req[q].v)' = {}
  BY <1>4 DEF NothingNew
<1>8. ChatsOf(req[q].u, req[q].v) = {} => ChatsOf(req[q].u, req[q].v)' = {}
  BY <1>4 DEF NothingNew
<1>9. req[q].pc \in Answered => invitations'[req[q].inv] = invitations[req[q].inv]
  BY <1>2, <1>4 DEF NothingNew
<1> QED BY <1>5, <1>6, <1>7, <1>8, <1>9 DEF StillTrue, AreFriends, Rows, PendingBetween, ChatsOf, Stored

\* The three promises for one pair.
OneOf(u, v) ==
    /\ \A i, j \in PendingBetween(u, v) : i = j
    /\ ~(<<u, v>> \in friends /\ <<v, u>> \in friends)
    /\ u # v => \A c, d \in ChatsOf(u, v) : c = d

\* For the users that r is not about, they hold on.
LEMMA OneOfElsewhere ==
    ASSUME Inv, NEW r \in Requests, Receive(r) \/ Continue(r) \/ Fail(r),
           NEW u \in Users, NEW v \in Users,
           req[r].pc \in Adding => Between(r) # {u, v}
    PROVE  OneOf(u, v)'
<1>1. NothingNew(u, v)
  BY Elsewhere DEF Inv
<1>2. OneOf(u, v)
  BY DEF Inv, Checked, OneOfEachPerPair, OneOf
<1> QED BY <1>1, <1>2 DEF NothingNew, OneOf

\* The statements of r that write nothing for the two users it is about.
LEMMA OneOfUnchanged ==
    ASSUME Inv, UNCHANGED <<chats, members>>, friends' \subseteq friends,
           NEW u \in Users, NEW v \in Users,
           PendingBetween(u, v)' \subseteq PendingBetween(u, v)
    PROVE  OneOf(u, v)'
<1>1. OneOf(u, v)
  BY DEF Inv, Checked, OneOfEachPerPair, OneOf
<1>2. ChatsOf(u, v)' = ChatsOf(u, v)
  BY DEF ChatsOf
<1> QED BY <1>1, <1>2 DEF OneOf

\* Where a request that has just come in is.
LEMMA ReceiveTo ==
    ASSUME TypeOK, NEW r \in Requests, Receive(r)
    PROVE  req'[r].pc \in {"areFriends", "readInvitation", "findRow"}
<1>1. ASSUME NEW u \in Users, NEW v \in Users, NEW i \in InvitationIds,
             StartInvite(r, u, v, i)
      PROVE  req'[r].pc = "areFriends"
  BY <1>1 DEF StartInvite, Start, Idle, TypeOK
<1>2. ASSUME NEW u \in Users, NEW i \in InvitationIds, NEW answer \in InvitationStatus,
             NEW c \in ChatIds, StartAnswer(r, u, i, answer, c)
      PROVE  req'[r].pc = "readInvitation"
  BY <1>2 DEF StartAnswer, Start, Idle, TypeOK
<1>3. ASSUME NEW u \in Users, NEW v \in Users, StartUnfriend(r, u, v)
      PROVE  req'[r].pc = "findRow"
  BY <1>3 DEF StartUnfriend, Start, Idle, TypeOK
<1> QED BY <1>1, <1>2, <1>3 DEF Receive

\* The effect of each step on what the request itself relies on.
LEMMA OwnRely ==
    ASSUME Inv, NEW r \in Requests, Receive(r) \/ Continue(r) \/ Fail(r)
    PROVE  StillTrue(r)'
<1> DEFINE Relying == {"isInvited", "insertInvitation"} \cup Answered
<1>1. SUFFICES ASSUME req'[r].pc \in Relying PROVE StillTrue(r)'
  BY DEF StillTrue, Answered
<1>2. ~Finish(r)
  BY <1>1, Typed, FinishEffect DEF Inv, Idle, Answered
<1>3. ~Receive(r)
  BY <1>1, Typed, ReceiveTo DEF Inv, Answered
<1>4. StillTrue(r) /\ WellFormed /\ OwnChat
  BY DEF Inv, Checked
<1>5. CASE CheckNotFriends(r) \/ CheckNotInvited(r)
  <2>1. /\ UNCHANGED tables
        /\ req'[r].u = req[r].u /\ req'[r].v = req[r].v /\ req'[r].inv = req[r].inv
        /\ req'[r].pc \in {"isInvited", "insertInvitation"}
        /\ req[r].u # req[r].v /\ ~AreFriends(req[r].u, req[r].v)
        /\ req'[r].pc = "insertInvitation" => PendingBetween(req[r].u, req[r].v) = {}
    BY <1>2, <1>4, <1>5, Typed DEF CheckNotFriends, CheckNotInvited, Goto, TypeOK, Request,
                                   StillTrue
  <2> QED BY <2>1 DEF StillTrue, tables, AreFriends, Rows, PendingBetween, Stored, Answered
<1>6. CASE ReadInvitation(r)
  <2>1. /\ UNCHANGED tables /\ req'[r].inv = req[r].inv
        /\ invitations[req[r].inv].status = "Pending"
        /\ req'[r].pc \in {"findFriendship", "saveAnswer"}
    BY <1>2, <1>4, <1>6, Typed DEF ReadInvitation, TypeOK, Request
  <2> QED BY <2>1 DEF StillTrue, tables
<1>7. CASE FindFriendship(r) \/ FindChat(r)
  <2>1. /\ UNCHANGED tables /\ req'[r].inv = req[r].inv
        /\ req'[r].u = req[r].u /\ req'[r].v = req[r].v
        /\ invitations[req[r].inv].status = "Pending"
        /\ req'[r].pc \in {"insertFriend", "insertChat", "saveAnswer"}
        /\ req'[r].pc = "insertFriend" => ~AreFriends(req[r].u, req[r].v)
        /\ req'[r].pc = "insertChat" => ChatsOf(req[r].u, req[r].v) = {}
    BY <1>2, <1>4, <1>7, Typed DEF FindFriendship, FindChat, Goto, TypeOK, Request,
                                   StillTrue, Answered
  <2> QED BY <2>1 DEF StillTrue, tables, AreFriends, Rows, ChatsOf
<1>8. CASE InsertFriend(r) \/ AttachUsers(r)
  <2>1. /\ invitations' = invitations /\ req'[r].inv = req[r].inv
        /\ invitations[req[r].inv].status = "Pending"
        /\ req'[r].pc \in {"findChat", "saveAnswer"}
    BY <1>2, <1>4, <1>8, Typed DEF InsertFriend, AttachUsers, Goto, TypeOK, Request,
                                   StillTrue, Answered
  <2> QED BY <2>1 DEF StillTrue
<1>9. CASE InsertChat(r)
  <2>1. /\ invitations' = invitations /\ req'[r].inv = req[r].inv
        /\ req'[r].u = req[r].u /\ req'[r].v = req[r].v
        /\ invitations[req[r].inv].status = "Pending"
        /\ req'[r].pc = "attachUsers"
        /\ chats' = chats \cup {req[r].chat} /\ members' = members
        /\ ChatsOf(req[r].u, req[r].v) = {}
    BY <1>4, <1>9, Typed DEF InsertChat, Goto, TypeOK, Request, StillTrue, Answered
  <2>2. members[req[r].chat] = {}
    BY <1>4, <1>9, Typed DEF InsertChat, OwnChat, BeforeChat, LocalsOK, Answering, Answered
  <2>3. ChatsOf(req[r].u, req[r].v)' = {}
    BY <2>1, <2>2 DEF ChatsOf
  <2> QED BY <2>1, <2>3 DEF StillTrue, ChatsOf
<1>10. CASE FindRow(r)
  <2>1. PICK row \in Rows(req[r].u, req[r].v) :
            req' = [req EXCEPT ![r].pc = "deleteRow", ![r].u = row[1], ![r].v = row[2]]
    BY <1>2, <1>10 DEF FindRow
  <2>2. req'[r].pc = "deleteRow"
    BY <1>4, <2>1, Typed DEF TypeOK, Request
  <2> QED BY <1>1, <2>2 DEF Answered
<1> QED
  BY <1>2, <1>3, <1>5, <1>6, <1>7, <1>8, <1>9, <1>10
     DEF Continue, Fail, InsertInvitation, SaveAnswer, DeleteRow

\* The promises hold for the users that r is about as well: what r adds between
\* them, it has found missing.
LEMMA OneOfOwn ==
    ASSUME Inv, NEW r \in Requests, Continue(r), req[r].pc \in Adding,
           NEW u \in Users, NEW v \in Users, Between(r) = {u, v}
    PROVE  OneOf(u, v)'
<1>1. /\ WellFormed /\ OwnChat /\ StillTrue(r) /\ Distinct /\ OneOf(u, v)
  BY DEF Inv, Checked, OneOfEachPerPair, OneOf
<1>2. CASE UNCHANGED tables
  BY <1>2, OneOfUnchanged DEF tables, PendingBetween, Stored
<1>3. CASE InsertInvitation(r)
  <2>1. /\ {u, v} = {req[r].u, req[r].v} /\ req[r].u # req[r].v
        /\ PendingBetween(req[r].u, req[r].v) = {}
        /\ UNCHANGED <<friends, chats, members>>
    BY <1>1, <1>3, Locals DEF InsertInvitation, StillTrue, Inviting
  <2>2. \A i \in InvitationIds : i # req[r].inv => invitations'[i] = invitations[i]
    BY <1>3, Typed DEF Inv, InsertInvitation, TypeOK
  <2>3. PendingBetween(u, v) = {}
    BY <2>1 DEF PendingBetween
  <2>4. PendingBetween(u, v)' \subseteq {req[r].inv}
    BY <2>2, <2>3 DEF PendingBetween, Stored
  <2>5. ChatsOf(u, v)' = ChatsOf(u, v)
    BY <2>1 DEF ChatsOf
  <2> QED BY <1>1, <2>1, <2>4, <2>5 DEF OneOf
<1>4. CASE SaveAnswer(r)
  <2>1. UNCHANGED <<friends, chats, members>>
    BY <1>4 DEF SaveAnswer
  <2>2. /\ req[r].inv \in InvitationIds /\ req[r].inv \in Stored
        /\ invitations[req[r].inv].status = "Pending"
        /\ invitations[req[r].inv] \in Invitation
    BY <1>1, <1>4, Locals, Typed DEF SaveAnswer, StillTrue, Answering, Answered, LocalsOK
  <2>3. /\ \A i \in InvitationIds : i # req[r].inv => invitations'[i] = invitations[i]
        /\ invitations'[req[r].inv].creator = invitations[req[r].inv].creator
        /\ invitations'[req[r].inv].target = invitations[req[r].inv].target
    BY <1>1, <1>4, <2>2, WriteInvitation, Typed DEF SaveAnswer, TypeOK, TablesOK
  <2>4. PendingBetween(u, v)' \subseteq PendingBetween(u, v)
    BY <2>2, <2>3 DEF PendingBetween, Stored
  <2> QED BY <2>1, <2>4, OneOfUnchanged
<1>5. CASE InsertFriend(r)
  <2>1. /\ req[r].u = invitations[req[r].inv].creator
        /\ req[r].v = invitations[req[r].inv].target
        /\ req[r].inv \in Stored
        /\ ~AreFriends(req[r].u, req[r].v)
    BY <1>1, <1>5, Locals, Typed DEF InsertFriend, StillTrue, Answering, Answered, LocalsOK
  <2>2. /\ {u, v} = {req[r].u, req[r].v} /\ req[r].u # req[r].v
        /\ friends' = friends \cup {<<req[r].u, req[r].v>>}
        /\ UNCHANGED <<invitations, chats, members>>
    BY <1>1, <1>5, <2>1, Locals DEF InsertFriend, Distinct, Answered
  <2>3. ~(<<u, v>> \in friends' /\ <<v, u>> \in friends')
    BY <2>1, <2>2 DEF AreFriends, Rows
  <2> QED BY <1>1, <2>2, <2>3 DEF OneOf, PendingBetween, Stored, ChatsOf
<1>6. CASE InsertChat(r)
  <2>1. members[req[r].chat] = {}
    BY <1>1, <1>6, Typed DEF InsertChat, OwnChat, BeforeChat, LocalsOK, Answering, Answered
  <2>2. ChatsOf(u, v)' = ChatsOf(u, v)
    BY <1>6, <2>1 DEF InsertChat, ChatsOf
  <2> QED BY <1>1, <1>6, <2>2 DEF InsertChat, OneOf, PendingBetween, Stored
<1>7. CASE AttachUsers(r)
  <2>1. /\ {u, v} = {req[r].u, req[r].v} /\ ChatsOf(req[r].u, req[r].v) = {}
        /\ UNCHANGED <<invitations, friends, chats>>
    BY <1>1, <1>7, Locals DEF AttachUsers, StillTrue, Answered
  <2>2. \A c \in ChatIds : c # req[r].chat => members'[c] = members[c]
    BY <1>7, Typed DEF Inv, AttachUsers, TypeOK
  <2>3. ChatsOf(u, v)' \subseteq {req[r].chat}
    BY <1>1, <2>1, <2>2, Typed DEF ChatsOf, TypeOK
  <2> QED BY <1>1, <2>1, <2>3 DEF OneOf, PendingBetween, Stored
<1>8. ~DeleteRow(r)
  BY DEF DeleteRow, Adding, Inviting, Answering, Answered
<1> QED
  BY <1>2, <1>3, <1>4, <1>5, <1>6, <1>7, <1>8
     DEF Continue, CheckNotFriends, CheckNotInvited, ReadInvitation, FindFriendship,
         FindChat, FindRow

\* A stored invitation keeps its two users, and a new one is between two.
LEMMA DistinctKept ==
    ASSUME Inv, NEW r \in Requests, Receive(r) \/ Continue(r) \/ Fail(r)
    PROVE  Distinct'
<1>1. WellFormed /\ Distinct /\ StillTrue(r)
  BY DEF Inv, Checked
<1>2. CASE InsertInvitation(r)
  BY <1>1, <1>2, Typed DEF InsertInvitation, Distinct, StillTrue, Stored, TypeOK
<1>3. CASE SaveAnswer(r)
  BY <1>1, <1>3, WriteInvitation DEF SaveAnswer, TablesOK, Distinct, Inviting
<1>4. CASE invitations' = invitations
  BY <1>1, <1>4 DEF Distinct, Stored
<1> QED
  BY <1>1, <1>2, <1>3, <1>4, Typed, ReceiveEffect
     DEF Continue, Fail, CheckNotFriends, CheckNotInvited, ReadInvitation, FindFriendship,
         InsertFriend, FindChat, InsertChat, AttachUsers, FindRow, DeleteRow, tables

\* A step of r leaves the other slots alone.
LEMMA StepOthers ==
    ASSUME WellFormed, NEW r \in Requests, Receive(r) \/ Continue(r) \/ Fail(r)
    PROVE  Others(r)
<1>1. CASE Receive(r)
  BY <1>1, Typed, ReceiveEffect
<1>2. CASE ReadInvitation(r) \/ FindRow(r)
  BY <1>2, Typed DEF ReadInvitation, FindRow, Finish, Others, TypeOK
<1> QED
  BY <1>1, <1>2, Typed
     DEF Continue, Fail, CheckNotFriends, CheckNotInvited, InsertInvitation, FindFriendship,
         InsertFriend, FindChat, InsertChat, AttachUsers, SaveAnswer, DeleteRow,
         Goto, Finish, Others, TypeOK

LEMMA NextChecked == Inv /\ PairsApart /\ [Next]_vars => Checked'
<1> SUFFICES ASSUME Inv, PairsApart, [Next]_vars PROVE Checked'
  OBVIOUS
<1>1. ASSUME NEW r \in Requests, Receive(r) \/ Continue(r) \/ Fail(r) PROVE Checked'
  <2>1. ASSUME NEW q \in Requests PROVE StillTrue(q)'
    BY <1>1, StepOthers, OthersRely, OwnRely DEF Inv, Others
  <2>2. ASSUME NEW u \in Users, NEW v \in Users PROVE OneOf(u, v)'
    <3>1. CASE Continue(r)
      BY <1>1, <3>1, OneOfElsewhere, OneOfOwn
    <3>2. CASE Receive(r) \/ Fail(r)
      BY <3>2, OneOfUnchanged, ReceiveEffect, Typed
         DEF Inv, Fail, tables, PendingBetween, Stored
    <3> QED BY <1>1, <3>1, <3>2
  <2>3. OneOfEachPerPair'
    BY <2>2 DEF OneOf, OneOfEachPerPair
  <2> QED BY <1>1, <2>1, <2>3, DistinctKept DEF Checked
<1>2. CASE UNCHANGED vars
  BY <1>2 DEF vars, Inv, Checked, StillTrue, AreFriends, Rows, PendingBetween, ChatsOf,
              Stored, Distinct, OneOfEachPerPair
<1> QED BY <1>1, <1>2 DEF Next

LEMMA InitInv == Init => Inv
<1> SUFFICES ASSUME Init PROVE Inv
  OBVIOUS
<1>1. OwnChat
  BY DEF Init, OwnChat, Idle, BeforeChat, Answering, Answered
<1>2. Checked
  BY DEF Init, Checked, StillTrue, Idle, Answered, Distinct, OneOfEachPerPair,
         PendingBetween, Stored, ChatsOf
<1> QED BY <1>1, <1>2, InitWellFormed DEF Inv

THEOREM AlwaysChecked == Spec /\ []PairsApart => []Inv
<1>1. Inv /\ PairsApart /\ [Next]_vars => Inv'
  BY NextWellFormed, NextOwnChat, NextChecked DEF Inv
<1> QED BY InitInv, <1>1, PTL DEF Spec

\* Two users never have two open invitations, two friendships or two private chats.
THEOREM NeverTwoOfAnything == Spec /\ []PairsApart => []OneOfEachPerPair
<1>1. Inv => OneOfEachPerPair
  BY DEF Inv, Checked
<1> QED BY <1>1, AlwaysChecked, PTL

\* An answer stays: nobody else's answer to the same invitation was on its way when
\* this one was saved.
THEOREM AnswersStay == Spec /\ []PairsApart => AnsweredOnce
<1>1. Inv /\ [Next]_vars =>
        [\A i \in Stored : invitations[i].status # "Pending"
                             => invitations'[i] = invitations[i]]_vars
  <2> SUFFICES ASSUME Inv, [Next]_vars, NEW i \in Stored,
                      invitations[i].status # "Pending"
               PROVE  invitations'[i] = invitations[i]
    OBVIOUS
  <2>1. ASSUME NEW r \in Requests, InsertInvitation(r) \/ SaveAnswer(r)
        PROVE  req[r].inv # i
    BY <2>1, Typed DEF Inv, Checked, StillTrue, InsertInvitation, SaveAnswer, LocalsOK,
                       Stored, Inviting, Answered
  <2>2. ASSUME NEW r \in Requests, InsertInvitation(r) \/ SaveAnswer(r)
        PROVE  invitations'[i] = invitations[i]
    BY <2>1, <2>2, Typed DEF Inv, InsertInvitation, SaveAnswer, TypeOK, Stored
  <2>3. ASSUME NEW r \in Requests, Receive(r) \/ Continue(r) \/ Fail(r)
        PROVE  invitations'[i] = invitations[i]
    BY <2>2, <2>3, Typed, ReceiveEffect
       DEF Inv, Continue, Fail, CheckNotFriends, CheckNotInvited, ReadInvitation,
           FindFriendship, InsertFriend, FindChat, InsertChat, AttachUsers, FindRow,
           DeleteRow, tables
  <2> QED BY <2>3 DEF Next, vars
<1> QED BY <1>1, AlwaysChecked, PTL DEF Spec, AnsweredOnce

-----------------------------------------------------------------------------
(* The services implement the social graph, under the same condition.            *)

\* The state of the social graph.
Invited == {{invitations[i].creator, invitations[i].target} :
              i \in {j \in Stored : invitations[j].status = "Pending"}}
Befriended == {{row[1], row[2]} : row \in friends}

\* Two users are in the graph as the queries of the services find them.
LEMMA InGraph ==
    ASSUME TypeOK, NEW u \in Users, NEW v \in Users
    PROVE  /\ {u, v} \in Invited <=> PendingBetween(u, v) # {}
           /\ {u, v} \in Befriended <=> AreFriends(u, v)
<1>1. {u, v} \in Invited <=> PendingBetween(u, v) # {}
  <2>1. ASSUME NEW i \in Stored
        PROVE  {invitations[i].creator, invitations[i].target} = {u, v} <=>
                  \/ invitations[i].creator = u /\ invitations[i].target = v
                  \/ invitations[i].creator = v /\ invitations[i].target = u
    OBVIOUS
  <2> QED BY <2>1 DEF Invited, PendingBetween
<1>2. {u, v} \in Befriended <=> AreFriends(u, v)
  <2>1. ASSUME NEW row \in friends
        PROVE  {row[1], row[2]} = {u, v} <=> row \in {<<u, v>>, <<v, u>>}
    BY DEF TypeOK
  <2> QED BY <2>1 DEF Befriended, AreFriends, Rows
<1> QED BY <1>1, <1>2

\* createFriend invites two users who have no open invitation and are no friends.
LEMMA InvitesInGraph ==
    ASSUME Inv, NEW r \in Requests, InsertInvitation(r)
    PROVE  \E p \in Graph!Pair : Graph!Invite(p)
<1> DEFINE u == req[r].u
           v == req[r].v
<1>1. /\ TypeOK /\ u \in Users /\ v \in Users /\ u # v
      /\ ~AreFriends(u, v) /\ PendingBetween(u, v) = {}
      /\ req[r].inv \in InvitationIds /\ req[r].inv \notin Stored
  BY Typed DEF Inv, Checked, StillTrue, InsertInvitation, LocalsOK, Inviting, Stored
<1>2. {u, v} \in Graph!Pair
  BY <1>1 DEF Graph!Pair
<1>3. {u, v} \notin Invited /\ {u, v} \notin Befriended
  BY <1>1, InGraph
<1>4. /\ invitations' = [invitations EXCEPT ![req[r].inv] =
            [creator |-> u, target |-> v, status |-> "Pending"]]
      /\ friends' = friends
  BY DEF InsertInvitation
<1>5. \A i \in InvitationIds : invitations'[i] =
            IF i = req[r].inv THEN [creator |-> u, target |-> v, status |-> "Pending"]
                              ELSE invitations[i]
  BY <1>1, <1>4 DEF TypeOK
<1>6. [creator |-> u, target |-> v, status |-> "Pending"] \in Invitation
  BY <1>1 DEF Invitation, InvitationStatus
<1>7. Stored' = Stored \cup {req[r].inv}
  BY <1>1, <1>5, <1>6, FriendshipAssumption DEF Stored
<1>8. \A i \in Stored' : invitations'[i].status = "Pending"
                            <=> i = req[r].inv \/ invitations[i].status = "Pending"
  BY <1>1, <1>5, <1>7 DEF Stored
<1>9. Invited' = Invited \cup {{u, v}}
  BY <1>1, <1>5, <1>7, <1>8 DEF Invited, Stored
<1>10. Befriended' = Befriended
  BY <1>4 DEF Befriended
<1> QED BY <1>2, <1>3, <1>9, <1>10 DEF Graph!Invite, Invited, Befriended

\* An acceptance befriends two users who have an open invitation and are no friends.
LEMMA BefriendsInGraph ==
    ASSUME Inv, NEW r \in Requests, InsertFriend(r)
    PROVE  \E p \in Graph!Pair : Graph!Befriend(p)
<1> DEFINE u == req[r].u
           v == req[r].v
<1>1. /\ TypeOK /\ u \in Users /\ v \in Users /\ ~AreFriends(u, v)
      /\ req[r].inv \in Stored /\ invitations[req[r].inv].status = "Pending"
      /\ u = invitations[req[r].inv].creator /\ v = invitations[req[r].inv].target
      /\ u # v
  BY Typed, Locals DEF Inv, Checked, Distinct, StillTrue, InsertFriend, LocalsOK,
                       Answering, Answered
<1>2. {u, v} \in Graph!Pair
  BY <1>1 DEF Graph!Pair
<1>3. {u, v} \in Invited /\ {u, v} \notin Befriended
  BY <1>1, InGraph DEF Invited
<1>4. friends' = friends \cup {<<u, v>>} /\ invitations' = invitations
  BY DEF InsertFriend
<1>5. Befriended' = Befriended \cup {{u, v}}
  <2>1. Befriended \subseteq Befriended'
    BY <1>4 DEF Befriended
  <2>2. {<<u, v>>[1], <<u, v>>[2]} \in Befriended'
    BY <1>4 DEF Befriended
  <2>3. ASSUME NEW row \in friends' PROVE {row[1], row[2]} \in Befriended \cup {{u, v}}
    BY <1>4 DEF Befriended
  <2> QED BY <2>1, <2>2, <2>3 DEF Befriended
<1>6. Invited' = Invited
  BY <1>4 DEF Invited, Stored
<1> QED BY <1>2, <1>3, <1>5, <1>6 DEF Graph!Befriend, Invited, Befriended

\* An answer closes the only open invitation of the two users, or changes nothing.
LEMMA ClosesInGraph ==
    ASSUME Inv, NEW r \in Requests, SaveAnswer(r)
    PROVE  \/ UNCHANGED <<Invited, Befriended>>
           \/ \E p \in Graph!Pair : Graph!Close(p)
<1> DEFINE i == req[r].inv
           u == invitations[i].creator
           v == invitations[i].target
<1>1. /\ TypeOK /\ WellFormed /\ i \in Stored /\ i \in InvitationIds
      /\ invitations[i].status = "Pending"
      /\ invitations[i] \in Invitation /\ u \in Users /\ v \in Users /\ u # v
      /\ req[r].answer \in InvitationStatus
  BY Typed, Locals DEF Inv, Checked, Distinct, StillTrue, SaveAnswer, LocalsOK,
                       Answering, Answered, Stored, Invitation
<1>2. \A j \in PendingBetween(u, v) : j = i
  <2>1. i \in PendingBetween(u, v)
    BY <1>1 DEF PendingBetween
  <2>2. \A a, b \in PendingBetween(u, v) : a = b
    BY <1>1 DEF Inv, Checked, OneOfEachPerPair
  <2> QED BY <2>1, <2>2
<1>3. friends' = friends /\ Befriended' = Befriended
  BY DEF SaveAnswer, Befriended
<1>4. CASE req[r].answer = "Pending"
  BY <1>3, <1>4 DEF SaveAnswer, Invited, Stored
<1>5. CASE req[r].answer # "Pending"
  <2>1. /\ \A j \in InvitationIds : j # i => invitations'[j] = invitations[j]
        /\ invitations'[i].status # "Pending"
    BY <1>1, <1>5 DEF SaveAnswer, TypeOK, Invitation
  <2>2. Stored' = Stored
    BY <1>1, <2>1, WriteInvitation, WriteWellFormed DEF TablesOK, Stored, SaveAnswer, Inviting
  <2>3. \A j \in Stored : {invitations[j].creator, invitations[j].target} = {u, v}
                              /\ invitations[j].status = "Pending" => j = i
    BY <1>2 DEF PendingBetween
  <2>4. {j \in Stored' : invitations'[j].status = "Pending"}
            = {j \in Stored : invitations[j].status = "Pending"} \ {i}
    BY <2>1, <2>2 DEF Stored
  <2>5. Invited' = Invited \ {{u, v}}
    <3>1. ASSUME NEW j \in Stored', invitations'[j].status = "Pending"
          PROVE  {invitations'[j].creator, invitations'[j].target} \in Invited \ {{u, v}}
      BY <2>1, <2>2, <2>3, <3>1 DEF Invited, Stored
    <3>2. ASSUME NEW j \in Stored, invitations[j].status = "Pending",
                 {invitations[j].creator, invitations[j].target} # {u, v}
          PROVE  {invitations[j].creator, invitations[j].target} \in Invited'
      BY <2>1, <2>2, <3>2 DEF Invited, Stored
    <3>3. ASSUME NEW p \in Invited' PROVE p \in Invited \ {{u, v}}
      BY <3>1 DEF Invited
    <3>4. ASSUME NEW p \in Invited, p # {u, v} PROVE p \in Invited'
      BY <3>2, <3>4 DEF Invited
    <3> HIDE DEF u, v
    <3> QED BY <3>3, <3>4
  <2>6. {u, v} \in Invited
    BY <1>1 DEF Invited
  <2>7. {u, v} \in Graph!Pair
    BY <1>1 DEF Graph!Pair
  <2> QED BY <1>3, <2>5, <2>6, <2>7 DEF Graph!Close, Invited, Befriended
<1> QED BY <1>4, <1>5

\* The rows that a deletion removes share one of the columns of the primary key,
\* hence a user.
LEMMA UnfriendsInGraph ==
    ASSUME Inv, NEW r \in Requests, DeleteRow(r)
    PROVE  \/ UNCHANGED <<Invited, Befriended>>
           \/ \E u \in Users, ps \in SUBSET Befriended : Graph!Unfriend(u, ps)
<1> DEFINE ps == Befriended \ Befriended'
           x == IF "user_id" \in PrimaryKey THEN req[r].u ELSE req[r].v
<1>1. TypeOK /\ req[r].u \in Users /\ req[r].v \in Users
  BY Typed DEF Inv, DeleteRow, LocalsOK, Unfriending
<1>2. /\ friends' = {row \in friends : ~SameKey(row, <<req[r].u, req[r].v>>)}
      /\ invitations' = invitations
  BY DEF DeleteRow
<1>3. Befriended' \subseteq Befriended /\ Invited' = Invited
  BY <1>2 DEF Befriended, Invited, Stored
<1>4. "user_id" \in PrimaryKey \/ "friend_id" \in PrimaryKey
  BY FriendshipAssumption DEF Columns
<1>5. \A p \in ps : x \in p
  <2> SUFFICES ASSUME NEW row \in friends, row \notin friends'
               PROVE  x \in {row[1], row[2]}
    BY DEF Befriended
  <2> QED BY <1>2, <1>4 DEF SameKey
<1>6. Befriended' = Befriended \ ps
  BY <1>3
<1>7. x \in Users /\ ps \in SUBSET Befriended
  BY <1>1
<1>8. CASE ps = {}
  BY <1>3, <1>6, <1>8
<1>9. CASE ps # {}
  BY <1>3, <1>5, <1>6, <1>7, <1>9 DEF Graph!Unfriend, Invited, Befriended
<1> QED BY <1>8, <1>9

\* Seen as a social graph, whatever the services do is a step of it: whom the user
\* has an open invitation with, and who the friends are.
THEOREM ImplementsSocialGraph == Spec /\ []PairsApart => ImplementsGraph
<1>1. Init => Graph!Init
  BY DEF Init, Graph!Init, Stored
<1>2. Inv /\ [Next]_vars => Graph!Next \/ UNCHANGED <<Invited, Befriended>>
  <2> SUFFICES ASSUME Inv, [Next]_vars
               PROVE  Graph!Next \/ UNCHANGED <<Invited, Befriended>>
    OBVIOUS
  <2>1. CASE UNCHANGED <<invitations, friends>>
    BY <2>1 DEF Invited, Befriended, Stored
  <2>2. ASSUME NEW r \in Requests, Continue(r)
        PROVE  Graph!Next \/ UNCHANGED <<Invited, Befriended>>
    BY <2>1, <2>2, InvitesInGraph, BefriendsInGraph, ClosesInGraph, UnfriendsInGraph
       DEF Continue, CheckNotFriends, CheckNotInvited, ReadInvitation, FindFriendship,
           FindChat, InsertChat, AttachUsers, FindRow, tables, Graph!Next, Befriended
  <2>3. ASSUME NEW r \in Requests, Receive(r) \/ Fail(r)
        PROVE  UNCHANGED <<invitations, friends>>
    BY <2>3, Typed, ReceiveEffect DEF Inv, Fail, tables
  <2> QED BY <2>1, <2>2, <2>3 DEF Next, vars
<1>3. Inv /\ [Next]_vars => [Graph!Next]_<<Invited, Befriended>>
  BY <1>2
<1> QED BY <1>1, <1>3, AlwaysChecked, PTL DEF Spec, ImplementsGraph, Graph!Spec, Invited, Befriended

\* One request at a time, whatever fails: all three hold without more.
THEOREM OneAtATime ==
    ASSUME \A r, q \in Requests : r = q
    PROVE  Spec => []OneOfEachPerPair /\ AnsweredOnce /\ ImplementsGraph
<1>1. PairsApart
  BY DEF PairsApart
<1> QED BY <1>1, NeverTwoOfAnything, AnswersStay, ImplementsSocialGraph, PTL
=============================================================================
