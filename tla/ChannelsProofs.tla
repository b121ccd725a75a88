--------------------------- MODULE ChannelsProofs ---------------------------
(***************************************************************************)
(* The invariants of Channels, for any number of servers, channels and     *)
(* concurrent requests, whether or not calls fail.                         *)
(*                                                                         *)
(* TreeStored is inductive with the types: every write checks again what   *)
(* it refers to, and a deletion takes a closed set of rows (Subtrees).     *)
(* GoesFirst is inductive thanks to its history.  BornInFolder needs what  *)
(* a creation may still rely on when it inserts, long after its checks:    *)
(* its id is its own (Fresh), and the id of its folder stands for a folder *)
(* or for nothing (ParentsOK).                                             *)
(***************************************************************************)
EXTENDS Channels, TLAPS

Creating(q) == q.pc \in {"findParent", "readPositions", "insert"}

\* The id of a creation in progress is given to nothing else.
Fresh ==
    \A r \in Requests : Creating(req[r]) =>
        /\ req[r].id \notin Stored
        /\ \A q \in Requests : q # r /\ Creating(req[q]) => req[q].id # req[r].id

\* What a creation may rely on about its parent, once it looked at it.
ParentsOK ==
    \A r \in Requests : Creating(req[r]) /\ req[r].row.parent # NULL =>
        /\ req[r].row.type \in Leaf
        /\ req[r].pc # "findParent" =>
             /\ req[r].row.parent \in Stored =>
                  channel[req[r].row.parent].type = "FOLDER_SERVER"
             /\ \A q \in Requests : Creating(req[q]) => req[q].id # req[r].row.parent

Inv == TypeOK /\ TreeStored /\ GoesFirst /\ Fresh /\ ParentsOK

-----------------------------------------------------------------------------
(* Constants, and the effect of a step on the slots.                       *)

LEMMA NullIsNothing ==
    NULL \notin Channel /\ NULL \notin ChannelIds /\ NULL \notin Servers
BY ChannelsAssumption

LEMMA IdleOK == Idle \in Request /\ ~Creating(Idle) /\ Idle.pc = "idle"
BY DEF Idle, Request, Labels, Creating

\* The end of a request disturbs nothing, when no row changes but attached may
\* gain stored channels.
LEMMA FinishKeeps ==
    ASSUME Inv, NEW r \in Requests, Finish(r), UNCHANGED <<servers, channel>>,
           attached' \subseteq attached \cup Stored
    PROVE  Inv'
<1>1. /\ req' \in [Requests -> Request]
      /\ req'[r] = Idle
      /\ \A q \in Requests : q # r => req'[q] = req[q]
      /\ \A q \in Requests : Creating(req'[q]) => q # r
    BY IdleOK DEF Inv, TypeOK, Finish
<1>2. Stored' = Stored /\ \A s : ChannelsOf(s)' = ChannelsOf(s)
    BY DEF Stored, ChannelsOf
<1>3. TypeOK'
    BY <1>1, IdleOK DEF Inv, TypeOK, Finish, Stored
<1>4. TreeStored'
    BY <1>2 DEF Inv, TreeStored
<1>5. GoesFirst'
    <2> SUFFICES ASSUME NEW q \in Requests, req'[q].pc = "insert",
                        NEW c \in Stored', c \notin later'[q],
                        channel'[c].server = req'[q].row.server
                 PROVE  req'[q].row.position < channel'[c].position
        BY DEF GoesFirst, ChannelsOf
    <2>1. q # r
        BY <1>1, IdleOK
    <2>2. req'[q] = req[q] /\ later'[q] = later[q]
        BY <1>1, <2>1 DEF Inv, TypeOK, Finish
    <2> QED
        BY <1>2, <2>2 DEF Inv, GoesFirst, ChannelsOf
<1>6. Fresh'
    BY <1>1, <1>2 DEF Inv, Fresh
<1>7. ParentsOK'
    BY <1>1, <1>2 DEF Inv, ParentsOK
<1> QED
    BY <1>3, <1>4, <1>5, <1>6, <1>7 DEF Inv

\* An update that starts keeps to its own locals.
LEMMA StartUpdateKeeps ==
    ASSUME Inv, NEW r \in Requests, NEW c \in ChannelIds, NEW given \in SUBSET Columns,
           NEW parent \in ChannelIds \cup {NULL}, NEW position \in NewPositions,
           StartUpdate(r, c, given, parent, position)
    PROVE  Inv'
<1> DEFINE row == [channel[c] EXCEPT
                     !.parent = IF "parent" \in given THEN parent ELSE @,
                     !.position = IF "position" \in given THEN position ELSE @]
           q0 == [pc |-> "save", id |-> c, row |-> row,
                  dirty |-> {d \in Columns : row[d] # channel[c][d]}]
<1>1. row \in Channel
    <2>1. channel[c] \in Channel
        BY DEF StartUpdate, Stored, Inv, TypeOK
    <2>2. position \in Int
        BY ChannelsAssumption
    <2> QED
        BY <2>1, <2>2 DEF Channel
<1>2. q0 \in Request /\ ~Creating(q0) /\ q0.pc # "idle" /\ q0.pc # "insert"
    BY <1>1 DEF Request, Labels, Creating
<1>3. /\ req' = [req EXCEPT ![r] = q0]
      /\ UNCHANGED <<servers, channel, attached, later>>
    BY DEF StartUpdate, tables
<1> HIDE DEF q0
<1>4. /\ req' \in [Requests -> Request]
      /\ req'[r] = q0
      /\ \A q \in Requests : q # r => req'[q] = req[q]
    BY <1>2, <1>3 DEF Inv, TypeOK
<1>5. Stored' = Stored /\ \A s : ChannelsOf(s)' = ChannelsOf(s)
    BY <1>3 DEF Stored, ChannelsOf
<1>6. TypeOK'
    BY <1>1, <1>2, <1>3, <1>4, NullIsNothing DEF Inv, TypeOK, q0
<1>7. TreeStored'
    BY <1>3, <1>5 DEF Inv, TreeStored
<1>8. GoesFirst'
    BY <1>2, <1>3, <1>4, <1>5 DEF Inv, GoesFirst
<1>9. Fresh'
    BY <1>2, <1>4, <1>5 DEF Inv, Fresh
<1>10. ParentsOK'
    BY <1>2, <1>3, <1>4, <1>5 DEF Inv, ParentsOK
<1> QED
    BY <1>6, <1>7, <1>8, <1>9, <1>10 DEF Inv

-----------------------------------------------------------------------------
(* Creations.                                                              *)

LEMMA StartCreateKeeps ==
    ASSUME Inv, NEW r \in Requests, NEW c \in ChannelIds, NEW s \in Servers,
           NEW type \in NewTypes, NEW parent \in ChannelIds \cup {NULL},
           StartCreate(r, c, s, type, parent)
    PROVE  Inv'
<1> DEFINE row == [server |-> s, type |-> type, parent |-> parent, position |-> 0]
           q0 == [pc |-> IF parent = NULL THEN "readPositions" ELSE "findParent",
                  id |-> c, dirty |-> {}, row |-> row]
<1>1. row \in Channel
    BY ChannelsAssumption DEF Channel
<1>2. /\ q0 \in Request /\ q0.pc # "idle" /\ q0.pc # "insert" /\ q0.id = c
      /\ q0.row = row /\ row.parent = parent /\ row.type = type
      /\ row.parent # NULL => q0.pc = "findParent" /\ row.type \in Leaf
    BY <1>1 DEF Request, Labels, StartCreate
<1>3. /\ req' = [req EXCEPT ![r] = q0]
      /\ UNCHANGED <<servers, channel, attached, later>>
      /\ NewId(c)
    BY DEF StartCreate, tables
<1> HIDE DEF q0, row
<1>4. /\ req' \in [Requests -> Request]
      /\ req'[r] = q0
      /\ \A q \in Requests : q # r => req'[q] = req[q]
    BY <1>2, <1>3 DEF Inv, TypeOK
<1>5. Stored' = Stored /\ \A x : ChannelsOf(x)' = ChannelsOf(x)
    BY <1>3 DEF Stored, ChannelsOf
<1>6. TypeOK'
    BY <1>1, <1>2, <1>3, <1>4, NullIsNothing DEF Inv, TypeOK
<1>7. TreeStored'
    BY <1>3, <1>5 DEF Inv, TreeStored
<1>8. GoesFirst'
    BY <1>2, <1>3, <1>4, <1>5 DEF Inv, GoesFirst
<1>9. Fresh'
    <2>1. c \notin Stored /\ \A q \in Requests : req[q].id # c
        BY <1>3 DEF NewId
    <2> QED
        BY <1>2, <1>4, <1>5, <2>1 DEF Inv, Fresh
<1>10. ParentsOK'
    <2> SUFFICES ASSUME NEW x \in Requests, Creating(req'[x]), req'[x].row.parent # NULL
                 PROVE  /\ req'[x].row.type \in Leaf
                        /\ req'[x].pc # "findParent" =>
                             /\ req'[x].row.parent \in Stored' =>
                                  channel'[req'[x].row.parent].type = "FOLDER_SERVER"
                             /\ \A q \in Requests : Creating(req'[q]) =>
                                  req'[q].id # req'[x].row.parent
        BY DEF ParentsOK
    <2>1. CASE x = r
        BY <1>2, <1>4, <2>1
    <2>2. CASE x # r
        <3>1. req'[x] = req[x] /\ req[x].row # NULL
            BY <1>4, <2>2 DEF Creating, Inv, TypeOK
        <3>2. req[x].row.parent # c
            BY <1>3, <3>1 DEF NewId
        <3> QED
            BY <1>2, <1>3, <1>4, <1>5, <3>1, <3>2 DEF Inv, ParentsOK
    <2> QED
        BY <2>1, <2>2
<1> QED
    BY <1>6, <1>7, <1>8, <1>9, <1>10 DEF Inv

\* A creation that goes on: the same id, parent and type, and no row changes.
LEMMA CreationGoesOn ==
    ASSUME Inv, NEW r \in Requests, NEW q0 \in Request,
           req' = [req EXCEPT ![r] = q0], UNCHANGED <<servers, channel, attached, later>>,
           Creating(req[r]), Creating(q0), q0.id = req[r].id, q0.row # NULL,
           q0.row.parent = req[r].row.parent, q0.row.type = req[r].row.type,
           q0.pc = "insert" => \A c \in ChannelsOf(q0.row.server) :
               q0.row.position < channel[c].position,
           q0.row.parent # NULL /\ q0.pc # "findParent" =>
             /\ q0.row.parent \in Stored =>
                  channel[q0.row.parent].type = "FOLDER_SERVER"
             /\ \A q \in Requests : Creating(req[q]) => req[q].id # q0.row.parent
    PROVE  Inv'
<1>1. /\ req' \in [Requests -> Request]
      /\ req'[r] = q0
      /\ \A q \in Requests : q # r => req'[q] = req[q]
      /\ \A q \in Requests : /\ req'[q].id = req[q].id
                             /\ Creating(req'[q]) <=> Creating(req[q])
    BY DEF Inv, TypeOK
<1>2. Stored' = Stored /\ \A x : ChannelsOf(x)' = ChannelsOf(x)
    BY DEF Stored, ChannelsOf
<1>3. TypeOK'
    BY <1>1 DEF Inv, TypeOK, Creating
<1>4. TreeStored'
    BY <1>2 DEF Inv, TreeStored
<1>5. GoesFirst'
    BY <1>1, <1>2 DEF Inv, GoesFirst
<1>6. Fresh'
    BY <1>1, <1>2 DEF Inv, Fresh
<1>7. ParentsOK'
    <2>1. q0.row.parent # NULL => q0.row.type \in Leaf
        BY DEF Inv, ParentsOK
    <2> QED
        BY <1>1, <1>2, <2>1 DEF Inv, ParentsOK
<1> QED
    BY <1>3, <1>4, <1>5, <1>6, <1>7 DEF Inv

LEMMA FindParentKeeps ==
    ASSUME Inv, NEW r \in Requests, FindParent(r)
    PROVE  Inv'
<1> DEFINE parent == req[r].row.parent
           q0 == [req[r] EXCEPT !.pc = "readPositions"]
<1>1. CASE parent \in Stored /\ channel[parent].type = "FOLDER_SERVER"
    <2>1. /\ req' = [req EXCEPT ![r] = q0]
          /\ UNCHANGED <<servers, channel, attached, later>>
        BY <1>1 DEF FindParent, Goto, tables
    <2>2. /\ q0 \in Request /\ q0.id = req[r].id /\ q0.row = req[r].row
          /\ q0.pc = "readPositions" /\ req[r].row # NULL
          /\ Creating(q0) /\ Creating(req[r])
        BY DEF FindParent, Inv, TypeOK, Request, Labels, Creating
    <2>3. \A q \in Requests : Creating(req[q]) => req[q].id # parent
        BY <1>1 DEF Inv, Fresh
    <2> HIDE DEF q0
    <2> QED
        BY <1>1, <2>1, <2>2, <2>3, CreationGoesOn
<1>2. CASE ~(parent \in Stored /\ channel[parent].type = "FOLDER_SERVER")
    <2>1. Finish(r) /\ UNCHANGED <<servers, channel, attached>>
        BY <1>2 DEF FindParent, tables
    <2> QED
        BY <2>1, FinishKeeps
<1> QED
    BY <1>1, <1>2

LEMMA ReadPositionsKeeps ==
    ASSUME Inv, NEW r \in Requests, ReadPositions(r)
    PROVE  Inv'
<1> DEFINE siblings == ChannelsOf(req[r].row.server)
<1>1. PICK n \in Int :
          /\ req' = [req EXCEPT ![r].pc = "insert", ![r].row.position = n]
          /\ \A c \in siblings : n < channel[c].position
    <2>1. \A c \in siblings : channel[c].position \in Int
        BY DEF ChannelsOf, Stored, Inv, TypeOK, Channel
    <2>2. ASSUME siblings = {},
                 req' = [req EXCEPT ![r].pc = "insert", ![r].row.position = 0]
          PROVE  \E n \in Int :
                   /\ req' = [req EXCEPT ![r].pc = "insert", ![r].row.position = n]
                   /\ \A c \in siblings : n < channel[c].position
        <3> WITNESS 0 \in Int
        <3> QED
            BY <2>2
    <2>3. ASSUME NEW first \in siblings,
                 \A c \in siblings : channel[first].position <= channel[c].position,
                 req' = [req EXCEPT ![r].pc = "insert",
                                    ![r].row.position = channel[first].position - 1]
          PROVE  \E n \in Int :
                   /\ req' = [req EXCEPT ![r].pc = "insert", ![r].row.position = n]
                   /\ \A c \in siblings : n < channel[c].position
        <3>1. channel[first].position - 1 \in Int
            BY <2>1
        <3>2. \A c \in siblings : channel[first].position - 1 < channel[c].position
            BY <2>1, <2>3
        <3> QED
            BY <2>3, <3>1, <3>2
    <2> QED
        BY <2>2, <2>3 DEF ReadPositions
<1> DEFINE q0 == [req[r] EXCEPT !.pc = "insert", !.row.position = n]
<1>2. req[r] \in Request /\ req[r].row \in Channel /\ req[r].pc = "readPositions"
    BY DEF ReadPositions, Inv, TypeOK, Request
<1>3. req' = [req EXCEPT ![r] = q0]
    BY <1>1
<1>4. /\ q0 \in Request /\ q0.pc = "insert" /\ q0.id = req[r].id
      /\ q0.row \in Channel
      /\ q0.row.parent = req[r].row.parent /\ q0.row.type = req[r].row.type
      /\ q0.row.server = req[r].row.server /\ q0.row.position = n
    BY <1>2 DEF Request, Channel, Labels
<1>5. Creating(q0) /\ Creating(req[r]) /\ q0.row # NULL
    BY <1>2, <1>4, NullIsNothing DEF Creating
<1>6. q0.row.parent # NULL =>
          /\ q0.row.parent \in Stored => channel[q0.row.parent].type = "FOLDER_SERVER"
          /\ \A q \in Requests : Creating(req[q]) => req[q].id # q0.row.parent
    BY <1>2, <1>4, <1>5 DEF Inv, ParentsOK
<1>7. UNCHANGED <<servers, channel, attached, later>>
    BY DEF ReadPositions, tables
<1> HIDE DEF q0
<1> QED
    BY <1>1, <1>3, <1>4, <1>5, <1>6, <1>7, CreationGoesOn

-----------------------------------------------------------------------------
(* Writes.                                                                 *)

\* A step of r that writes the row c, which no creation but r's has the id of,
\* keeps what the others rely on, when it refers to stored rows only.
LEMMA WriteKeeps ==
    ASSUME Inv, NEW r \in Requests, NEW c \in ChannelIds, NEW row \in Channel,
           NEW q0 \in Request, FinishWith(r, c, q0),
           ~Creating(q0), q0.pc # "idle" => q0.id # NULL /\ q0.row # NULL,
           channel' = [channel EXCEPT ![c] = row], UNCHANGED <<servers, attached>>,
           row.server \in servers, row.parent \in Stored \cup {NULL},
           \A q \in Requests \ {r} : Creating(req[q]) =>
               /\ req[q].id # c
               /\ req[q].pc # "findParent" /\ req[q].row.parent = c
                    => c \in Stored /\ row.type = channel[c].type
    PROVE  Inv'
<1>1. /\ req' \in [Requests -> Request]
      /\ req'[r] = q0
      /\ \A q \in Requests : q # r => req'[q] = req[q]
      /\ \A q \in Requests : Creating(req'[q]) => q # r
    BY DEF Inv, TypeOK, FinishWith
<1>2. /\ Stored' = Stored \cup {c}
      /\ channel'[c] = row
      /\ \A d \in ChannelIds : d # c => channel'[d] = channel[d]
    BY NullIsNothing DEF Inv, TypeOK, Stored
<1>3. TypeOK'
    <2>1. channel' \in [ChannelIds -> Channel \cup {NULL}]
        BY DEF Inv, TypeOK
    <2>2. later' \in [Requests -> SUBSET ChannelIds]
        BY DEF FinishWith, Inv, TypeOK
    <2> QED
        BY <1>1, <2>1, <2>2 DEF Inv, TypeOK
<1>4. TreeStored'
    BY <1>2 DEF Inv, TreeStored
<1>5. GoesFirst'
    <2> SUFFICES ASSUME NEW q \in Requests, req'[q].pc = "insert",
                        NEW d \in Stored', d \notin later'[q],
                        channel'[d].server = req'[q].row.server
                 PROVE  req'[q].row.position < channel'[d].position
        BY DEF GoesFirst, ChannelsOf
    <2>1. q # r /\ req'[q] = req[q]
        BY <1>1 DEF Creating
    <2>2. later'[q] = later[q] \cup {c}
        BY <2>1 DEF FinishWith
    <2>3. d # c /\ d \in ChannelsOf(req[q].row.server) \ later[q]
        BY <1>2, <2>1, <2>2 DEF ChannelsOf
    <2>4. d \in ChannelIds
        BY <2>3 DEF ChannelsOf, Stored
    <2> QED
        BY <1>2, <2>1, <2>3, <2>4 DEF Inv, GoesFirst
<1>6. Fresh'
    BY <1>1, <1>2 DEF Inv, Fresh
<1>7. ParentsOK'
    <2> SUFFICES ASSUME NEW x \in Requests, Creating(req'[x]), req'[x].row.parent # NULL
                 PROVE  /\ req'[x].row.type \in Leaf
                        /\ req'[x].pc # "findParent" =>
                             /\ req'[x].row.parent \in Stored' =>
                                  channel'[req'[x].row.parent].type = "FOLDER_SERVER"
                             /\ \A q \in Requests : Creating(req'[q]) =>
                                  req'[q].id # req'[x].row.parent
        BY DEF ParentsOK
    <2>1. x # r /\ req'[x] = req[x]
        BY <1>1
    <2>2. Stored \subseteq ChannelIds
        BY DEF Stored
    <2>3. /\ req[x].row.type \in Leaf
          /\ req[x].pc # "findParent" =>
               /\ req[x].row.parent \in Stored =>
                    channel[req[x].row.parent].type = "FOLDER_SERVER"
               /\ \A q \in Requests : Creating(req[q]) => req[q].id # req[x].row.parent
        BY <2>1 DEF Inv, ParentsOK
    <2>4. ASSUME req[x].pc # "findParent", req[x].row.parent \in Stored'
          PROVE  channel'[req[x].row.parent].type = "FOLDER_SERVER"
        BY <1>2, <2>1, <2>2, <2>3, <2>4
    <2> QED
        BY <1>1, <2>1, <2>3, <2>4
<1> QED
    BY <1>3, <1>4, <1>5, <1>6, <1>7 DEF Inv

LEMMA InsertKeeps ==
    ASSUME Inv, NEW r \in Requests, Insert(r)
    PROVE  Inv'
<1> DEFINE row == req[r].row
           c == req[r].id
           q0 == [req[r] EXCEPT !.pc = "attach"]
<1>1. req[r] \in Request /\ row \in Channel /\ c \in ChannelIds /\ req[r].pc = "insert"
    BY DEF Insert, Inv, TypeOK, Request
<1>2. CASE row.server \in servers /\ row.parent \in Stored \cup {NULL}
    <2>1. /\ channel' = [channel EXCEPT ![c] = row]
          /\ FinishWith(r, c, q0)
          /\ UNCHANGED <<servers, attached>>
        BY <1>2 DEF Insert
    <2>2. /\ q0 \in Request /\ ~Creating(q0)
          /\ q0.id # NULL /\ q0.row # NULL
        BY <1>1, NullIsNothing DEF Request, Labels, Creating
    <2>3. \A q \in Requests \ {r} : Creating(req[q]) =>
              /\ req[q].id # c
              /\ ~(req[q].pc # "findParent" /\ req[q].row.parent = c)
        <3>1. Creating(req[r]) /\ c # NULL
            BY <1>1, NullIsNothing DEF Creating
        <3> QED
            BY <3>1 DEF Inv, Fresh, ParentsOK
    <2> HIDE DEF q0
    <2> QED
        BY <1>1, <1>2, <2>1, <2>2, <2>3, WriteKeeps
<1>3. CASE ~(row.server \in servers /\ row.parent \in Stored \cup {NULL})
    <2>1. Finish(r) /\ UNCHANGED <<servers, channel, attached>>
        BY <1>3 DEF Insert
    <2> QED
        BY <2>1, FinishKeeps
<1> QED
    BY <1>2, <1>3

LEMMA SaveKeeps ==
    ASSUME Inv, NEW r \in Requests, Save(r)
    PROVE  Inv'
<1> DEFINE c == req[r].id
           dirty == req[r].dirty
           given == req[r].row
           refused == ~(c \in Stored /\ ("parent" \in dirty => given.parent \in Stored \cup {NULL}))
<1>1. req[r] \in Request /\ given \in Channel /\ c \in ChannelIds
    BY DEF Save, Inv, TypeOK, Request
<1>2. CASE ~refused
    <2> DEFINE row == [channel[c] EXCEPT
                         !.parent = IF "parent" \in dirty THEN given.parent ELSE @,
                         !.position = IF "position" \in dirty THEN given.position ELSE @]
    <2>1. channel[c] \in Channel
        BY <1>2 DEF Stored, Inv, TypeOK
    <2>2. row \in Channel /\ row.type = channel[c].type /\ row.server = channel[c].server
        BY <1>1, <2>1 DEF Channel
    <2>3. row.parent \in Stored \cup {NULL} /\ row.server \in servers
        <3>1. channel[c].parent \in Stored \cup {NULL} /\ channel[c].server \in servers
            BY <1>2 DEF Inv, TreeStored
        <3>2. row.parent = IF "parent" \in dirty THEN given.parent ELSE channel[c].parent
            BY <2>1 DEF Channel
        <3> QED
            BY <1>2, <2>2, <3>1, <3>2
    <2>4. /\ channel' = [channel EXCEPT ![c] = row]
          /\ FinishWith(r, c, Idle)
          /\ UNCHANGED <<servers, attached>>
        BY <1>2 DEF Save
    <2>5. \A q \in Requests \ {r} : Creating(req[q]) => req[q].id # c
        BY <1>2 DEF Inv, Fresh
    <2> HIDE DEF row
    <2> QED
        BY <1>1, <1>2, <2>2, <2>3, <2>4, <2>5, IdleOK, WriteKeeps
<1>3. CASE refused
    <2>1. Finish(r) /\ UNCHANGED <<servers, channel, attached>>
        BY <1>3 DEF Save
    <2> QED
        BY <2>1, FinishKeeps
<1> QED
    BY <1>2, <1>3

-----------------------------------------------------------------------------
(* Deletions.                                                              *)

\* What a deletion takes along is closed under parent_id.
LEMMA SubtreesClosed ==
    ASSUME NEW roots \in SUBSET Stored
    PROVE  /\ roots \subseteq Subtrees(roots)
           /\ Subtrees(roots) \subseteq Stored
           /\ Closed(Subtrees(roots))
<1>1. ASSUME NEW c \in Stored, channel[c].parent \in Subtrees(roots)
      PROVE  c \in Subtrees(roots)
    <2> SUFFICES ASSUME NEW set \in SUBSET Stored, roots \subseteq set, Closed(set)
                 PROVE  c \in set
        BY DEF Subtrees
    <2>1. channel[c].parent \in set
        BY <1>1 DEF Subtrees
    <2> QED
        BY <2>1 DEF Closed
<1> QED
    BY <1>1 DEF Subtrees, Closed

LEMMA DeleteKeeps ==
    ASSUME Inv, NEW gone \in SUBSET Stored, Closed(gone), Delete(gone),
           UNCHANGED <<req, later>>, servers' \subseteq servers,
           \A c \in Stored \ gone : channel[c].server \in servers'
    PROVE  Inv'
<1>1. /\ Stored' = Stored \ gone
      /\ \A c \in Stored' : channel'[c] = channel[c]
      /\ Stored \subseteq ChannelIds
    BY DEF Delete, Stored
<1>2. TypeOK'
    BY DEF Inv, TypeOK, Delete
<1>3. TreeStored'
    BY <1>1 DEF Inv, TreeStored, Delete, Closed
<1>4. GoesFirst'
    <2>1. \A s : ChannelsOf(s)' \subseteq ChannelsOf(s) /\ ChannelsOf(s)' \subseteq Stored'
        BY <1>1 DEF ChannelsOf
    <2> QED
        BY <1>1, <2>1 DEF Inv, GoesFirst
<1>5. Fresh'
    BY <1>1 DEF Inv, Fresh
<1>6. ParentsOK'
    BY <1>1 DEF Inv, ParentsOK
<1> QED
    BY <1>2, <1>3, <1>4, <1>5, <1>6 DEF Inv

LEMMA DeleteChannelKeeps ==
    ASSUME Inv, NEW c \in ChannelIds, DeleteChannel(c)
    PROVE  Inv'
<1>1. {c} \in SUBSET Stored
    BY DEF DeleteChannel
<1>2. \A d \in Stored : channel[d].server \in servers
    BY DEF Inv, TreeStored
<1> QED
    BY <1>1, <1>2, SubtreesClosed, DeleteKeeps DEF DeleteChannel

LEMMA DeleteServerKeeps ==
    ASSUME Inv, NEW s \in Servers, DeleteServer(s)
    PROVE  Inv'
<1>1. ChannelsOf(s) \in SUBSET Stored
    BY DEF ChannelsOf
<1>2. \A d \in Stored \ Subtrees(ChannelsOf(s)) : channel[d].server \in servers'
    BY <1>1, SubtreesClosed DEF Inv, TreeStored, DeleteServer, ChannelsOf
<1> QED
    BY <1>1, <1>2, SubtreesClosed, DeleteKeeps DEF DeleteServer

-----------------------------------------------------------------------------
(* The invariant.                                                          *)

LEMMA InitInv == Init => Inv
<1> SUFFICES ASSUME Init PROVE Inv
    OBVIOUS
<1>1. Stored = {} /\ \A r \in Requests : req[r] = Idle
    BY DEF Init, Stored
<1>2. TypeOK
    BY IdleOK DEF Init, TypeOK
<1>3. TreeStored /\ GoesFirst /\ Fresh /\ ParentsOK
    BY <1>1, IdleOK DEF Init, TreeStored, GoesFirst, Fresh, ParentsOK
<1> QED
    BY <1>2, <1>3 DEF Inv

LEMMA StepInv == Inv /\ [Next]_vars => Inv'
<1> SUFFICES ASSUME Inv, [Next]_vars PROVE Inv'
    OBVIOUS
<1>1. ASSUME NEW r \in Requests, Receive(r) PROVE Inv'
    BY <1>1, StartCreateKeeps, StartUpdateKeeps DEF Receive
<1>2. ASSUME NEW r \in Requests, Attach(r) PROVE Inv'
    BY <1>2, FinishKeeps DEF Attach
<1>3. ASSUME NEW r \in Requests, Continue(r) PROVE Inv'
    BY <1>2, <1>3, FindParentKeeps, ReadPositionsKeeps, InsertKeeps, SaveKeeps DEF Continue
<1>4. ASSUME NEW r \in Requests, Fail(r) PROVE Inv'
    BY <1>4, FinishKeeps DEF Fail, tables
<1>5. ASSUME NEW s \in Servers, CreateServer(s) PROVE Inv'
    BY <1>5 DEF CreateServer, Inv, TypeOK, TreeStored, GoesFirst, Fresh, ParentsOK,
                Stored, ChannelsOf
<1>6. CASE UNCHANGED vars
    BY <1>6 DEF vars, Inv, TypeOK, TreeStored, GoesFirst, Fresh, ParentsOK,
                Stored, ChannelsOf
<1> QED
    BY <1>1, <1>3, <1>4, <1>5, <1>6, DeleteChannelKeeps, DeleteServerKeeps DEF Next

LEMMA Invariant == Spec => []Inv
<1> QED
    BY InitInv, StepInv, PTL DEF Spec

\* Every row and every local keeps the values its columns allow.
THEOREM ChannelsTyped == Spec => []TypeOK
<1>1. Inv => TypeOK
    BY DEF Inv
<1> QED
    BY <1>1, Invariant, PTL

\* No channel outlives its server or its folder, for trees of any depth and any
\* interleaving of creations, moves and deletions.
THEOREM TreeAlwaysStored == Spec => []TreeStored
<1>1. Inv => TreeStored
    BY DEF Inv
<1> QED
    BY <1>1, Invariant, PTL

\* A new channel goes before all those that were not stored or moved behind the
\* back of its creation.
THEOREM AlwaysGoesFirst == Spec => []GoesFirst
<1>1. Inv => GoesFirst
    BY DEF Inv
<1> QED
    BY <1>1, Invariant, PTL

-----------------------------------------------------------------------------
\* create puts channels into folders only, whatever happened to the folder
\* since it was checked.
THEOREM AlwaysBornInFolder == Spec => BornInFolder
<1> DEFINE Born == \A c \in Stored' \ Stored :
                     \/ channel'[c].parent = NULL
                     \/ /\ channel'[c].type \in Leaf
                        /\ channel'[channel'[c].parent].type = "FOLDER_SERVER"
<1>1. ASSUME Inv, [Next]_vars PROVE [Born]_vars
    <2>1. ASSUME NEW r \in Requests, Insert(r) PROVE Born
        <3> SUFFICES ASSUME NEW c \in Stored' \ Stored, channel'[c].parent # NULL
                     PROVE  /\ channel'[c].type \in Leaf
                            /\ channel'[channel'[c].parent].type = "FOLDER_SERVER"
            OBVIOUS
        <3>1. c \in ChannelIds /\ channel'[c] # channel[c]
            BY DEF Stored
        <3>2. /\ channel' = [channel EXCEPT ![req[r].id] = req[r].row]
              /\ req[r].row.parent \in Stored \cup {NULL}
            BY <2>1, <3>1 DEF Insert
        <3>3. c = req[r].id /\ channel'[c] = req[r].row
            BY <1>1, <3>1, <3>2 DEF Inv, TypeOK
        <3>4. Creating(req[r]) /\ req[r].pc # "findParent"
            BY <2>1 DEF Insert, Creating
        <3>5. req[r].row.parent # NULL /\ req[r].row.parent \in Stored
            BY <3>2, <3>3
        <3>6. req[r].row.parent # c /\ req[r].row.parent \in ChannelIds
            BY <3>2, <3>3 DEF Stored
        <3>7. req[r].row.type \in Leaf /\ channel[req[r].row.parent].type = "FOLDER_SERVER"
            BY <1>1, <3>4, <3>5 DEF Inv, ParentsOK
        <3> QED
            BY <1>1, <3>2, <3>3, <3>6, <3>7 DEF Inv, TypeOK
    <2>2. ASSUME NEW r \in Requests, Save(r) PROVE Stored' \subseteq Stored
        <3>1. \A c \in ChannelIds : c # req[r].id => channel'[c] = channel[c]
            BY <1>1, <2>2 DEF Save, Inv, TypeOK
        <3>2. req[r].id \notin Stored => channel' = channel
            BY <2>2 DEF Save
        <3> QED
            BY <3>1, <3>2 DEF Stored
    <2>3. ASSUME NEW r \in Requests,
                 Receive(r) \/ FindParent(r) \/ ReadPositions(r) \/ Attach(r) \/ Fail(r)
          PROVE  channel' = channel
        BY <2>3 DEF Receive, StartCreate, StartUpdate, FindParent, ReadPositions,
                    Attach, Fail, tables
    <2>4. ASSUME NEW gone, Delete(gone) PROVE Stored' \subseteq Stored
        BY <2>4 DEF Delete, Stored
    <2>5. Stored' \subseteq Stored => Born
        OBVIOUS
    <2>6. channel' = channel => Stored' \subseteq Stored
        BY DEF Stored
    <2>7. Next => Born
        BY <2>1, <2>2, <2>3, <2>4, <2>5, <2>6
           DEF Next, Continue, DeleteChannel, CreateServer, DeleteServer
    <2> QED
        BY <1>1, <2>7
<1>2. Spec => [][Born]_vars
    BY <1>1, Invariant, PTL DEF Spec
<1> QED
    BY <1>2 DEF BornInFolder
=============================================================================
