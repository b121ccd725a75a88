------------------------------ MODULE Channels ------------------------------
(***************************************************************************)
(* The channels of servers: a tree of depth two, folders above text and    *)
(* voice channels, ordered by position.  ChannelService.create, update and *)
(* deleteById, called by ServerChannelsController, and the cascades of the *)
(* foreign keys of the table channels.                                     *)
(*                                                                         *)
(* create awaits five database calls and update two; other requests run    *)
(* between them.  deleteById reads and deletes one row by its id, so it is *)
(* one action.  Names and descriptions are left out, and so is the redis   *)
(* key that update deletes: no statement of the program sets it.  The      *)
(* private chats of friends have no server and are in Friendship.          *)
(***************************************************************************)
EXTENDS Integers

CONSTANTS
    Servers,        \* bound: the UUIDs that may be given to servers
    ChannelIds,     \* bound: the UUIDs that may be given to channels
    Requests,       \* slots for HTTP requests being served at the same time
    NewTypes,       \* bound: the types that a creation may ask for
    NewPositions,   \* bound: the positions that an update may ask for
    LowestPosition, \* bound: create does not go below it
    MayFail,        \* whether an awaited call may reject (or the process die)
    NULL

ChannelType == {"TEXT_SERVER", "VOICE_SERVER", "PRIVATE_CHAT", "FOLDER_SERVER"}
Leaf == {"TEXT_SERVER", "VOICE_SERVER"}

Channel == [server: Servers, type: ChannelType,
            parent: ChannelIds \cup {NULL}, position: Int]

ASSUME ChannelsAssumption ==
    /\ NewTypes \subseteq ChannelType
    /\ NewPositions \subseteq Int
    /\ LowestPosition \in Int
    /\ MayFail \in BOOLEAN
    /\ NULL \notin Channel \cup ChannelIds \cup Servers

VARIABLES
    servers,        \* ids of the stored servers
    channel,        \* channel id -> row, NULL when there is none
    attached,       \* channels with their creator in channels_users
    req,            \* slot -> where the request is, and its local variables
    later           \* history: slot about to insert -> the channels that others
                    \* inserted or moved since it read the positions

tables == <<servers, channel, attached>>
vars == <<servers, channel, attached, req, later>>

Labels == {"idle", "findParent", "readPositions", "insert", "attach", "save"}
Columns == {"parent", "position"}

\* row: the row that create builds, or the values that update merges.
Request == [pc: Labels, id: ChannelIds \cup {NULL}, row: Channel \cup {NULL},
            dirty: SUBSET Columns]

Idle == [pc |-> "idle", id |-> NULL, row |-> NULL, dirty |-> {}]

TypeOK ==
    /\ servers \subseteq Servers
    /\ channel \in [ChannelIds -> Channel \cup {NULL}]
    /\ attached \subseteq ChannelIds
    /\ req \in [Requests -> Request]
    /\ later \in [Requests -> SUBSET ChannelIds]
    /\ \A r \in Requests : req[r].pc # "idle" => req[r].id # NULL /\ req[r].row # NULL

Init ==
    /\ servers = {}
    /\ channel = [c \in ChannelIds |-> NULL]
    /\ attached = {}
    /\ req = [r \in Requests |-> Idle]
    /\ later = [r \in Requests |-> {}]

-----------------------------------------------------------------------------
Stored == {c \in ChannelIds : channel[c] # NULL}
ChannelsOf(s) == {c \in Stored : channel[c].server = s}

\* An id that no row has and that no request has in its variables (a new UUID).
NewId(c) ==
    /\ c \notin Stored
    /\ \A r \in Requests : /\ req[r].id # c
                           /\ req[r].row # NULL => req[r].row.parent # c

\* What the deletion of a set of rows takes along: parent_id cascades.
Closed(set) == \A c \in Stored : channel[c].parent \in set => c \in set
Subtrees(roots) ==
    {c \in Stored : \A set \in SUBSET Stored : roots \subseteq set /\ Closed(set) => c \in set}

Delete(gone) ==
    /\ channel' = [c \in ChannelIds |-> IF c \in gone THEN NULL ELSE channel[c]]
    /\ attached' = attached \ gone

Goto(r, label) == req' = [req EXCEPT ![r].pc = label]

\* The end of a request, and of what its history is for.
Finish(r) ==
    /\ req' = [req EXCEPT ![r] = Idle]
    /\ later' = [later EXCEPT ![r] = {}]

\* The request r inserts or moves c and goes to the given state.
FinishWith(r, c, request) ==
    /\ req' = [req EXCEPT ![r] = request]
    /\ later' = [q \in Requests |-> IF q # r /\ req[q].pc = "insert"
                                      THEN later[q] \cup {c} ELSE {}]

-----------------------------------------------------------------------------
\* Faults: what each property is tested against is the action of the same place
\* with the mistake its name says.

InsertUnchecked(r) ==
    /\ req[r].pc = "insert"
    /\ channel' = [channel EXCEPT ![req[r].id] = req[r].row]
    /\ FinishWith(r, req[r].id, [req[r] EXCEPT !.pc = "attach"])
    /\ UNCHANGED <<servers, attached>>

ReadFolderPositions(r) ==
    /\ req[r].pc = "readPositions"
    /\ LET siblings == {c \in ChannelsOf(req[r].row.server) :
                           channel[c].parent = req[r].row.parent}
       IN  \/ /\ siblings = {}
              /\ req' = [req EXCEPT ![r].pc = "insert", ![r].row.position = 0]
           \/ \E first \in siblings :
              /\ \A c \in siblings : channel[first].position <= channel[c].position
              /\ channel[first].position > LowestPosition
              /\ req' = [req EXCEPT ![r].pc = "insert",
                                    ![r].row.position = channel[first].position - 1]
    /\ UNCHANGED <<tables, later>>

SaveWithoutServer(r) ==
    /\ req[r].pc = "save"
    /\ channel' = [channel EXCEPT ![req[r].id] =
            [server |-> NULL, type |-> "TEXT_SERVER",
             parent |-> req[r].row.parent, position |-> req[r].row.position]]
    /\ FinishWith(r, req[r].id, Idle)
    /\ UNCHANGED <<servers, attached>>

-----------------------------------------------------------------------------
\* POST /servers/:serverId/channels : create.

\* A private chat or a folder with a parent is refused.
StartCreate(r, c, s, type, parent) ==
    /\ req[r].pc = "idle"
    /\ NewId(c)
    /\ s \in servers
    /\ parent # NULL => type \in Leaf
    /\ req' = [req EXCEPT ![r] =
            [pc |-> IF parent = NULL THEN "readPositions" ELSE "findParent",
             id |-> c, dirty |-> {},
             row |-> [server |-> s, type |-> type, parent |-> parent, position |-> 0]]]
    /\ UNCHANGED <<tables, later>>

FindParent(r) ==
    /\ req[r].pc = "findParent"
    /\ LET parent == req[r].row.parent
       IN  IF parent \in Stored /\ channel[parent].type = "FOLDER_SERVER"
             THEN Goto(r, "readPositions") /\ UNCHANGED later
             ELSE Finish(r)
    /\ UNCHANGED tables

\* The new channel goes before the first one.
ReadPositions(r) ==
    /\ req[r].pc = "readPositions"
    /\ LET siblings == ChannelsOf(req[r].row.server)
       IN  \/ /\ siblings = {}
              /\ req' = [req EXCEPT ![r].pc = "insert", ![r].row.position = 0]
           \/ \E first \in siblings :
              /\ \A c \in siblings : channel[first].position <= channel[c].position
              /\ channel[first].position > LowestPosition
              /\ req' = [req EXCEPT ![r].pc = "insert",
                                    ![r].row.position = channel[first].position - 1]
    /\ UNCHANGED <<tables, later>>

\* The foreign keys refuse a server or a parent that is gone.
Insert(r) ==
    /\ req[r].pc = "insert"
    /\ LET row == req[r].row
       IN  IF row.server \in servers /\ row.parent \in Stored \cup {NULL}
             THEN /\ channel' = [channel EXCEPT ![req[r].id] = row]
                  /\ FinishWith(r, req[r].id, [req[r] EXCEPT !.pc = "attach"])
             ELSE Finish(r) /\ UNCHANGED channel
    /\ UNCHANGED <<servers, attached>>

Attach(r) ==
    /\ req[r].pc = "attach"
    /\ attached' = attached \cup ({req[r].id} \cap Stored)
    /\ Finish(r)
    /\ UNCHANGED <<servers, channel>>

-----------------------------------------------------------------------------
\* PUT /servers/:serverId/channels/:channelId : update.

\* Reads the row and merges what was given; the columns that differ are dirty.
StartUpdate(r, c, given, parent, position) ==
    /\ req[r].pc = "idle"
    /\ c \in Stored
    /\ LET row == [channel[c] EXCEPT
                     !.parent = IF "parent" \in given THEN parent ELSE @,
                     !.position = IF "position" \in given THEN position ELSE @]
       IN  req' = [req EXCEPT ![r] =
             [pc |-> "save", id |-> c, row |-> row,
              dirty |-> {d \in Columns : row[d] # channel[c][d]}]]
    /\ UNCHANGED <<tables, later>>

\* UPDATE ... WHERE id: nothing happens to a row that is gone, and the foreign
\* key refuses a parent that is gone.
Save(r) ==
    /\ req[r].pc = "save"
    /\ LET c == req[r].id
           dirty == req[r].dirty
           row == req[r].row
       IN  IF /\ c \in Stored
              /\ "parent" \in dirty => row.parent \in Stored \cup {NULL}
             THEN /\ channel' = [channel EXCEPT
                        ![c].parent = IF "parent" \in dirty THEN row.parent ELSE @,
                        ![c].position = IF "position" \in dirty THEN row.position ELSE @]
                  /\ FinishWith(r, c, Idle)
             ELSE Finish(r) /\ UNCHANGED channel
    /\ UNCHANGED <<servers, attached>>

-----------------------------------------------------------------------------
\* DELETE /servers/:serverId/channels/:channelId : deleteById.
DeleteChannel(c) ==
    /\ c \in Stored
    /\ Delete(Subtrees({c}))
    /\ UNCHANGED <<servers, req, later>>

\* ServerService.create and delete, as far as the channels are concerned: a new
\* server has no channel, and server_id cascades.
CreateServer(s) ==
    /\ s \notin servers
    /\ \A r \in Requests : req[r].row # NULL => req[r].row.server # s
    /\ servers' = servers \cup {s}
    /\ UNCHANGED <<channel, attached, req, later>>

DeleteServer(s) ==
    /\ s \in servers
    /\ servers' = servers \ {s}
    /\ Delete(Subtrees(ChannelsOf(s)))
    /\ UNCHANGED <<req, later>>

\* The awaited call rejects, or the process stops.
Fail(r) ==
    /\ MayFail
    /\ req[r].pc # "idle"
    /\ Finish(r)
    /\ UNCHANGED tables

Receive(r) ==
    \/ \E c \in ChannelIds, s \in Servers, type \in NewTypes,
          parent \in ChannelIds \cup {NULL} : StartCreate(r, c, s, type, parent)
    \/ \E c \in ChannelIds, given \in SUBSET Columns,
          parent \in ChannelIds \cup {NULL}, position \in NewPositions :
             StartUpdate(r, c, given, parent, position)

Continue(r) ==
    \/ FindParent(r) \/ ReadPositions(r) \/ Insert(r) \/ Attach(r)
    \/ Save(r)

Next ==
    \/ \E r \in Requests : Receive(r) \/ Continue(r) \/ Fail(r)
    \/ \E c \in ChannelIds : DeleteChannel(c)
    \/ \E s \in Servers : CreateServer(s) \/ DeleteServer(s)

Spec == Init /\ [][Next]_vars

-----------------------------------------------------------------------------
\* Properties.

\* No channel outlives its server or its folder, also when it is created in
\* them, or moved there, while they are deleted: the cascades and the foreign
\* keys leave no channel that no listing shows.
TreeStored ==
    /\ \A c \in Stored : /\ channel[c].server \in servers
                         /\ channel[c].parent \in Stored \cup {NULL}
    /\ attached \subseteq Stored

\* create only puts text and voice channels into another channel, and only into
\* a folder (E_WRONG_HIERARCHY), whatever happens to the folder between the
\* check and the insertion.
BornInFolder ==
    [][\A c \in Stored' \ Stored :
         \/ channel'[c].parent = NULL
         \/ /\ channel'[c].type \in Leaf
            /\ channel'[channel'[c].parent].type = "FOLDER_SERVER"]_vars

\* A channel about to be stored goes before all the others of its server, but
\* those that other requests stored or moved since the positions were read.
GoesFirst ==
    \A r \in Requests : req[r].pc = "insert" =>
        \A c \in ChannelsOf(req[r].row.server) \ later[r] :
            req[r].row.position < channel[c].position
=============================================================================
