------------------------------ MODULE Messages ------------------------------
(***************************************************************************)
(* The messages of channels and what the subscribers of a channel are told *)
(* of them: MessageService.create, update, destroy and pinning, called by  *)
(* MessagesChannelsController, and the cascades of the foreign keys of the *)
(* table messages.                                                         *)
(*                                                                         *)
(* A request broadcasts a message after it stored it, an edit after it     *)
(* saved it, and a deletion before it deletes the row.  A statement and    *)
(* the broadcast that follows it are two actions: another connection's     *)
(* statement may run between them.  A subscriber is only assumed to keep   *)
(* the last signal it had of each message.                                 *)
(*                                                                         *)
(* Owners, attachments, mentions and the messages of webhooks, which are   *)
(* broadcast elsewhere, are left out.                                      *)
(***************************************************************************)
CONSTANTS
    MessageIds,     \* bound: the UUIDs that may be given to messages
    ChannelIds,     \* the channels, all stored at first
    Contents,       \* the contents of messages
    NewContents,    \* bound: the contents that clients send
    NewPinned,      \* bound: what an edit gives for pinned, NULL for nothing
    Announcement,   \* the content of the message that announces a pin
    Requests,       \* slots for HTTP requests being served at the same time
    MayFail,        \* whether an awaited call may reject (or the process die)
    NULL

Columns == {"content", "pinned"}

Message == [content: Contents, pinned: BOOLEAN, channel: ChannelIds,
            parent: MessageIds \cup {NULL}]

SignalMessage == [action: {"create", "update", "delete"}, message: Message]

ASSUME MessagesAssumption ==
    /\ Announcement \in Contents /\ NewContents \subseteq Contents
    /\ NewPinned \subseteq BOOLEAN \cup {NULL}
    /\ MayFail \in BOOLEAN
    /\ NULL \notin Message \cup SignalMessage \cup MessageIds \cup ChannelIds

VARIABLES
    channels,       \* ids of the stored channels
    message,        \* message id -> row, NULL when there is none
    signal,         \* message id -> the last broadcast about it, or NULL
    req,            \* slot -> where the request is, and its local variables
    contended,      \* history: messages whose last request failed, or met
                    \* another one on the same message
    unannounced     \* history: messages whose creation failed after the row
                    \* was inserted, and nothing was broadcast about since

vars == <<channels, message, signal, req, contended, unannounced>>

Labels == {"idle", "insert", "signalCreate", "findAgain", "save", "signalUpdate",
           "signalDelete", "deleteRow"}

\* new and draft: the message being created; id, row and was: the message that is
\* edited, pinned or deleted, with the attributes of its instance and their
\* originals; asked: the columns for which the client gave another value than the
\* one stored when the request read it.
Request == [pc: Labels, new: MessageIds \cup {NULL}, draft: Message \cup {NULL},
            id: MessageIds \cup {NULL}, row: Message \cup {NULL},
            was: Message \cup {NULL}, asked: SUBSET Columns]

Idle == [pc |-> "idle", new |-> NULL, draft |-> NULL,
         id |-> NULL, row |-> NULL, was |-> NULL, asked |-> {}]

\* The columns of an instance that its save() writes.
Dirty(q) == {c \in Columns : q.row[c] # q.was[c]}

Creating(q) == q.pc \in {"insert", "signalCreate"}

TypeOK ==
    /\ channels \subseteq ChannelIds
    /\ message \in [MessageIds -> Message \cup {NULL}]
    /\ signal \in [MessageIds -> SignalMessage \cup {NULL}]
    /\ req \in [Requests -> Request]
    /\ contended \subseteq MessageIds
    /\ unannounced \subseteq MessageIds
    /\ \A r \in Requests :
         /\ req[r].pc = "idle" => req[r] = Idle
         /\ Creating(req[r]) <=> req[r].new # NULL
         /\ req[r].new # NULL => req[r].draft # NULL
         /\ ~Creating(req[r]) /\ req[r].pc # "idle" => req[r].id # NULL
         /\ req[r].id # NULL => req[r].row # NULL /\ req[r].was # NULL

Init ==
    /\ channels = ChannelIds
    /\ message = [m \in MessageIds |-> NULL]
    /\ signal = [m \in MessageIds |-> NULL]
    /\ req = [r \in Requests |-> Idle]
    /\ contended = {}
    /\ unannounced = {}

-----------------------------------------------------------------------------
Stored == {m \in MessageIds : message[m] # NULL}

\* The messages that a request creates or works on.
Handled(r) == {req[r].new, req[r].id} \ {NULL}
Quiet(m) == \A r \in Requests : m \notin Handled(r)

\* An id that no row, request or broadcast has (a new UUID).
NewId(m) ==
    /\ m \notin Stored
    /\ Quiet(m)
    /\ \A r \in Requests : /\ req[r].draft # NULL => req[r].draft.parent # m
                           /\ req[r].row # NULL => req[r].row.parent # m
    /\ \A x \in MessageIds : signal[x] # NULL => signal[x].message.parent # m

\* What the deletion of a set of rows takes along: parent_message_id cascades.
Closed(set) == \A m \in Stored : message[m].parent \in set => m \in set
Replies(roots) ==
    {m \in Stored : \A set \in SUBSET Stored : roots \subseteq set /\ Closed(set) => m \in set}

Delete(roots) ==
    message' = [m \in MessageIds |-> IF m \in Replies(roots) THEN NULL ELSE message[m]]

Goto(r, label) == req' = [req EXCEPT ![r].pc = label]
Finish(r) == req' = [req EXCEPT ![r] = Idle]

Broadcast(m, action, row) ==
    /\ signal' = [signal EXCEPT ![m] = [action |-> action, message |-> row]]
    /\ unannounced' = unannounced \ {m}

\* A request starts to work on m, in its row as read: alone or not.
StartOn(r, m, request) ==
    /\ req[r].pc = "idle"
    /\ m \in Stored
    /\ req' = [req EXCEPT ![r] = request]
    /\ contended' = IF Quiet(m) THEN contended \ {m} ELSE contended \cup {m}
    /\ UNCHANGED <<channels, message, signal, unannounced>>

-----------------------------------------------------------------------------
\* Faults: what each property is tested against is the action of the same place
\* with the mistake its name says.

InsertWithoutChannel(r) ==
    /\ req[r].pc = "insert"
    /\ message' = [message EXCEPT ![req[r].new] = [req[r].draft EXCEPT !.channel = NULL]]
    /\ signal' = [signal EXCEPT ![req[r].new] = NULL]
    /\ contended' = contended \ {req[r].new}
    /\ unannounced' = unannounced \ {req[r].new}
    /\ Goto(r, "signalCreate")
    /\ UNCHANGED channels

\* The old attributes merged over the originals of the row as it is found again.
MergeIntoFresh(r) ==
    /\ req[r].pc = "findAgain"
    /\ IF req[r].id \in Stored
         THEN req' = [req EXCEPT ![r].pc = "save", ![r].was = message[req[r].id]]
         ELSE Finish(r)
    /\ UNCHANGED <<channels, message, signal, contended, unannounced>>

SignalCreateAsUpdate(r) ==
    /\ req[r].pc = "signalCreate"
    /\ Broadcast(req[r].new, "update", req[r].draft)
    /\ IF req[r].id = NULL
         THEN Finish(r)
         ELSE req' = [req EXCEPT ![r].pc = "findAgain", ![r].new = NULL, ![r].draft = NULL]
    /\ UNCHANGED <<channels, message, contended>>

UpdateWithoutSignal(r) ==
    /\ req[r].pc = "signalUpdate"
    /\ Finish(r)
    /\ UNCHANGED <<channels, message, signal, contended, unannounced>>

SignalUpdateAsCreate(r) ==
    /\ req[r].pc = "signalUpdate"
    /\ Broadcast(req[r].id, "create", req[r].row)
    /\ Finish(r)
    /\ UNCHANGED <<channels, message, contended>>

DeleteWithoutSignal(r) ==
    /\ req[r].pc = "signalDelete"
    /\ Goto(r, "deleteRow")
    /\ UNCHANGED <<channels, message, signal, contended, unannounced>>

-----------------------------------------------------------------------------
\* POST /channels/:channelId/messages : create.
StartCreate(r, m, row) ==
    /\ req[r].pc = "idle"
    /\ NewId(m)
    /\ row.parent # m
    /\ ~row.pinned
    /\ req' = [req EXCEPT ![r] = [Idle EXCEPT !.pc = "insert", !.new = m, !.draft = row]]
    /\ UNCHANGED <<channels, message, signal, contended, unannounced>>

\* The foreign keys refuse a channel or a parent that is gone.  The bound on ids
\* makes the model give some of them again: a new message has no past.
Insert(r) ==
    /\ req[r].pc = "insert"
    /\ LET m == req[r].new
           row == req[r].draft
       IN  IF row.channel \in channels /\ row.parent \in Stored \cup {NULL}
             THEN /\ message' = [message EXCEPT ![m] = row]
                  /\ signal' = [signal EXCEPT ![m] = NULL]
                  /\ contended' = contended \ {m}
                  /\ unannounced' = unannounced \ {m}
                  /\ Goto(r, "signalCreate")
             ELSE Finish(r) /\ UNCHANGED <<message, signal, contended, unannounced>>
    /\ UNCHANGED channels

\* After the relations are loaded; a pin goes on with the pinned message.
SignalCreate(r) ==
    /\ req[r].pc = "signalCreate"
    /\ Broadcast(req[r].new, "create", req[r].draft)
    /\ IF req[r].id = NULL
         THEN Finish(r)
         ELSE req' = [req EXCEPT ![r].pc = "findAgain", ![r].new = NULL, ![r].draft = NULL]
    /\ UNCHANGED <<channels, message, contended>>

-----------------------------------------------------------------------------
\* PATCH /channels/:channelId/messages/:messageId : update, whose payload may
\* hold pinned (NULL when it does not).
StartEdit(r, m, content, pinned) ==
    LET row == [message[m] EXCEPT !.content = content,
                                  !.pinned = IF pinned = NULL THEN @ ELSE pinned]
    IN  StartOn(r, m, [Idle EXCEPT !.pc = "save", !.id = m, !.row = row, !.was = message[m],
                           !.asked = {c \in Columns : row[c] # message[m][c]}])

\* UPDATE ... WHERE id, of the dirty columns: nothing happens to a row that is gone.
Save(r) ==
    /\ req[r].pc = "save"
    /\ LET m == req[r].id
           row == req[r].row
       IN  /\ message' = IF m \notin Stored THEN message ELSE [message EXCEPT
               ![m].content = IF "content" \in Dirty(req[r]) THEN row.content ELSE @,
               ![m].pinned = IF "pinned" \in Dirty(req[r]) THEN row.pinned ELSE @]
           /\ req' = [req EXCEPT ![r].pc = "signalUpdate", ![r].was = row, ![r].asked = {}]
    /\ UNCHANGED <<channels, signal, contended, unannounced>>

SignalUpdate(r) ==
    /\ req[r].pc = "signalUpdate"
    /\ Broadcast(req[r].id, "update", req[r].row)
    /\ Finish(r)
    /\ UNCHANGED <<channels, message, contended>>

-----------------------------------------------------------------------------
\* PATCH .../:messageId/pinning : pinning creates the announcement a, then finds
\* the message again.  Merging the instance read before into the one found hands
\* over its attributes and its originals: what is dirty stays what it was.  Pinning
\* what is pinned is refused and changes nothing.
StartPin(r, m, a) ==
    /\ NewId(a)
    /\ StartOn(r, m,
         [pc |-> "insert", new |-> a, id |-> m, asked |-> {"pinned"},
          draft |-> [content |-> Announcement, pinned |-> FALSE,
                     channel |-> message[m].channel, parent |-> NULL],
          row |-> [message[m] EXCEPT !.pinned = ~@], was |-> message[m]])

FindAgain(r) ==
    /\ req[r].pc = "findAgain"
    /\ IF req[r].id \in Stored THEN Goto(r, "save") ELSE Finish(r)
    /\ UNCHANGED <<channels, message, signal, contended, unannounced>>

-----------------------------------------------------------------------------
\* DELETE /channels/:channelId/messages/:messageId : destroy.
StartDestroy(r, m) ==
    StartOn(r, m, [Idle EXCEPT !.pc = "signalDelete", !.id = m, !.row = message[m],
                       !.was = message[m]])

SignalDelete(r) ==
    /\ req[r].pc = "signalDelete"
    /\ Broadcast(req[r].id, "delete", req[r].row)
    /\ Goto(r, "deleteRow")
    /\ UNCHANGED <<channels, message, contended>>

DeleteRow(r) ==
    /\ req[r].pc = "deleteRow"
    /\ Delete({req[r].id} \cap Stored)
    /\ Finish(r)
    /\ UNCHANGED <<channels, signal, contended, unannounced>>

-----------------------------------------------------------------------------
\* ChannelService.deleteById, as far as the messages are concerned.
DeleteChannel(c) ==
    /\ c \in channels
    /\ channels' = channels \ {c}
    /\ Delete({m \in Stored : message[m].channel = c})
    /\ UNCHANGED <<signal, req, contended, unannounced>>

\* The awaited call rejects, or the process stops.
Fail(r) ==
    /\ MayFail
    /\ req[r].pc # "idle"
    /\ Finish(r)
    /\ contended' = contended \cup (Handled(r) \cap Stored)
    /\ unannounced' = IF req[r].pc = "signalCreate"
                        THEN unannounced \cup ({req[r].new} \cap Stored) ELSE unannounced
    /\ UNCHANGED <<channels, message, signal>>

Receive(r) ==
    \/ \E m \in MessageIds, row \in Message :
          row.content \in NewContents /\ StartCreate(r, m, row)
    \/ \E m \in MessageIds, content \in NewContents, pinned \in NewPinned :
          StartEdit(r, m, content, pinned)
    \/ \E m, a \in MessageIds : StartPin(r, m, a)
    \/ \E m \in MessageIds : StartDestroy(r, m)

Continue(r) ==
    \/ Insert(r) \/ SignalCreate(r) \/ Save(r) \/ SignalUpdate(r)
    \/ FindAgain(r) \/ SignalDelete(r) \/ DeleteRow(r)

Next ==
    \/ \E r \in Requests : Receive(r) \/ Continue(r) \/ Fail(r)
    \/ \E c \in ChannelIds : DeleteChannel(c)

Spec == Init /\ [][Next]_vars

-----------------------------------------------------------------------------
\* Properties.

\* No message outlives its channel or the message it replies to, also when it is
\* being created while they are deleted.
RepliesStored ==
    \A m \in Stored : /\ message[m].channel \in channels
                      /\ message[m].parent \in Stored \cup {NULL}

\* Subscribers show what is stored: the last signal about a stored message that
\* no request is working on carries its row, if the last request on it ran alone
\* and did not fail.  An edit or a pin that runs alone repairs what earlier ones
\* left.
ShownAsStored ==
    \A m \in Stored \ contended : Quiet(m) =>
        /\ signal[m] # NULL
        /\ signal[m].action # "delete"
        /\ signal[m].message = message[m]

\* Why a message may be gone without a signal about it: its channel, or the
\* message it replies to, is gone as well (the cascades are not broadcast).
GoneAlong(row) ==
    \/ row.channel \notin channels
    \/ row.parent \notin Stored \cup {NULL}

\* Subscribers drop what is deleted: the last signal about a message that is gone
\* says so, or tells with what it went; if the last request on it ran alone and
\* did not fail.
GoneIsSignalled ==
    \A m \in MessageIds \ (Stored \cup contended) : signal[m] # NULL =>
        signal[m].action = "delete" \/ GoneAlong(signal[m].message)

\* A column of a message only changes to what a request on it saves whose client
\* asked to change that column: a pin, which saves an instance it read two awaits
\* and a whole creation earlier, takes back no edit saved in between, and an edit
\* that gives back the flag as it was takes back no pin.
PinsKeepEdits ==
    [][\A m \in MessageIds, c \in Columns :
         message[m] # NULL /\ message'[m] # NULL /\ message'[m][c] # message[m][c] =>
           \E r \in Requests : /\ req[r].pc = "save" /\ req[r].id = m
                              /\ c \in req[r].asked
                              /\ message'[m][c] = req[r].row[c]]_vars

-----------------------------------------------------------------------------
Audience == INSTANCE Feed WITH said <- message, heard <- signal, doubt <- contended

\* What a request broadcasts it read or wrote some awaits before, and still every
\* step is one of Feed or none.  A broadcast about a message that is not contended
\* carries its row as it is stored then; the first one is its creation and no later
\* one is, unless the request that created it failed before it could say so; and
\* its deletion was broadcast before its row goes.
ImplementsFeed == Audience!Spec
=============================================================================
