------------------------------- MODULE Storage -------------------------------
(***************************************************************************)
(* What is kept in the object store: the attachments of messages, with a   *)
(* row each (StorageService, MessageService.create), and the pictures that *)
(* a column of another row names: banners and icons of servers, pictures   *)
(* of users and of webhooks.                                               *)
(*                                                                         *)
(* The key of a file is made of the id of its owner and of the name that   *)
(* the client gave it, so that two files may have one key.  The store and  *)
(* the database are written one after the other, and nothing undoes the    *)
(* first when the second fails.  Left out: reading the files, and what     *)
(* Messages has of a message, of which only the existence matters here.    *)
(***************************************************************************)
EXTENDS Naturals, Sequences

CONSTANTS
    Messages,       \* bound: the UUIDs that may be given to messages
    Holders,        \* the columns that name a picture: of servers, users, webhooks
    Attachments,    \* bound: the UUIDs that may be given to attachments
    Names,          \* bound: the names that clients give to files
    Types,          \* bound: the contents, and the content types that tell them
    MaxFiles,       \* bound: the files sent with one message
    Requests,       \* slots for HTTP requests being served at the same time
    MayFail,        \* whether an awaited call may reject (or the process die)
    NULL

Owners == Messages \cup Holders
Keys == Messages \X Names
Lists == UNION {[1..n -> Names] : n \in 0..MaxFiles}
Attachment == [msg: Messages, name: Names, type: Types]

ASSUME StorageAssumption ==
    /\ MaxFiles \in Nat
    /\ MayFail \in BOOLEAN
    /\ Messages \cap Holders = {}
    /\ NULL \notin Owners /\ NULL \notin Names /\ NULL \notin Types
    /\ NULL \notin Attachments /\ NULL \notin Attachment

VARIABLES
    messages,       \* the messages stored
    rows,           \* attachments: id -> row, or NULL
    holders,        \* the rows that may have a picture
    picture,        \* holder -> the name of its picture, or NULL by default
    file,           \* the store: key of an attachment -> content, or NULL
    pictures,       \* the store: the keys of the pictures in it
    req,            \* slot -> where the request is, and its local variables
    asked,          \* history: message -> names of the files sent with it, but for
                    \* those destroyed since
    announced,      \* history: the messages broadcast, of those stored
    contended       \* history: keys of two attachments, or on which a request
                    \* failed or met another one

tables == <<messages, rows, holders, picture>>
store == <<file, pictures>>
past == <<asked, announced, contended>>
vars == <<tables, store, req, past>>

Labels == {"idle", "upload", "insert", "announce", "findMessage", "uploadNew",
           "findByName", "saveType", "deleteFile", "deleteRow",
           "uploadPicture", "savePicture"}

\* on, name: the key; type: the content sent; row: the attachment; was: what the
\* column to save held when it was read; todo: names of the files yet to store.
Request == [pc: Labels, on: Owners \cup {NULL}, name: Names \cup {NULL},
            type: Types \cup {NULL}, row: Attachments \cup {NULL},
            was: Types \cup Names \cup {NULL}, todo: Lists]

Idle == [pc |-> "idle", on |-> NULL, name |-> NULL, type |-> NULL,
         row |-> NULL, was |-> NULL, todo |-> <<>>]

TypeOK ==
    /\ messages \subseteq Messages
    /\ rows \in [Attachments -> Attachment \cup {NULL}]
    /\ holders \subseteq Holders
    /\ picture \in [Holders -> Names \cup {NULL}]
    /\ file \in [Keys -> Types \cup {NULL}]
    /\ pictures \subseteq Holders \X Names
    /\ req \in [Requests -> Request]
    /\ asked \in [Messages -> SUBSET Names]
    /\ announced \subseteq Messages
    /\ contended \subseteq Keys

Init ==
    /\ messages = {} /\ holders = {}
    /\ rows = [a \in Attachments |-> NULL]
    /\ picture = [h \in Holders |-> NULL]
    /\ file = [k \in Keys |-> NULL] /\ pictures = {}
    /\ req = [r \in Requests |-> Idle]
    /\ asked = [m \in Messages |-> {}]
    /\ announced = {} /\ contended = {}

-----------------------------------------------------------------------------
Stored(a) == rows[a] # NULL
KeyOf(a) == <<rows[a].msg, rows[a].name>>
KeyOn(r) == <<req[r].on, req[r].name>>
WorksOn(r, k) == req[r].on = k[1] /\ req[r].name = k[2]
Quiet(k) == \A r \in Requests : ~ WorksOn(r, k)

\* An owner nobody knows, and that has left no file: a new UUID.
NewOwner(o) ==
    /\ \A n \in Names : <<o, n>> \notin pictures
    /\ \A n \in Names : o \in Messages => file[<<o, n>>] = NULL
    /\ \A r \in Requests : req[r].on # o
NewAttachment(a) == ~ Stored(a) /\ \A r \in Requests : req[r].row # a

Goto(r, label) == req' = [req EXCEPT ![r].pc = label]
Finish(r) == req' = [req EXCEPT ![r] = Idle]

\* A request takes up a key, alone or not.
Meeting(r, k) == IF \E s \in Requests \ {r} : WorksOn(s, k) THEN {k} ELSE {}

\* The next file of a message to store, or its broadcast when there is none.
NextFile(request, todo) ==
    IF todo = <<>>
      THEN [request EXCEPT !.pc = "announce", !.name = NULL, !.type = NULL, !.todo = <<>>]
      ELSE [request EXCEPT !.pc = "upload", !.name = Head(todo), !.type = NULL,
                           !.todo = Tail(todo)]

\* S3Driver.uploadFile: the content sent becomes that of the key.
Put(r, type, label) ==
    /\ file' = [file EXCEPT ![KeyOn(r)] = type]
    /\ req' = [req EXCEPT ![r].pc = label, ![r].type = type]

-----------------------------------------------------------------------------
\* Faults: what each property is tested against is the action of the same place
\* with the mistake its name says.

UploadUntyped(r, type) ==
    /\ req[r].pc = "upload"
    /\ file' = [file EXCEPT ![KeyOn(r)] = req[r].name]
    /\ req' = [req EXCEPT ![r].pc = "insert", ![r].type = type]
    /\ UNCHANGED <<tables, pictures, past>>

ForgetType(r) ==
    /\ req[r].pc = "saveType"
    /\ Finish(r)
    /\ UNCHANGED <<tables, store, past>>

InsertLast(r, a) ==
    /\ req[r].pc = "insert" /\ NewAttachment(a)
    /\ rows' = [rows EXCEPT ![a] = [msg |-> req[r].on, name |-> req[r].name, type |-> req[r].type]]
    /\ req' = [req EXCEPT ![r] = NextFile(req[r], <<>>)]
    /\ UNCHANGED <<messages, holders, picture, store, past>>

SaveFirst(r) ==
    /\ req[r].pc = "uploadPicture"
    /\ Goto(r, "savePicture")
    /\ UNCHANGED <<tables, store, past>>

-----------------------------------------------------------------------------
\* MessageService.create: the message, then each of its files and its row, then
\* the broadcast.
StartCreate(r, m, names) ==
    /\ req[r] = Idle
    /\ m \notin messages /\ NewOwner(m)
    /\ messages' = messages \cup {m}
    /\ asked' = [asked EXCEPT ![m] = {names[i] : i \in DOMAIN names}]
    /\ req' = [req EXCEPT ![r] = NextFile([Idle EXCEPT !.on = m], names)]
    /\ UNCHANGED <<rows, holders, picture, store, announced, contended>>

Upload(r, type) ==
    /\ req[r].pc = "upload"
    /\ Put(r, type, "insert")
    /\ UNCHANGED <<tables, pictures, past>>

\* The foreign key refuses the row when the message is gone; the file stays.
Insert(r, a) ==
    /\ req[r].pc = "insert" /\ NewAttachment(a)
    /\ IF req[r].on \in messages
         THEN /\ rows' = [rows EXCEPT ![a] = [msg |-> req[r].on, name |-> req[r].name,
                                              type |-> req[r].type]]
              /\ req' = [req EXCEPT ![r] = NextFile(req[r], req[r].todo)]
         ELSE /\ UNCHANGED rows
              /\ Finish(r)
    /\ contended' = contended
            \cup {KeyOf(b) : b \in {c \in Attachments : Stored(c) /\ KeyOf(c) = KeyOn(r)}}
            \cup IF req[r].todo = <<>> THEN {}
                 ELSE Meeting(r, <<req[r].on, Head(req[r].todo)>>)
    /\ UNCHANGED <<messages, holders, picture, store, asked, announced>>

Announce(r) ==
    /\ req[r].pc = "announce"
    /\ announced' = announced \cup ({req[r].on} \cap messages)
    /\ Finish(r)
    /\ UNCHANGED <<tables, store, asked, contended>>

-----------------------------------------------------------------------------
\* PUT /storage/files/:id by the author: StorageService.update stores the file
\* under the name it has, and the row updated is any that has this name.
StartUpdate(r, a, n) ==
    /\ req[r] = Idle
    /\ Stored(a)
    /\ req' = [req EXCEPT ![r] = [Idle EXCEPT !.pc = "findMessage", !.on = rows[a].msg, !.name = n]]
    /\ contended' = contended \cup Meeting(r, <<rows[a].msg, n>>)
    /\ UNCHANGED <<tables, store, asked, announced>>

FindMessage(r) ==
    /\ req[r].pc = "findMessage"
    /\ IF req[r].on \in messages THEN Goto(r, "uploadNew") ELSE Finish(r)
    /\ UNCHANGED <<tables, store, past>>

UploadNew(r, type) ==
    /\ req[r].pc = "uploadNew"
    /\ Put(r, type, "findByName")
    /\ UNCHANGED <<tables, pictures, past>>

FindByName(r) ==
    /\ req[r].pc = "findByName"
    /\ \/ \E a \in Attachments :
            /\ Stored(a) /\ KeyOf(a) = KeyOn(r)
            /\ req' = [req EXCEPT ![r].pc = "saveType", ![r].row = a, ![r].was = rows[a].type]
       \/ /\ \A a \in Attachments : Stored(a) => KeyOf(a) # KeyOn(r)
          /\ Finish(r)
    /\ UNCHANGED <<tables, store, past>>

\* Only a column that changed is written, and nothing if the row is gone.
SaveType(r) ==
    /\ req[r].pc = "saveType"
    /\ rows' = IF Stored(req[r].row) /\ req[r].was # req[r].type
                 THEN [rows EXCEPT ![req[r].row].type = req[r].type] ELSE rows
    /\ Finish(r)
    /\ UNCHANGED <<messages, holders, picture, store, past>>

-----------------------------------------------------------------------------
\* DELETE /storage/files/:id by the author: the file, then the row.
StartDestroy(r, a) ==
    /\ req[r] = Idle
    /\ Stored(a)
    /\ req' = [req EXCEPT ![r] = [Idle EXCEPT !.pc = "deleteFile", !.on = rows[a].msg,
                                              !.name = rows[a].name, !.row = a]]
    /\ contended' = contended \cup Meeting(r, KeyOf(a))
    /\ UNCHANGED <<tables, store, asked, announced>>

DeleteFile(r) ==
    /\ req[r].pc = "deleteFile"
    /\ file' = [file EXCEPT ![KeyOn(r)] = NULL]
    /\ Goto(r, "deleteRow")
    /\ UNCHANGED <<tables, pictures, past>>

DeleteRow(r) ==
    /\ req[r].pc = "deleteRow"
    /\ rows' = [rows EXCEPT ![req[r].row] = NULL]
    /\ asked' = [asked EXCEPT ![req[r].on] = @ \ {req[r].name}]
    /\ Finish(r)
    /\ UNCHANGED <<messages, holders, picture, store, announced, contended>>

\* A message, or its channel, is deleted: the rows go with it, the files stay.
DeleteMessage(m) ==
    /\ m \in messages
    /\ messages' = messages \ {m}
    /\ rows' = [a \in Attachments |->
            IF Stored(a) /\ rows[a].msg = m THEN NULL ELSE rows[a]]
    /\ asked' = [asked EXCEPT ![m] = {}]
    /\ announced' = announced \ {m}
    /\ contended' = {k \in contended : k[1] # m}
    /\ UNCHANGED <<holders, picture, store, req>>

-----------------------------------------------------------------------------
\* Pictures: a row is found or created, the file stored, and the row saved.
StartPicture(r, h, n) ==
    /\ req[r] = Idle
    /\ h \in holders
    /\ req' = [req EXCEPT ![r] = [Idle EXCEPT !.pc = "uploadPicture", !.on = h, !.name = n,
                                              !.was = picture[h]]]
    /\ UNCHANGED <<tables, store, past>>

UploadPicture(r) ==
    /\ req[r].pc = "uploadPicture"
    /\ pictures' = pictures \cup {KeyOn(r)}
    /\ Goto(r, "savePicture")
    /\ UNCHANGED <<tables, file, past>>

SavePicture(r) ==
    /\ req[r].pc = "savePicture"
    /\ picture' = IF req[r].on \in holders /\ req[r].was # req[r].name
                    THEN [picture EXCEPT ![req[r].on] = req[r].name] ELSE picture
    /\ Finish(r)
    /\ UNCHANGED <<messages, rows, holders, store, past>>

NewHolder(h) ==
    /\ h \notin holders /\ NewOwner(h)
    /\ holders' = holders \cup {h}
    /\ UNCHANGED <<messages, rows, picture, store, req, past>>

DeleteHolder(h) ==
    /\ h \in holders
    /\ holders' = holders \ {h}
    /\ picture' = [picture EXCEPT ![h] = NULL]
    /\ UNCHANGED <<messages, rows, store, req, past>>

-----------------------------------------------------------------------------
\* The awaited call rejects, or the process stops.
Fail(r) ==
    /\ MayFail
    /\ req[r].pc # "idle"
    /\ Finish(r)
    /\ contended' = contended \cup ({KeyOn(r)} \cap Keys)
    /\ UNCHANGED <<tables, store, asked, announced>>

Files(r) ==
    \/ \E m \in Messages, names \in Lists : StartCreate(r, m, names)
    \/ \E type \in Types : Upload(r, type) \/ UploadNew(r, type)
    \/ \E a \in Attachments : Insert(r, a) \/ StartDestroy(r, a)
    \/ \E a \in Attachments, n \in Names : StartUpdate(r, a, n)
    \/ Announce(r) \/ FindMessage(r) \/ FindByName(r) \/ SaveType(r)
    \/ DeleteFile(r) \/ DeleteRow(r)

Pictures(r) ==
    \/ \E h \in Holders, n \in Names : StartPicture(r, h, n)
    \/ UploadPicture(r) \/ SavePicture(r)

Next ==
    \/ \E r \in Requests : Files(r) \/ Pictures(r) \/ Fail(r)
    \/ \E m \in Messages : DeleteMessage(m)
    \/ \E h \in Holders : NewHolder(h) \/ DeleteHolder(h)

Spec == Init /\ [][Next]_vars

-----------------------------------------------------------------------------
\* Properties.

\* The file of an attachment is in the store and is what its row says, once no request
\* is at work on its key, if none failed or met another on it and no other attachment
\* has it.
DescribedAsStored ==
    \A a \in Attachments :
        Stored(a) /\ KeyOf(a) \notin contended /\ Quiet(KeyOf(a))
            => file[KeyOf(a)] = rows[a].type

\* A message is broadcast with all the files that it was sent with: a file that
\* was not stored, or whose row was refused, ends the request before.
AnnouncedComplete ==
    \A m \in announced \cap messages : \A n \in asked[m] :
        \E a \in Attachments : Stored(a) /\ KeyOf(a) = <<m, n>>

\* A picture that a row names is in the store, however requests that change it
\* interleave with each other, with deletions and with failures.
PicturesStored ==
    \A h \in holders : picture[h] # NULL => <<h, picture[h]>> \in pictures
=============================================================================
