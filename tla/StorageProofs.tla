---------------------------- MODULE StorageProofs ----------------------------
(***************************************************************************)
(* The invariants of Storage, for any number of messages, attachments,     *)
(* names, files per message and concurrent requests, whether or not calls  *)
(* fail.                                                                   *)
(*                                                                         *)
(* The inductive invariant has four parts.  SlotsOK and RowsOK: the locals *)
(* of requests, and that an attachment at work on keeps its key.           *)
(* PicturesOK: a picture is stored before a column names it.  FilesSent:   *)
(* of a message that is being sent, each file has its row or is still to   *)
(* do.  FilesOK: a key that is not contended is of one attachment and of   *)
(* one request at most, and its file is what the row, or that request,     *)
(* says.                                                                   *)
(***************************************************************************)
EXTENDS Storage, SequenceTheorems, TLAPS

Sending == {"upload", "insert", "announce"}
\* The labels at which the file of the key is still as the row describes it.
Untouched == {"findMessage", "uploadNew", "deleteFile"}
OnFiles == {"upload", "insert", "findMessage", "uploadNew", "findByName", "saveType",
            "deleteFile", "deleteRow"}
OnPictures == {"uploadPicture", "savePicture"}

Among(n, list) == \E i \in DOMAIN list : list[i] = n
HasRow(m, n) == \E a \in Attachments : Stored(a) /\ KeyOf(a) = <<m, n>>

SlotOK(r) ==
    LET q == req[r]
    IN  /\ q.pc = "idle" => q = Idle
        /\ q.pc \in OnFiles => <<q.on, q.name>> \in Keys
        /\ q.pc = "announce" => q.on \in Messages /\ q.name = NULL
        /\ q.pc \in {"insert", "findByName", "saveType"} => q.type \in Types
        /\ q.pc \in {"saveType", "deleteFile", "deleteRow"} => q.row \in Attachments
        /\ q.pc \in OnPictures => q.on \in Holders /\ q.name \in Names
SlotsOK == \A r \in Requests : SlotOK(r)

\* Attachments go with their message; one that a request works on keeps its key.
RowOK(r) ==
    req[r].pc \in {"saveType", "deleteFile", "deleteRow"} =>
        (Stored(req[r].row) => KeyOf(req[r].row) = KeyOn(r))
RowsOK ==
    /\ \A a \in Attachments : Stored(a) => rows[a].msg \in messages
    /\ \A r \in Requests : RowOK(r)

PicturesOK ==
    /\ PicturesStored
    /\ \A h \in Holders \ holders : picture[h] = NULL
    /\ \A r \in Requests : req[r].pc = "savePicture" => KeyOn(r) \in pictures

\* What a request has sent, or has yet to send, is all that it was asked.
Sends(r) ==
    req[r].pc \in Sending /\ req[r].on \in messages =>
        \A n \in asked[req[r].on] :
            \/ HasRow(req[r].on, n)
            \/ req[r].pc # "announce" /\ (n = req[r].name \/ Among(n, req[r].todo))
FilesSent ==
    /\ announced \subseteq messages
    /\ \A m \in announced : \A n \in asked[m] : HasRow(m, n)
    /\ \A r \in Requests : Sends(r)

Unique ==
    \A a, b \in Attachments :
        a # b /\ Stored(a) /\ Stored(b) /\ KeyOf(a) = KeyOf(b) => KeyOf(a) \in contended

Alone ==
    \A r, s \in Requests : \A k \in Keys :
        r # s /\ WorksOn(r, k) /\ WorksOn(s, k) /\ k[1] \in messages => k \in contended

\* The file of a key on which no request has begun to write.
Described ==
    \A a \in Attachments :
        /\ Stored(a) /\ KeyOf(a) \notin contended
        /\ \A r \in Requests : WorksOn(r, KeyOf(a)) => req[r].pc \in Untouched
        => file[KeyOf(a)] = rows[a].type

\* What a request that has a key for itself knows of it.
Works(r) ==
    req[r].pc \in OnFiles /\ req[r].on \in messages /\ KeyOn(r) \notin contended =>
        /\ req[r].pc \in {"insert", "findByName", "saveType"} => file[KeyOn(r)] = req[r].type
        /\ req[r].pc \in {"saveType", "deleteFile", "deleteRow"} => Stored(req[r].row)
        /\ req[r].pc = "saveType" => req[r].was = rows[req[r].row].type

FilesOK == Unique /\ Alone /\ Described /\ \A r \in Requests : Works(r)

Inv == TypeOK /\ SlotsOK /\ RowsOK /\ PicturesOK /\ FilesSent /\ FilesOK

-----------------------------------------------------------------------------
(* Helpers.                                                                *)

LEMMA NullApart ==
    /\ NULL \notin Messages /\ NULL \notin Holders /\ NULL \notin Names /\ NULL \notin Types
    /\ NULL \notin Attachments /\ NULL \notin Attachment /\ Messages \cap Holders = {}
BY StorageAssumption DEF Owners

LEMMA EmptyList == <<>> \in Lists
<1>1. <<>> \in [1..0 -> Names] /\ 0 \in 0..MaxFiles
  BY StorageAssumption
<1> QED BY <1>1 DEF Lists

\* A list that is not empty has a first name, and the others.
LEMMA ListParts ==
    ASSUME NEW list \in Lists, list # <<>>
    PROVE  /\ Head(list) \in Names /\ Tail(list) \in Lists
           /\ \A n : Among(n, list) => n = Head(list) \/ Among(n, Tail(list))
<1>1. PICK k \in 0..MaxFiles : list \in [1..k -> Names]
  BY DEF Lists
<1>2. k \in Nat /\ list \in Seq(Names) /\ Len(list) = k
  BY <1>1, StorageAssumption
<1>3. k # 0
  BY <1>2
<1>4. /\ Tail(list) \in Seq(Names) /\ Len(Tail(list)) = k - 1 /\ Head(list) = list[1]
      /\ \A i \in 1..(k-1) : Tail(list)[i] = list[i+1]
  BY <1>2, <1>3, HeadTailProperties
<1>5. Tail(list) \in [1..(k-1) -> Names] /\ k - 1 \in 0..MaxFiles
  <2>1. Tail(list) \in [1..Len(Tail(list)) -> Names]
    BY <1>4, LenProperties
  <2>2. k - 1 \in 0..MaxFiles
    BY <1>2, <1>3, StorageAssumption
  <2> QED BY <1>4, <2>1, <2>2
<1>6. Head(list) \in Names
  BY <1>1, <1>2, <1>3, <1>4
<1>7. ASSUME NEW n, Among(n, list) PROVE n = Head(list) \/ Among(n, Tail(list))
  <2>1. PICK i \in 1..k : list[i] = n
    BY <1>1, <1>7 DEF Among
  <2>2. CASE i = 1
    BY <1>4, <2>1, <2>2
  <2>3. CASE i # 1
    <3>1. i - 1 \in 1..(k-1) /\ Tail(list)[i-1] = n
      BY <1>2, <1>4, <2>1, <2>3
    <3> QED BY <1>5, <3>1 DEF Among
  <2> QED BY <2>2, <2>3
<1> QED BY <1>5, <1>6, <1>7 DEF Lists

LEMMA IdleOK == Idle \in Request /\ Idle.pc = "idle" /\ Idle.on = NULL /\ Idle.name = NULL
BY EmptyList DEF Idle, Request, Labels

\* What a step of r does to the requests.
LEMMA Slots ==
    ASSUME TypeOK, NEW r \in Requests, NEW q \in Request, req' = [req EXCEPT ![r] = q]
    PROVE  /\ req' \in [Requests -> Request] /\ req'[r] = q
           /\ \A s \in Requests : s # r => req'[s] = req[s]
BY DEF TypeOK

LEMMA Continues ==
    ASSUME TypeOK, NEW r \in Requests, NEW l \in Labels, Goto(r, l)
    PROVE  /\ req' \in [Requests -> Request]
           /\ \A s \in Requests : s # r => req'[s] = req[s]
           /\ req'[r].pc = l /\ req'[r].on = req[r].on /\ req'[r].name = req[r].name
           /\ req'[r].type = req[r].type /\ req'[r].row = req[r].row
           /\ req'[r].was = req[r].was /\ req'[r].todo = req[r].todo
<1>1. req[r] \in Request
  BY DEF TypeOK
<1> QED BY <1>1 DEF TypeOK, Goto, Request

LEMMA Ends ==
    ASSUME TypeOK, NEW r \in Requests, Finish(r)
    PROVE  /\ req' \in [Requests -> Request] /\ req'[r] = Idle
           /\ \A s \in Requests : s # r => req'[s] = req[s]
           /\ SlotOK(r)'
<1>1. /\ req' \in [Requests -> Request] /\ req'[r] = Idle
      /\ \A s \in Requests : s # r => req'[s] = req[s]
  BY IdleOK DEF TypeOK, Finish
<1> QED BY <1>1, IdleOK DEF SlotOK, OnFiles, OnPictures

\* A stored attachment has a key of its message.
LEMMA KeysTyped ==
    ASSUME TypeOK, NEW a \in Attachments, Stored(a)
    PROVE  rows[a] \in Attachment /\ KeyOf(a) \in Keys /\ KeyOf(a)[1] = rows[a].msg
BY DEF TypeOK, Stored, Attachment, KeyOf, Keys

\* The key of a request that works on files, and nothing else, is one.
LEMMA KeyOnTyped ==
    ASSUME SlotsOK, NEW r \in Requests, req[r].pc \in OnFiles
    PROVE  /\ KeyOn(r) \in Keys /\ KeyOn(r)[1] = req[r].on /\ req[r].on \in Messages
           /\ \A k \in Keys : WorksOn(r, k) <=> k = KeyOn(r)
<1>1. <<req[r].on, req[r].name>> \in Keys
  BY DEF SlotsOK, SlotOK
<1> QED BY <1>1 DEF KeyOn, Keys, WorksOn

LEMMA NoKey ==
    ASSUME TypeOK, SlotsOK, NEW r \in Requests, req[r].pc \notin OnFiles
    PROVE  \A k \in Keys : ~ WorksOn(r, k)
<1>1. req[r].pc \in {"idle", "announce"} \cup OnPictures
  BY DEF TypeOK, Request, Labels, OnFiles, OnPictures
<1>2. req[r].name = NULL \/ req[r].on \in Holders
  BY <1>1, IdleOK DEF SlotsOK, SlotOK
<1> QED BY <1>2, NullApart DEF WorksOn, Keys

-----------------------------------------------------------------------------
(* What a step of r must respect for each part of the invariant.           *)

LEMMA SlotsKept ==
    ASSUME SlotsOK, NEW r \in Requests, SlotOK(r)',
           \A s \in Requests : s # r => req'[s] = req[s]
    PROVE  SlotsOK'
BY DEF SlotsOK, SlotOK

\* Attachments may change or go, none is added or given another key.
LEMMA RowsKept ==
    ASSUME TypeOK, SlotsOK, RowsOK, NEW r \in Requests, RowOK(r)', messages \subseteq messages',
           \A s \in Requests : s # r => req'[s] = req[s],
           \A a \in Attachments : Stored(a)' => Stored(a) /\ KeyOf(a)' = KeyOf(a)
    PROVE  RowsOK'
<1>1. \A a \in Attachments : Stored(a)' => rows'[a].msg \in messages'
  BY DEF RowsOK, KeyOf
<1>2. ASSUME NEW s \in Requests, s # r PROVE RowOK(s)'
  <2>1. req'[s] = req[s] /\ RowOK(s)
    BY <1>2 DEF RowsOK
  <2>2. CASE req[s].pc \in {"saveType", "deleteFile", "deleteRow"}
    <3>1. req[s].row \in Attachments
      BY <2>2 DEF SlotsOK, SlotOK
    <3>2. PICK a \in Attachments : a = req[s].row
      BY <3>1
    <3>3. Stored(a)' => KeyOf(a)' = KeyOn(s)
      BY <2>1, <2>2, <3>2 DEF RowOK
    <3> QED BY <2>1, <3>2, <3>3 DEF RowOK, Stored, KeyOf, KeyOn
  <2>3. CASE req[s].pc \notin {"saveType", "deleteFile", "deleteRow"}
    BY <2>1, <2>3 DEF RowOK
  <2> QED BY <2>2, <2>3
<1> QED BY <1>1, <1>2 DEF RowsOK

\* A request that does not work on pictures.
LEMMA PicturesKept ==
    ASSUME PicturesOK, NEW r \in Requests, UNCHANGED <<holders, picture, pictures>>,
           req'[r].pc # "savePicture", \A s \in Requests : s # r => req'[s] = req[s]
    PROVE  PicturesOK'
BY DEF PicturesOK, PicturesStored, KeyOn

\* Rows that were asked for stay, and no other message is announced.
LEMMA SentKept ==
    ASSUME FilesSent, NEW r \in Requests, Sends(r)',
           \A s \in Requests : s # r => req'[s] = req[s],
           messages' = messages, announced' \subseteq messages,
           \A m \in announced' \ announced : \A n \in asked'[m] : HasRow(m, n)',
           \A m \in messages : \A n \in asked'[m] : n \in asked[m] /\ (HasRow(m, n) => HasRow(m, n)')
    PROVE  FilesSent'
<1>1. \A m \in announced' : \A n \in asked'[m] : HasRow(m, n)'
  BY DEF FilesSent
<1>2. ASSUME NEW s \in Requests, s # r PROVE Sends(s)'
  <2>1. req'[s] = req[s] /\ Sends(s)
    BY <1>2 DEF FilesSent
  <2> SUFFICES ASSUME NEW m \in messages, m = req[s].on, req[s].pc \in Sending, NEW n \in asked'[m],
                      ~ (req[s].pc # "announce" /\ (n = req[s].name \/ Among(n, req[s].todo)))
               PROVE  HasRow(m, n)'
    BY <2>1 DEF Sends, HasRow
  <2>2. HasRow(m, n)
    BY <2>1 DEF Sends
  <2> QED BY <2>2
<1> QED BY <1>1, <1>2 DEF FilesSent

\* The same when the attachments keep their keys and nothing is asked or announced.
LEMMA SentSame ==
    ASSUME FilesSent, NEW r \in Requests, req'[r].pc \notin Sending,
           \A s \in Requests : s # r => req'[s] = req[s],
           UNCHANGED <<messages, announced, asked>>,
           \A a \in Attachments : Stored(a) => Stored(a)' /\ KeyOf(a)' = KeyOf(a)
    PROVE  FilesSent'
<1>1. \A m, n : HasRow(m, n) => HasRow(m, n)'
  BY DEF HasRow
<1>2. Sends(r)'
  BY DEF Sends
<1> QED BY <1>1, <1>2, SentKept DEF FilesSent

\* A step of r that adds no attachment, and works on no other key than k.
LEMMA FilesKept ==
    ASSUME TypeOK, SlotsOK, RowsOK, FilesOK, NEW r \in Requests, NEW k \in Keys,
           \A s \in Requests : s # r => req'[s] = req[s],
           messages' = messages, contended \subseteq contended',
           \A a \in Attachments : Stored(a)' => Stored(a) /\ KeyOf(a)' = KeyOf(a),
           \A a \in Attachments : Stored(a) /\ KeyOf(a) # k => rows'[a] = rows[a],
           \A x \in Keys : x # k => file'[x] = file[x],
           \A x \in Keys : x # k => ~ WorksOn(r, x) /\ ~ WorksOn(r, x)',
           WorksOn(r, k)' /\ k[1] \in messages =>
               \A s \in Requests : s # r /\ WorksOn(s, k) => k \in contended',
           k[1] \in messages /\ k \notin contended' /\ (file'[k] # file[k] \/
               \E a \in Attachments : Stored(a) /\ KeyOf(a) = k /\ rows'[a] # rows[a])
               => \A s \in Requests : s # r => ~ WorksOn(s, k),
           Works(r)',
           \A a \in Attachments :
               /\ Stored(a)' /\ KeyOf(a) = k /\ k \notin contended'
               /\ WorksOn(r, k)' => req'[r].pc \in Untouched
               /\ \A s \in Requests : s # r /\ WorksOn(s, k) => req[s].pc \in Untouched
               => file'[k] = rows'[a].type
    PROVE  FilesOK'
<1>1. Unique'
  BY DEF FilesOK, Unique
<1>2. \A s \in Requests : s # r => \A x \in Keys : WorksOn(s, x)' <=> WorksOn(s, x)
  BY DEF WorksOn
<1>3. Alone'
  <2> SUFFICES ASSUME NEW s \in Requests, NEW z \in Requests, NEW x \in Keys, s # z,
                      WorksOn(s, x)', WorksOn(z, x)', x[1] \in messages
               PROVE  x \in contended'
    BY DEF Alone
  <2>1. CASE x # k
    BY <1>2, <2>1 DEF FilesOK, Alone
  <2>2. CASE x = k /\ s # r /\ z # r
    BY <1>2, <2>2 DEF FilesOK, Alone
  <2>3. CASE x = k /\ (s = r \/ z = r)
    BY <1>2, <2>3
  <2> QED BY <2>1, <2>2, <2>3
<1>4. Described'
  <2> SUFFICES ASSUME NEW a \in Attachments, Stored(a)', KeyOf(a)' \notin contended',
                      \A s \in Requests : WorksOn(s, KeyOf(a))' => req'[s].pc \in Untouched
               PROVE  file'[KeyOf(a)'] = rows'[a].type
    BY DEF Described
  <2>1. PICK x \in Keys : x = KeyOf(a)
    BY KeysTyped
  <2>2. /\ x = KeyOf(a)' /\ Stored(a) /\ x \notin contended'
        /\ \A s \in Requests : WorksOn(s, x)' => req'[s].pc \in Untouched
    BY <2>1 DEF WorksOn
  <2>3. CASE x = k
    BY <1>2, <2>1, <2>2, <2>3
  <2>4. CASE x # k
    <3>1. \A s \in Requests : WorksOn(s, x) => req[s].pc \in Untouched
      BY <1>2, <2>2, <2>4
    <3>2. file[x] = rows[a].type
      BY <2>1, <2>2, <3>1 DEF FilesOK, Described
    <3> QED BY <2>1, <2>2, <2>4, <3>2
  <2> QED BY <2>3, <2>4
<1>5. ASSUME NEW s \in Requests, s # r PROVE Works(s)'
  <2> SUFFICES ASSUME req[s].pc \in OnFiles, req[s].on \in messages, KeyOn(s) \notin contended'
               PROVE  /\ req[s].pc \in {"insert", "findByName", "saveType"} =>
                            file'[KeyOn(s)] = req[s].type
                      /\ req[s].pc \in {"saveType", "deleteFile", "deleteRow"} => Stored(req[s].row)'
                      /\ req[s].pc = "saveType" => req[s].was = rows'[req[s].row].type
    BY <1>5 DEF Works, KeyOn, Stored
  <2>1. KeyOn(s) \in Keys /\ KeyOn(s)[1] \in messages /\ WorksOn(s, KeyOn(s)) /\ Works(s)
    BY KeyOnTyped DEF FilesOK
  <2>2. PICK x \in Keys : x = KeyOn(s)
    BY <2>1
  <2>3. file'[x] = file[x]
    BY <1>5, <2>1, <2>2
  <2>4. ASSUME req[s].pc \in {"saveType", "deleteFile", "deleteRow"}
        PROVE  rows'[req[s].row] = rows[req[s].row] /\ Stored(req[s].row)
    <3>1. req[s].row \in Attachments /\ Stored(req[s].row) /\ KeyOf(req[s].row) = x
      BY <2>1, <2>2, <2>4 DEF Works, SlotsOK, SlotOK, RowsOK, RowOK
    <3> QED BY <1>5, <2>1, <2>2, <3>1
  <2>5. req[s].pc \in {"saveType", "deleteFile", "deleteRow"} => rows'[req[s].row] # NULL
    BY <2>4 DEF Stored
  <2> QED BY <1>5, <2>1, <2>2, <2>3, <2>4, <2>5 DEF Works, Stored
<1> QED BY <1>1, <1>3, <1>4, <1>5 DEF FilesOK

-----------------------------------------------------------------------------
(* Sending a message.                                                      *)

\* Where the next file, or the broadcast, finds the request.
LEMMA NextFileOK ==
    ASSUME NEW q \in Request, NEW list \in Lists, q.on \in Messages
    PROVE  LET w == NextFile(q, list)
           IN  /\ w \in Request /\ w.on = q.on
               /\ IF list = <<>>
                    THEN w.pc = "announce" /\ w.name = NULL
                    ELSE w.pc = "upload" /\ w.name = Head(list) /\ w.todo = Tail(list)
<1>1. CASE list = <<>>
  BY <1>1, EmptyList DEF NextFile, Request, Labels
<1>2. CASE list # <<>>
  BY <1>2, ListParts DEF NextFile, Request, Labels
<1> QED BY <1>1, <1>2

LEMMA CreateKeeps ==
    ASSUME Inv, NEW r \in Requests, NEW m \in Messages, NEW names \in Lists,
           StartCreate(r, m, names)
    PROVE  Inv'
<1> DEFINE w == NextFile([Idle EXCEPT !.on = m], names)
<1>1. /\ TypeOK /\ SlotsOK /\ RowsOK /\ PicturesOK /\ FilesSent /\ FilesOK
      /\ req[r] = Idle /\ m \notin messages /\ messages' = messages \cup {m}
      /\ \A s \in Requests : req[s].on # m
      /\ UNCHANGED <<rows, holders, picture, file, pictures, announced, contended>>
      /\ asked' = [asked EXCEPT ![m] = {names[i] : i \in DOMAIN names}]
  BY DEF StartCreate, Inv, NewOwner, store
<1>2. [Idle EXCEPT !.on = m] \in Request /\ [Idle EXCEPT !.on = m].on = m
  BY EmptyList DEF Idle, Request, Labels, Owners
<1>3. /\ w \in Request /\ w.on = m
      /\ IF names = <<>> THEN w.pc = "announce" /\ w.name = NULL
         ELSE w.pc = "upload" /\ w.name = Head(names) /\ w.todo = Tail(names)
  BY <1>2, NextFileOK
<1>4. req' = [req EXCEPT ![r] = w]
  BY DEF StartCreate
<1> HIDE DEF w
<1>5. req' \in [Requests -> Request] /\ req'[r] = w /\ \A s \in Requests : s # r => req'[s] = req[s]
  BY <1>1, <1>3, <1>4, Slots
<1>6. TypeOK'
  <2>1. {names[i] : i \in DOMAIN names} \subseteq Names
    BY DEF Lists
  <2> QED BY <1>1, <1>5, <2>1 DEF TypeOK
<1>7. SlotsOK'
  <2>1. SlotOK(r)'
    BY <1>3, <1>5, ListParts DEF SlotOK, OnFiles, OnPictures, Keys
  <2> QED BY <1>1, <1>5, <2>1, SlotsKept
<1>8. RowsOK'
  <2>1. RowOK(r)'
    BY <1>3, <1>5 DEF RowOK
  <2> QED BY <1>1, <1>5, <2>1, RowsKept DEF Stored, KeyOf
<1>9. PicturesOK'
  BY <1>1, <1>3, <1>5, PicturesKept
<1>10. FilesSent'
  <2>1. \A x, n : HasRow(x, n)' <=> HasRow(x, n)
    BY <1>1 DEF HasRow, Stored, KeyOf
  <2>2. \A x \in Messages : x # m => asked'[x] = asked[x]
    BY <1>1 DEF TypeOK
  <2>3. Sends(r)'
    <3>1. \A n \in asked'[m] : Among(n, names)
      BY <1>1 DEF TypeOK, Among
    <3>2. names # <<>> => \A n \in asked'[m] : n = Head(names) \/ Among(n, Tail(names))
      BY <3>1, ListParts
    <3>3. names = <<>> => asked'[m] = {}
      BY <3>1 DEF Among
    <3> QED BY <1>3, <1>5, <3>2, <3>3 DEF Sends, Among
  <2>4. ASSUME NEW s \in Requests, s # r PROVE Sends(s)'
    <3>1. req'[s] = req[s] /\ Sends(s) /\ req[s].on # m
      BY <1>1, <1>5, <2>4 DEF FilesSent
    <3>2. req[s].on \in messages' => req[s].on \in messages /\ asked'[req[s].on] = asked[req[s].on]
      BY <1>1, <2>2, <3>1 DEF TypeOK
    <3> QED BY <1>1, <2>1, <3>1, <3>2 DEF Sends, HasRow, Stored, KeyOf, Among
  <2>5. announced' \subseteq messages' /\ \A x \in announced' : x # m
    BY <1>1 DEF FilesSent
  <2>6. \A x \in announced' : \A n \in asked'[x] : HasRow(x, n)'
    BY <1>1, <2>1, <2>2, <2>5 DEF FilesSent, TypeOK
  <2> QED BY <2>3, <2>4, <2>5, <2>6 DEF FilesSent
<1>11. FilesOK'
  <2>1. Unique'
    BY <1>1 DEF FilesOK, Unique, Stored, KeyOf
  <2>2. Alone'
    <3> SUFFICES ASSUME NEW s \in Requests, NEW z \in Requests, NEW x \in Keys, s # z,
                        WorksOn(s, x)', WorksOn(z, x)', x[1] \in messages'
                 PROVE  x \in contended
      BY <1>1 DEF Alone
    <3>1. x[1] # m
      BY <1>1, <1>5 DEF WorksOn
    <3>2. s # r /\ z # r
      BY <1>3, <1>5, <3>1 DEF WorksOn
    <3> QED BY <1>1, <1>5, <3>1, <3>2 DEF WorksOn, FilesOK, Alone
  <2>3. Described'
    <3> SUFFICES ASSUME NEW a \in Attachments, Stored(a), KeyOf(a) \notin contended,
                        \A s \in Requests : WorksOn(s, KeyOf(a))' => req'[s].pc \in Untouched
                 PROVE  file[KeyOf(a)] = rows[a].type
      BY <1>1 DEF Described, Stored, KeyOf, WorksOn
    <3>1. \A s \in Requests : WorksOn(s, KeyOf(a)) => s # r
      BY <1>1, IdleOK, KeysTyped, NullApart DEF WorksOn, Keys
    <3>2. \A s \in Requests : WorksOn(s, KeyOf(a)) => req[s].pc \in Untouched
      BY <1>1, <1>5, <3>1 DEF WorksOn, KeyOf
    <3> QED BY <1>1, <3>2 DEF FilesOK, Described
  <2>4. Works(r)'
    BY <1>3, <1>5 DEF Works
  <2>5. ASSUME NEW s \in Requests, s # r PROVE Works(s)'
    <3>1. req'[s] = req[s] /\ Works(s) /\ req[s].on # m
      BY <1>1, <1>5, <2>5 DEF FilesOK
    <3> QED BY <1>1, <3>1 DEF Works, KeyOn, Stored
  <2> QED BY <2>1, <2>2, <2>3, <2>4, <2>5 DEF FilesOK
<1> QED BY <1>6, <1>7, <1>8, <1>9, <1>10, <1>11 DEF Inv

\* A step of r that keeps the attachments as they are.
LEMMA StepKeeps ==
    ASSUME Inv, NEW r \in Requests, NEW k \in Keys,
           req' \in [Requests -> Request], \A s \in Requests : s # r => req'[s] = req[s],
           req'[r].pc \notin OnPictures, SlotOK(r)',
           req'[r].pc \in {"saveType", "deleteFile", "deleteRow"} =>
               (Stored(req'[r].row) => KeyOf(req'[r].row) = KeyOn(r)'),
           UNCHANGED <<messages, rows, holders, picture, pictures, announced, asked>>,
           req'[r].pc \in Sending =>
               /\ req[r].pc \in Sending /\ (req'[r].pc = "announce" => req[r].pc = "announce")
               /\ req'[r].on = req[r].on /\ req'[r].name = req[r].name /\ req'[r].todo = req[r].todo,
           file' \in [Keys -> Types \cup {NULL}],
           contended \subseteq contended', contended' \subseteq Keys,
           \A x \in Keys : x # k => file'[x] = file[x],
           \A x \in Keys : x # k => ~ WorksOn(r, x) /\ ~ WorksOn(r, x)',
           WorksOn(r, k)' => WorksOn(r, k) \/
               \A s \in Requests : s # r /\ WorksOn(s, k) => k \in contended',
           file'[k] # file[k] => WorksOn(r, k),
           Works(r)',
           \A a \in Attachments :
               /\ Stored(a) /\ KeyOf(a) = k /\ k \notin contended'
               /\ WorksOn(r, k)' => req'[r].pc \in Untouched
               /\ \A s \in Requests : s # r /\ WorksOn(s, k) => req[s].pc \in Untouched
               => file'[k] = rows[a].type
    PROVE  Inv'
<1>1. TypeOK /\ SlotsOK /\ RowsOK /\ PicturesOK /\ FilesSent /\ FilesOK
  BY DEF Inv
<1>2. \A a \in Attachments : (Stored(a)' <=> Stored(a)) /\ KeyOf(a)' = KeyOf(a)
  BY DEF Stored, KeyOf
<1>3. TypeOK'
  BY <1>1 DEF TypeOK
<1>4. SlotsOK'
  BY <1>1, SlotsKept
<1>5. RowsOK'
  <2>1. RowOK(r)'
    BY DEF RowOK, KeyOf, Stored
  <2> QED BY <1>1, <1>2, <2>1, RowsKept
<1>6. PicturesOK'
  BY <1>1, PicturesKept DEF OnPictures
<1>7. FilesSent'
  <2>1. \A m, n : HasRow(m, n)' <=> HasRow(m, n)
    BY <1>2 DEF HasRow
  <2>2. Sends(r)'
    <3> SUFFICES ASSUME req'[r].pc \in Sending PROVE Sends(r)'
      BY DEF Sends
    <3>1. Sends(r)
      BY <1>1 DEF FilesSent
    <3> QED BY <1>2, <3>1 DEF Sends, HasRow, Among
  <2> QED BY <1>1, <2>1, <2>2, SentKept DEF FilesSent
<1>8. FilesOK'
  <2>1. WorksOn(r, k) /\ k[1] \in messages =>
            \A s \in Requests : s # r /\ WorksOn(s, k) => k \in contended
    BY <1>1 DEF FilesOK, Alone
  <2> QED BY <1>1, <1>2, <2>1, FilesKept
<1> QED BY <1>3, <1>4, <1>5, <1>6, <1>7, <1>8 DEF Inv

LEMMA UploadKeeps ==
    ASSUME Inv, NEW r \in Requests, NEW type \in Types, Upload(r, type) \/ UploadNew(r, type)
    PROVE  Inv'
<1>1. TypeOK /\ SlotsOK /\ RowsOK /\ FilesOK /\ req[r].pc \in {"upload", "uploadNew"}
  BY DEF Inv, Upload, UploadNew
<1>2. PICK k \in Keys : k = KeyOn(r)
  BY <1>1, KeyOnTyped DEF OnFiles
<1>3. PICK l \in {"insert", "findByName"} :
          /\ l = "insert" => req[r].pc = "upload"
          /\ Put(r, type, l)
          /\ UNCHANGED <<messages, rows, holders, picture, pictures, asked, announced, contended>>
  BY DEF Upload, UploadNew, tables, past
<1> DEFINE w == [req[r] EXCEPT !.pc = l, !.type = type]
<1>4. file' = [file EXCEPT ![k] = type] /\ req' = [req EXCEPT ![r] = w]
  BY <1>2, <1>3 DEF Put
<1>5. /\ w \in Request /\ w.pc = l /\ w.type = type /\ w.on = req[r].on /\ w.name = req[r].name
      /\ w.todo = req[r].todo
  BY <1>1 DEF TypeOK, Request, Labels
<1> HIDE DEF w
<1>6. req' \in [Requests -> Request] /\ req'[r] = w /\ \A s \in Requests : s # r => req'[s] = req[s]
  BY <1>1, <1>4, <1>5, Slots
<1>7. /\ file'[k] = type /\ \A x \in Keys : x # k => file'[x] = file[x]
      /\ file' \in [Keys -> Types \cup {NULL}]
  BY <1>1, <1>4 DEF TypeOK
<1>8. /\ \A x \in Keys : WorksOn(r, x) <=> x = k
      /\ \A x \in Keys : WorksOn(r, x)' <=> x = k
  BY <1>1, <1>2, <1>5, <1>6, KeyOnTyped DEF OnFiles, WorksOn
<1>9. SlotOK(r)'
  BY <1>1, <1>2, <1>5, <1>6 DEF SlotOK, OnFiles, OnPictures, KeyOn
<1>10. Works(r)'
  BY <1>2, <1>5, <1>6, <1>7 DEF Works, KeyOn
<1>11. contended' \subseteq Keys
  BY <1>1, <1>3 DEF TypeOK
<1> QED BY <1>1, <1>3, <1>5, <1>6, <1>7, <1>8, <1>9, <1>10, <1>11, StepKeeps
         DEF OnPictures, Sending, Untouched

\* A request takes up a key, k, alone or not.
LEMMA TakeUpKeeps ==
    ASSUME Inv, NEW r \in Requests, NEW k \in Keys, NEW w \in Request, req[r] = Idle,
           req' = [req EXCEPT ![r] = w], UNCHANGED <<tables, store, asked, announced>>,
           contended' = contended \cup Meeting(r, k),
           k = <<w.on, w.name>>, w.pc \in {"findMessage", "deleteFile"},
           w.pc = "deleteFile" =>
               w.row \in Attachments /\ Stored(w.row) /\ KeyOf(w.row) = k
    PROVE  Inv'
<1>1. TypeOK /\ SlotsOK /\ FilesOK
  BY DEF Inv
<1>2. req' \in [Requests -> Request] /\ req'[r] = w /\ \A s \in Requests : s # r => req'[s] = req[s]
  BY <1>1, Slots
<1>3. contended \subseteq contended' /\ contended' \subseteq Keys
      /\ \A s \in Requests : s # r /\ WorksOn(s, k) => k \in contended'
  BY <1>1 DEF Meeting, TypeOK
<1>4. /\ \A x \in Keys : ~ WorksOn(r, x)
      /\ \A x \in Keys : WorksOn(r, x)' <=> x = k
  <2>1. \A x \in Keys : ~ WorksOn(r, x)
    BY <1>1, IdleOK, NoKey DEF OnFiles
  <2> QED BY <1>2, <2>1 DEF WorksOn, Keys
<1>5. SlotOK(r)'
  BY <1>2 DEF SlotOK, OnFiles, OnPictures
<1>6. Works(r)'
  BY <1>2 DEF Works, Stored, tables
<1>7. \A a \in Attachments :
         /\ Stored(a) /\ KeyOf(a) = k /\ k \notin contended'
         /\ \A s \in Requests : s # r /\ WorksOn(s, k) => req[s].pc \in Untouched
         => file'[k] = rows[a].type
  BY <1>1, <1>3, <1>4 DEF FilesOK, Described, store
<1>8. w.pc = "deleteFile" => KeyOf(req'[r].row) = KeyOn(r)'
  BY <1>2 DEF KeyOn
<1>9. /\ UNCHANGED <<messages, rows, holders, picture, pictures, announced, asked, file>>
      /\ file' \in [Keys -> Types \cup {NULL}]
  BY <1>1 DEF tables, store, TypeOK
<1> QED BY <1>2, <1>3, <1>4, <1>5, <1>6, <1>7, <1>8, <1>9, StepKeeps
         DEF OnPictures, Sending

LEMMA StartsKeep ==
    ASSUME Inv, NEW r \in Requests, NEW a \in Attachments,
           StartDestroy(r, a) \/ \E n \in Names : StartUpdate(r, a, n)
    PROVE  Inv'
<1>1. TypeOK /\ Stored(a)
  BY DEF Inv, StartDestroy, StartUpdate
<1>2. rows[a] \in Attachment /\ rows[a].msg \in Messages /\ rows[a].name \in Names /\ KeyOf(a) \in Keys
  BY <1>1, KeysTyped DEF Attachment
<1>3. CASE StartDestroy(r, a)
  <2> DEFINE w == [Idle EXCEPT !.pc = "deleteFile", !.on = rows[a].msg, !.name = rows[a].name, !.row = a]
  <2>1. /\ w \in Request /\ w.pc = "deleteFile" /\ <<w.on, w.name>> = KeyOf(a) /\ w.row = a
    BY <1>2, EmptyList DEF Idle, Request, Labels, Owners, KeyOf
  <2>2. req' = [req EXCEPT ![r] = w]
    BY <1>3 DEF StartDestroy
  <2> HIDE DEF w
  <2> QED BY <1>1, <1>2, <1>3, <2>1, <2>2, TakeUpKeeps DEF StartDestroy
<1>4. ASSUME NEW n \in Names, StartUpdate(r, a, n) PROVE Inv'
  <2> DEFINE w == [Idle EXCEPT !.pc = "findMessage", !.on = rows[a].msg, !.name = n]
  <2>1. w \in Request /\ w.pc = "findMessage" /\ <<w.on, w.name>> = <<rows[a].msg, n>>
    BY <1>2, EmptyList DEF Idle, Request, Labels, Owners
  <2>2. req' = [req EXCEPT ![r] = w] /\ <<rows[a].msg, n>> \in Keys
    BY <1>2, <1>4 DEF StartUpdate, Keys
  <2> HIDE DEF w
  <2> QED BY <1>4, <2>1, <2>2, TakeUpKeeps DEF StartUpdate
<1> QED BY <1>3, <1>4

LEMMA InsertKeeps ==
    ASSUME Inv, NEW r \in Requests, NEW a \in Attachments, Insert(r, a)
    PROVE  Inv'
<1>1. /\ TypeOK /\ SlotsOK /\ RowsOK /\ PicturesOK /\ FilesSent /\ FilesOK
      /\ req[r].pc = "insert" /\ ~ Stored(a) /\ \A s \in Requests : req[s].row # a
      /\ UNCHANGED <<messages, holders, picture, file, pictures, asked, announced>>
  BY DEF Inv, Insert, NewAttachment, store
<1>2. PICK k \in Keys : k = KeyOn(r)
  BY <1>1, KeyOnTyped DEF OnFiles
<1>3. /\ req[r] \in Request /\ k = <<req[r].on, req[r].name>> /\ req[r].on \in Messages
      /\ req[r].name \in Names /\ req[r].type \in Types /\ req[r].todo \in Lists
  BY <1>1, <1>2 DEF TypeOK, Request, KeyOn, Keys, SlotsOK, SlotOK
<1>4. /\ contended \subseteq contended' /\ contended' \subseteq Keys
      /\ \A b \in Attachments : Stored(b) /\ KeyOf(b) = k => k \in contended'
      /\ req[r].todo # <<>> => \A s \in Requests :
            s # r /\ WorksOn(s, <<req[r].on, Head(req[r].todo)>>)
                => <<req[r].on, Head(req[r].todo)>> \in contended'
  <2> DEFINE next == IF req[r].todo = <<>> THEN {}
                     ELSE Meeting(r, <<req[r].on, Head(req[r].todo)>>)
             same == {KeyOf(b) : b \in {c \in Attachments : Stored(c) /\ KeyOf(c) = KeyOn(r)}}
  <2>1. contended' = contended \cup same \cup next
    BY DEF Insert
  <2>2. next \subseteq Keys
    BY <1>3, ListParts DEF Meeting, Keys
  <2>3. same \subseteq Keys /\ \A b \in Attachments : Stored(b) /\ KeyOf(b) = k => k \in same
    BY <1>2
  <2>4. req[r].todo # <<>> => \A s \in Requests :
            s # r /\ WorksOn(s, <<req[r].on, Head(req[r].todo)>>)
                => <<req[r].on, Head(req[r].todo)>> \in next
    BY DEF Meeting
  <2> HIDE DEF next, same
  <2> QED BY <1>1, <2>1, <2>2, <2>3, <2>4 DEF TypeOK
<1>5. CASE req[r].on \notin messages
  <2>1. Finish(r) /\ rows' = rows
    BY <1>5 DEF Insert
  <2>2. /\ req' \in [Requests -> Request] /\ req'[r] = Idle
        /\ \A s \in Requests : s # r => req'[s] = req[s]
        /\ SlotOK(r)'
    BY <1>1, <2>1, Ends
  <2>3. /\ \A x \in Keys : WorksOn(r, x) <=> x = k
        /\ \A x \in Keys : ~ WorksOn(r, x)'
    BY <1>1, <1>2, <2>2, KeyOnTyped, IdleOK, NullApart DEF OnFiles, WorksOn, Keys
  <2>4. Works(r)'
    BY <2>2, IdleOK DEF Works, OnFiles
  <2>5. /\ UNCHANGED <<messages, rows, holders, picture, pictures, announced, asked, file>>
        /\ file' \in [Keys -> Types \cup {NULL}]
    BY <1>1, <2>1 DEF TypeOK
  <2> QED BY <1>4, <2>2, <2>3, <2>4, <2>5, IdleOK, StepKeeps DEF OnPictures, Sending
<1>6. CASE req[r].on \in messages
  <2> DEFINE w == NextFile(req[r], req[r].todo)
             row == [msg |-> req[r].on, name |-> req[r].name, type |-> req[r].type]
  <2>1. /\ w \in Request /\ w.on = req[r].on
        /\ IF req[r].todo = <<>> THEN w.pc = "announce" /\ w.name = NULL
           ELSE w.pc = "upload" /\ w.name = Head(req[r].todo) /\ w.todo = Tail(req[r].todo)
    BY <1>3, NextFileOK
  <2>2. req' = [req EXCEPT ![r] = w] /\ rows' = [rows EXCEPT ![a] = row]
    BY <1>6 DEF Insert
  <2>3. row \in Attachment /\ <<row.msg, row.name>> = k /\ row.type = req[r].type /\ row # NULL
        /\ row.msg = req[r].on
    BY <1>3, NullApart DEF Attachment
  <2> HIDE DEF w, row
  <2>4. req' \in [Requests -> Request] /\ req'[r] = w /\ \A s \in Requests : s # r => req'[s] = req[s]
    BY <1>1, <2>1, <2>2, Slots
  <2>5. /\ rows' \in [Attachments -> Attachment \cup {NULL}]
        /\ rows'[a] = row /\ \A b \in Attachments : b # a => rows'[b] = rows[b]
    BY <1>1, <2>2, <2>3 DEF TypeOK
  <2>6. /\ Stored(a)' /\ KeyOf(a)' = k
        /\ \A b \in Attachments : b # a => (Stored(b)' <=> Stored(b)) /\ KeyOf(b)' = KeyOf(b)
    BY <2>3, <2>5 DEF Stored, KeyOf
  <2>7. TypeOK'
    BY <1>1, <1>4, <2>4, <2>5 DEF TypeOK
  <2>8. SlotsOK'
    <3>1. SlotOK(r)'
      BY <1>3, <2>1, <2>4, ListParts DEF SlotOK, OnFiles, OnPictures, Keys
    <3> QED BY <1>1, <2>4, <3>1, SlotsKept
  <2>9. RowsOK'
    <3>1. \A b \in Attachments : Stored(b)' => rows'[b].msg \in messages'
      BY <1>1, <1>6, <2>3, <2>5 DEF RowsOK, Stored
    <3>2. RowOK(r)'
      BY <2>1, <2>4 DEF RowOK
    <3>3. ASSUME NEW s \in Requests, s # r PROVE RowOK(s)'
      <4>1. req'[s] = req[s] /\ RowOK(s) /\ req[s].row # a
        BY <1>1, <2>4, <3>3 DEF RowsOK
      <4> SUFFICES ASSUME req[s].pc \in {"saveType", "deleteFile", "deleteRow"} PROVE RowOK(s)'
        BY <4>1 DEF RowOK
      <4>2. rows'[req[s].row] = rows[req[s].row]
        BY <1>1, <2>5, <4>1 DEF SlotsOK, SlotOK
      <4> QED BY <4>1, <4>2 DEF RowOK, Stored, KeyOf, KeyOn
    <3> QED BY <3>1, <3>2, <3>3 DEF RowsOK
  <2>10. PicturesOK'
    BY <1>1, <2>1, <2>4, PicturesKept
  <2>11. FilesSent'
    <3>1. \A x, n : HasRow(x, n) => HasRow(x, n)'
      BY <1>1, <2>6 DEF HasRow
    <3>2. PICK m \in Messages, n0 \in Names, todo \in Lists :
              m = req[r].on /\ n0 = req[r].name /\ todo = req[r].todo
      BY <1>3
    <3>3. HasRow(m, n0)'
      BY <1>3, <2>6, <3>2 DEF HasRow
    <3>4. Sends(r)'
      <4>1. ASSUME NEW n \in asked[m] PROVE HasRow(m, n)' \/ Among(n, todo)
        <5>1. HasRow(m, n) \/ n = n0 \/ Among(n, todo)
          BY <1>1, <1>6, <3>2, <4>1 DEF FilesSent, Sends, Sending
        <5> QED BY <3>1, <3>3, <5>1
      <4>2. todo = <<>> => \A n : ~ Among(n, todo)
        BY DEF Among
      <4>3. todo # <<>> => \A n : Among(n, todo) => n = Head(todo) \/ Among(n, Tail(todo))
        BY ListParts
      <4>4. req'[r].on = m /\ (todo = <<>> => req'[r].pc = "announce")
            /\ (todo # <<>> => req'[r].pc = "upload" /\ req'[r].name = Head(todo)
                               /\ req'[r].todo = Tail(todo))
        BY <2>1, <2>4, <3>2
      <4>5. CASE todo = <<>>
        <5>1. \A n \in asked[m] : HasRow(m, n)'
          BY <4>1, <4>2, <4>5
        <5> QED BY <1>1, <4>4, <5>1 DEF Sends, HasRow
      <4>6. CASE todo # <<>>
        <5>1. \A n \in asked[m] : HasRow(m, n)' \/ n = req'[r].name \/ Among(n, req'[r].todo)
          BY <4>1, <4>3, <4>4, <4>6
        <5> QED BY <1>1, <4>4, <4>6, <5>1 DEF Sends, HasRow, Among
      <4> QED BY <4>5, <4>6
    <3>5. /\ messages' = messages /\ announced' \subseteq messages
          /\ \A x \in announced' \ announced : \A n \in asked'[x] : HasRow(x, n)'
          /\ \A x \in messages : \A n \in asked'[x] : n \in asked[x] /\ (HasRow(x, n) => HasRow(x, n)')
      BY <1>1, <3>1 DEF FilesSent
    <3> QED BY <1>1, <2>4, <3>4, <3>5, SentKept
  <2>12. Unique'
    <3> SUFFICES ASSUME NEW b \in Attachments, NEW c \in Attachments, b # c,
                        Stored(b)', Stored(c)', KeyOf(b)' = KeyOf(c)'
                 PROVE  KeyOf(b)' \in contended'
      BY DEF Unique
    <3> QED BY <1>1, <1>4, <2>6 DEF FilesOK, Unique
  <2>13. \A s \in Requests : s # r => \A x \in Keys : WorksOn(s, x)' <=> WorksOn(s, x)
    BY <2>4 DEF WorksOn
  <2>14. Alone'
    <3>1. \A x \in Keys : WorksOn(r, x)' =>
              \A s \in Requests : s # r /\ WorksOn(s, x) => x \in contended'
      <4> SUFFICES ASSUME NEW x \in Keys, WorksOn(r, x)', NEW s \in Requests, s # r, WorksOn(s, x)
                   PROVE  x \in contended'
        OBVIOUS
      <4>1. w.name \in Names /\ x = <<w.on, w.name>>
        BY <2>4 DEF WorksOn, Keys
      <4>2. req[r].todo # <<>> /\ x = <<req[r].on, Head(req[r].todo)>>
        BY <2>1, <4>1, NullApart
      <4> QED BY <1>4, <4>2
    <3> SUFFICES ASSUME NEW s \in Requests, NEW z \in Requests, NEW x \in Keys, s # z,
                        WorksOn(s, x)', WorksOn(z, x)', x[1] \in messages
                 PROVE  x \in contended'
      BY <1>1 DEF Alone
    <3>2. CASE s # r /\ z # r
      BY <1>1, <1>4, <2>13, <3>2 DEF FilesOK, Alone
    <3>3. CASE s = r \/ z = r
      BY <2>13, <3>1, <3>3
    <3> QED BY <3>2, <3>3
  <2>15. Described'
    <3> SUFFICES ASSUME NEW b \in Attachments, Stored(b)', KeyOf(b)' \notin contended',
                        \A s \in Requests : WorksOn(s, KeyOf(b))' => req'[s].pc \in Untouched
                 PROVE  file[KeyOf(b)'] = rows'[b].type
      BY <1>1 DEF Described
    <3>1. CASE b = a
      <4>1. Works(r) /\ k \notin contended
        BY <1>1, <1>4, <2>6, <3>1 DEF FilesOK
      <4> QED BY <1>1, <1>2, <1>6, <2>3, <2>5, <2>6, <3>1, <4>1 DEF Works, OnFiles
    <3>2. CASE b # a
      <4>1. PICK x \in Keys : x = KeyOf(b)
        BY <1>1, <2>6, <3>2, KeysTyped
      <4>2. /\ Stored(b) /\ x = KeyOf(b)' /\ x \notin contended /\ x # k
            /\ \A s \in Requests : WorksOn(s, x)' => req'[s].pc \in Untouched
        BY <1>4, <2>6, <3>2, <4>1 DEF WorksOn
      <4>3. ~ WorksOn(r, x)
        BY <1>1, <1>2, <4>2, KeyOnTyped DEF OnFiles
      <4>4. \A s \in Requests : WorksOn(s, x) => req[s].pc \in Untouched
        BY <2>4, <2>13, <4>2, <4>3
      <4>5. file[x] = rows[b].type
        BY <1>1, <4>1, <4>2, <4>4 DEF FilesOK, Described
      <4> QED BY <2>5, <3>2, <4>2, <4>5
    <3> QED BY <3>1, <3>2
  <2>16. Works(r)'
    BY <2>1, <2>4 DEF Works
  <2>17. ASSUME NEW s \in Requests, s # r PROVE Works(s)'
    <3>1. req'[s] = req[s] /\ Works(s) /\ req[s].row # a
      BY <1>1, <2>4, <2>17 DEF FilesOK
    <3>2. req[s].pc \in {"saveType", "deleteFile", "deleteRow"} => rows'[req[s].row] = rows[req[s].row]
      BY <1>1, <2>5, <3>1 DEF SlotsOK, SlotOK
    <3> QED BY <1>1, <1>4, <3>1, <3>2 DEF Works, KeyOn, Stored
  <2> QED BY <2>7, <2>8, <2>9, <2>10, <2>11, <2>12, <2>14, <2>15, <2>16, <2>17 DEF Inv, FilesOK
<1> QED BY <1>5, <1>6

-----------------------------------------------------------------------------
(* Updating and destroying a file.                                         *)

LEMMA FindsKeep ==
    ASSUME Inv, NEW r \in Requests, FindMessage(r) \/ FindByName(r)
    PROVE  Inv'
<1>1. /\ TypeOK /\ SlotsOK /\ RowsOK /\ FilesOK /\ req[r].pc \in {"findMessage", "findByName"}
      /\ UNCHANGED <<messages, rows, holders, picture, pictures, announced, asked, file, contended>>
      /\ contended' \subseteq Keys /\ file' \in [Keys -> Types \cup {NULL}]
  BY DEF Inv, FindMessage, FindByName, tables, store, past, TypeOK
<1>2. PICK k \in Keys : k = KeyOn(r)
  BY <1>1, KeyOnTyped DEF OnFiles
<1>3. \A x \in Keys : WorksOn(r, x) <=> x = k
  BY <1>1, <1>2, KeyOnTyped DEF OnFiles
<1>4. req[r].pc = "findMessage" => \A a \in Attachments :
         /\ Stored(a) /\ KeyOf(a) = k /\ k \notin contended
         /\ \A s \in Requests : s # r /\ WorksOn(s, k) => req[s].pc \in Untouched
         => file[k] = rows[a].type
  BY <1>1, <1>3 DEF FilesOK, Described, Untouched
<1>5. CASE Finish(r) /\ (req[r].pc = "findByName" =>
                            \A a \in Attachments : Stored(a) => KeyOf(a) # k)
  <2>1. /\ req' \in [Requests -> Request] /\ req'[r] = Idle
        /\ \A s \in Requests : s # r => req'[s] = req[s]
        /\ SlotOK(r)'
    BY <1>1, <1>5, Ends
  <2>2. \A x \in Keys : ~ WorksOn(r, x)'
    BY <2>1, IdleOK, NullApart DEF WorksOn, Keys
  <2>3. Works(r)'
    BY <2>1, IdleOK DEF Works, OnFiles
  <2>4. \A a \in Attachments :
         /\ Stored(a) /\ KeyOf(a) = k /\ k \notin contended'
         /\ \A s \in Requests : s # r /\ WorksOn(s, k) => req[s].pc \in Untouched
         => file'[k] = rows[a].type
    BY <1>1, <1>4, <1>5
  <2> QED BY <1>1, <1>3, <2>1, <2>2, <2>3, <2>4, IdleOK, StepKeeps DEF OnPictures, Sending
<1>6. CASE FindMessage(r) /\ Goto(r, "uploadNew")
  <2>1. /\ req' \in [Requests -> Request] /\ \A s \in Requests : s # r => req'[s] = req[s]
        /\ req'[r].pc = "uploadNew" /\ req'[r].on = req[r].on /\ req'[r].name = req[r].name
    BY <1>1, <1>6, Continues DEF Labels
  <2>2. SlotOK(r)' /\ Works(r)'
    BY <1>1, <2>1 DEF SlotOK, SlotsOK, Works, OnFiles, OnPictures
  <2>3. \A x \in Keys : WorksOn(r, x)' <=> x = k
    BY <1>3, <2>1 DEF WorksOn
  <2>4. \A a \in Attachments :
         /\ Stored(a) /\ KeyOf(a) = k /\ k \notin contended'
         /\ \A s \in Requests : s # r /\ WorksOn(s, k) => req[s].pc \in Untouched
         => file'[k] = rows[a].type
    BY <1>1, <1>4, <1>6 DEF FindMessage
  <2> QED BY <1>1, <1>3, <2>1, <2>2, <2>3, <2>4, StepKeeps DEF OnPictures, Sending
<1>7. ASSUME NEW a \in Attachments, FindByName(r), Stored(a), KeyOf(a) = k,
             req' = [req EXCEPT ![r].pc = "saveType", ![r].row = a, ![r].was = rows[a].type]
      PROVE  Inv'
  <2> DEFINE w == [req[r] EXCEPT !.pc = "saveType", !.row = a, !.was = rows[a].type]
  <2>1. /\ w \in Request /\ w.pc = "saveType" /\ w.row = a /\ w.was = rows[a].type
        /\ w.on = req[r].on /\ w.name = req[r].name /\ w.type = req[r].type
    BY <1>1, <1>7, KeysTyped DEF TypeOK, Request, Labels, Attachment
  <2>2. req' = [req EXCEPT ![r] = w]
    BY <1>7
  <2> HIDE DEF w
  <2>3. req' \in [Requests -> Request] /\ req'[r] = w /\ \A s \in Requests : s # r => req'[s] = req[s]
    BY <1>1, <2>1, <2>2, Slots
  <2>4. SlotOK(r)'
    BY <1>1, <1>7, <2>1, <2>3 DEF SlotOK, SlotsOK, OnFiles, OnPictures, FindByName
  <2>5. KeyOn(r)' = k /\ \A x \in Keys : WorksOn(r, x)' <=> x = k
    BY <1>2, <1>3, <2>1, <2>3 DEF WorksOn, KeyOn
  <2>6. Works(r)'
    <3>1. Works(r) /\ req[r].pc = "findByName"
      BY <1>1, <1>7 DEF FilesOK, FindByName
    <3> QED BY <1>1, <1>2, <1>7, <2>1, <2>3, <2>5, <3>1 DEF Works, OnFiles, Stored
  <2>7. req'[r].pc \notin Untouched \cup Sending \cup OnPictures /\ KeyOf(req'[r].row) = KeyOn(r)'
    BY <1>7, <2>1, <2>3, <2>5 DEF Untouched, Sending, OnPictures
  <2> QED BY <1>1, <1>3, <2>3, <2>4, <2>5, <2>6, <2>7, StepKeeps
<1> QED BY <1>2, <1>5, <1>6, <1>7 DEF FindMessage, FindByName

LEMMA DeleteFileKeeps ==
    ASSUME Inv, NEW r \in Requests, DeleteFile(r)
    PROVE  Inv'
<1>1. /\ TypeOK /\ SlotsOK /\ RowsOK /\ FilesOK /\ req[r].pc = "deleteFile"
      /\ UNCHANGED <<messages, rows, holders, picture, pictures, announced, asked, contended>>
      /\ contended' \subseteq Keys /\ Goto(r, "deleteRow")
  BY DEF Inv, DeleteFile, tables, past, TypeOK
<1>2. PICK k \in Keys : k = KeyOn(r)
  BY <1>1, KeyOnTyped DEF OnFiles
<1>3. file' \in [Keys -> Types \cup {NULL}] /\ \A x \in Keys : x # k => file'[x] = file[x]
  BY <1>1, <1>2 DEF TypeOK, DeleteFile
<1>4. /\ req' \in [Requests -> Request] /\ \A s \in Requests : s # r => req'[s] = req[s]
      /\ req'[r].pc = "deleteRow" /\ req'[r].on = req[r].on /\ req'[r].name = req[r].name
      /\ req'[r].row = req[r].row
  BY <1>1, Continues DEF Labels
<1>5. /\ \A x \in Keys : WorksOn(r, x) <=> x = k
      /\ \A x \in Keys : WorksOn(r, x)' <=> x = k
  BY <1>1, <1>2, <1>4, KeyOnTyped DEF OnFiles, WorksOn
<1>6. SlotOK(r)'
  BY <1>1, <1>4 DEF SlotOK, SlotsOK, OnFiles, OnPictures
<1>7. Works(r)'
  <2>1. Works(r)
    BY <1>1 DEF FilesOK
  <2> QED BY <1>1, <1>4, <2>1 DEF Works, OnFiles, KeyOn, Stored
<1>8. Stored(req'[r].row) => KeyOf(req'[r].row) = KeyOn(r)'
  <2>1. RowOK(r)
    BY <1>1 DEF RowsOK
  <2> QED BY <1>1, <1>4, <2>1 DEF RowOK, KeyOn
<1>9. req'[r].pc \notin Untouched \cup Sending \cup OnPictures
  BY <1>4 DEF Untouched, Sending, OnPictures
<1> QED BY <1>1, <1>3, <1>4, <1>5, <1>6, <1>7, <1>8, <1>9, StepKeeps

\* The last step of an update or a removal: the row that was found is changed or goes.
LEMMA LastKeeps ==
    ASSUME Inv, NEW r \in Requests, SaveType(r) \/ DeleteRow(r)
    PROVE  Inv'
<1>1. /\ TypeOK /\ SlotsOK /\ RowsOK /\ PicturesOK /\ FilesSent /\ FilesOK
      /\ req[r].pc \in {"saveType", "deleteRow"} /\ Finish(r)
      /\ UNCHANGED <<messages, holders, picture, pictures, announced, file, contended>>
  BY DEF Inv, SaveType, DeleteRow, store, past
<1>2. PICK k \in Keys : k = KeyOn(r)
  BY <1>1, KeyOnTyped DEF OnFiles
<1>3. PICK a \in Attachments : a = req[r].row
  BY <1>1 DEF SlotsOK, SlotOK
<1>4. /\ req[r].on \in Messages /\ k = <<req[r].on, req[r].name>> /\ (Stored(a) => KeyOf(a) = k)
      /\ req[r].pc = "saveType" => req[r].type \in Types
  BY <1>1, <1>2, <1>3 DEF SlotsOK, SlotOK, RowsOK, RowOK, KeyOn, Keys, OnFiles
<1>5. /\ req' \in [Requests -> Request] /\ req'[r] = Idle
      /\ \A s \in Requests : s # r => req'[s] = req[s]
      /\ SlotOK(r)'
  BY <1>1, Ends
<1>6. /\ \A x \in Keys : WorksOn(r, x) <=> x = k
      /\ \A x \in Keys : ~ WorksOn(r, x)'
  BY <1>1, <1>2, <1>5, KeyOnTyped, IdleOK, NullApart DEF OnFiles, WorksOn, Keys
<1>7. Works(r)' /\ RowOK(r)'
  BY <1>5, IdleOK DEF Works, RowOK, OnFiles
\* What happens to the row.
<1>8. /\ rows' \in [Attachments -> Attachment \cup {NULL}]
      /\ \A b \in Attachments : b # a => rows'[b] = rows[b]
      /\ Stored(a)' => Stored(a) /\ KeyOf(a)' = KeyOf(a)
      /\ req[r].pc = "deleteRow" => ~ Stored(a)'
      /\ req[r].pc = "saveType" /\ Stored(a) => Stored(a)'
      /\ req[r].pc = "saveType" /\ Stored(a) /\ req[r].was = rows[a].type
            => rows'[a].type = req[r].type
  <2>1. CASE SaveType(r)
    <3>1. CASE Stored(a) /\ req[r].was # req[r].type
      <4> DEFINE row == [rows[a] EXCEPT !.type = req[r].type]
      <4>1. rows' = [rows EXCEPT ![a] = row] /\ req[r].pc = "saveType"
        BY <1>3, <2>1, <3>1 DEF SaveType
      <4>2. row \in Attachment /\ row # NULL /\ row.msg = rows[a].msg /\ row.name = rows[a].name
            /\ row.type = req[r].type
        BY <1>1, <1>4, <3>1, <4>1, KeysTyped, NullApart DEF Attachment
      <4> HIDE DEF row
      <4> QED BY <1>1, <3>1, <4>1, <4>2 DEF TypeOK, Stored, KeyOf
    <3>2. CASE ~ (Stored(a) /\ req[r].was # req[r].type)
      BY <1>1, <1>3, <2>1, <3>2 DEF SaveType, TypeOK, Stored, KeyOf
    <3> QED BY <3>1, <3>2
  <2>2. CASE DeleteRow(r)
    BY <1>1, <1>3, <2>2 DEF DeleteRow, TypeOK, Stored
  <2> QED BY <2>1, <2>2
<1>9. \A b \in Attachments : Stored(b)' => Stored(b) /\ KeyOf(b)' = KeyOf(b)
  BY <1>8 DEF Stored, KeyOf
<1>10. asked' \in [Messages -> SUBSET Names]
       /\ (\A m \in Messages : asked'[m] \subseteq asked[m])
       /\ (req[r].pc = "deleteRow" => req[r].name \notin asked'[req[r].on])
       /\ (req[r].pc = "saveType" => asked' = asked)
  BY <1>1, <1>4 DEF SaveType, DeleteRow, TypeOK, past
<1>11. TypeOK'
  BY <1>1, <1>5, <1>8, <1>10 DEF TypeOK
<1>12. SlotsOK' /\ RowsOK' /\ PicturesOK'
  <2>1. req'[r].pc # "savePicture"
    BY <1>5, IdleOK
  <2>2. messages \subseteq messages' /\ UNCHANGED <<holders, picture, pictures>>
    BY <1>1
  <2> QED BY <1>1, <1>5, <1>7, <1>9, <2>1, <2>2, SlotsKept, RowsKept, PicturesKept
<1>13. FilesSent'
  <2>1. Sends(r)'
    BY <1>5, IdleOK DEF Sends, Sending
  <2>2. ASSUME NEW m \in messages, NEW n \in asked'[m] 
        PROVE  n \in asked[m] /\ (HasRow(m, n) => HasRow(m, n)')
    <3>1. m \in Messages /\ n \in asked[m]
      BY <1>1, <1>10, <2>2 DEF TypeOK
    <3>2. ASSUME NEW b \in Attachments, Stored(b), KeyOf(b) = <<m, n>> PROVE HasRow(m, n)'
      <4>1. b = a => req[r].pc = "saveType"
        BY <1>1, <1>4, <1>10, <2>2, <3>2
      <4>2. Stored(b)'
        BY <1>8, <3>2, <4>1 DEF Stored
      <4> QED BY <1>9, <3>2, <4>2 DEF HasRow
    <3> QED BY <3>1, <3>2 DEF HasRow
  <2>3. /\ messages' = messages /\ announced' \subseteq messages
        /\ \A x \in announced' \ announced : \A n \in asked'[x] : HasRow(x, n)'
    BY <1>1 DEF FilesSent
  <2>4. \A m \in messages : \A n \in asked'[m] : n \in asked[m] /\ (HasRow(m, n) => HasRow(m, n)')
    BY <2>2
  <2> QED BY <1>1, <1>5, <2>1, <2>3, <2>4, SentKept
<1>14. FilesOK'
  <2>1. \A b \in Attachments : Stored(b) /\ KeyOf(b) # k => rows'[b] = rows[b]
    BY <1>4, <1>8
  <2>2. k[1] \in messages /\ k \notin contended => \A s \in Requests : s # r => ~ WorksOn(s, k)
    BY <1>1, <1>6 DEF FilesOK, Alone
  <2>3. ASSUME NEW b \in Attachments, Stored(b)', KeyOf(b) = k, k \notin contended
        PROVE  file[k] = rows'[b].type
    <3>1. Stored(b) /\ req[r].on \in messages
      BY <1>1, <1>4, <1>9, <2>3, KeysTyped DEF RowsOK
    <3>2. Works(r) /\ Stored(a)
      BY <1>1, <1>2, <1>3, <2>3, <3>1 DEF FilesOK, Works, OnFiles
    <3>3. b = a
      BY <1>1, <1>4, <2>3, <3>1, <3>2 DEF FilesOK, Unique
    <3>4. req[r].pc = "saveType"
      BY <1>1, <1>8, <2>3, <3>3
    <3>5. file[k] = req[r].type /\ req[r].was = rows[a].type
      BY <1>2, <1>3, <2>3, <3>1, <3>2, <3>4 DEF Works, OnFiles
    <3> QED BY <1>8, <3>2, <3>3, <3>4, <3>5
  <2> QED BY <1>1, <1>5, <1>6, <1>7, <1>9, <2>1, <2>2, <2>3, FilesKept
<1> QED BY <1>11, <1>12, <1>13, <1>14 DEF Inv

-----------------------------------------------------------------------------
(* The other steps.                                                        *)

\* A step of a request that works on no file.
LEMMA ApartKeeps ==
    ASSUME Inv, NEW r \in Requests, req[r].pc \notin OnFiles, req'[r].pc \notin OnFiles,
           \A s \in Requests : s # r => req'[s] = req[s],
           SlotOK(r)', \A x \in Keys : ~ WorksOn(r, x)',
           UNCHANGED <<messages, rows, file>>, contended \subseteq contended'
    PROVE  SlotsOK' /\ RowsOK' /\ FilesOK'
<1>1. TypeOK /\ SlotsOK /\ RowsOK /\ FilesOK
  BY DEF Inv
<1>2. \A a \in Attachments : (Stored(a)' <=> Stored(a)) /\ KeyOf(a)' = KeyOf(a)
  BY DEF Stored, KeyOf
<1>3. RowOK(r)' /\ Works(r)'
  BY DEF RowOK, Works, OnFiles
<1>4. \A s \in Requests, x \in Keys : WorksOn(s, x)' <=> (s # r /\ WorksOn(s, x))
  BY DEF WorksOn
<1>5. \A x \in Keys : ~ WorksOn(r, x)
  BY <1>1, NoKey
<1>6. SlotsOK' /\ RowsOK'
  BY <1>1, <1>2, <1>3, SlotsKept, RowsKept
<1>7. Unique' /\ Alone'
  BY <1>1, <1>2, <1>4 DEF FilesOK, Unique, Alone
<1>8. Described'
  <2> SUFFICES ASSUME NEW a \in Attachments, Stored(a)', KeyOf(a)' \notin contended',
                      \A s \in Requests : WorksOn(s, KeyOf(a))' => req'[s].pc \in Untouched
               PROVE  file'[KeyOf(a)'] = rows'[a].type
    BY DEF Described
  <2>1. PICK x \in Keys : x = KeyOf(a)
    BY <1>1, <1>2, KeysTyped
  <2>2. x = KeyOf(a)' /\ \A s \in Requests : WorksOn(s, x)' => req'[s].pc \in Untouched
    BY <1>2, <2>1 DEF WorksOn
  <2>3. \A s \in Requests : WorksOn(s, x) => req[s].pc \in Untouched
    BY <1>4, <1>5, <2>2
  <2> QED BY <1>1, <1>2, <2>1, <2>2, <2>3 DEF FilesOK, Described
<1>9. ASSUME NEW s \in Requests, s # r PROVE Works(s)'
  BY <1>1, <1>9 DEF FilesOK, Works, KeyOn, Stored
<1> QED BY <1>3, <1>6, <1>7, <1>8, <1>9 DEF FilesOK

LEMMA AnnounceKeeps ==
    ASSUME Inv, NEW r \in Requests, Announce(r)
    PROVE  Inv'
<1>1. /\ TypeOK /\ SlotsOK /\ PicturesOK /\ FilesSent /\ req[r].pc = "announce" /\ Finish(r)
      /\ announced' = announced \cup ({req[r].on} \cap messages)
      /\ UNCHANGED <<messages, rows, holders, picture, file, pictures, asked, contended>>
  BY DEF Inv, Announce, tables, store
<1>2. /\ req' \in [Requests -> Request] /\ req'[r] = Idle
      /\ \A s \in Requests : s # r => req'[s] = req[s]
      /\ SlotOK(r)'
  BY <1>1, Ends
<1>3. TypeOK' /\ PicturesOK'
  <2>1. TypeOK'
    BY <1>1, <1>2 DEF TypeOK
  <2>2. PicturesOK'
    BY <1>1, <1>2, IdleOK, PicturesKept
  <2> QED BY <2>1, <2>2
<1>4. SlotsOK' /\ RowsOK' /\ FilesOK'
  <2>1. req[r].pc \notin OnFiles /\ req'[r].pc \notin OnFiles
    BY <1>1, <1>2, IdleOK DEF OnFiles
  <2>2. \A x \in Keys : ~ WorksOn(r, x)'
    BY <1>2, IdleOK, NullApart DEF WorksOn, Keys
  <2> QED BY <1>1, <1>2, <2>1, <2>2, ApartKeeps
<1>5. FilesSent'
  <2>1. \A m, n : HasRow(m, n)' <=> HasRow(m, n)
    BY <1>1 DEF HasRow, Stored, KeyOf
  <2>2. \A m \in announced' \ announced : \A n \in asked'[m] : HasRow(m, n)'
    <3>1. \A n \in asked[req[r].on] : req[r].on \in messages => HasRow(req[r].on, n)
      BY <1>1 DEF FilesSent, Sends, Sending
    <3>2. PICK on \in Messages : on = req[r].on
      BY <1>1 DEF SlotsOK, SlotOK
    <3>3. on \in messages => \A n \in asked[on] : HasRow(on, n)
      BY <3>1, <3>2 DEF HasRow
    <3> QED BY <1>1, <2>1, <3>2, <3>3
  <2>3. /\ messages' = messages /\ announced' \subseteq messages
        /\ \A m \in messages : \A n \in asked'[m] : n \in asked[m] /\ (HasRow(m, n) => HasRow(m, n)')
    BY <1>1, <2>1 DEF FilesSent
  <2>4. Sends(r)'
    BY <1>2, IdleOK DEF Sends, Sending
  <2> QED BY <1>1, <1>2, <2>2, <2>3, <2>4, SentKept
<1> QED BY <1>3, <1>4, <1>5 DEF Inv

\* A step of r among those that change a picture.
PictureStep(r) ==
    /\ TypeOK' /\ PicturesOK' /\ SlotOK(r)'
    /\ req[r].pc \in {"idle"} \cup OnPictures /\ req'[r].pc \in {"idle"} \cup OnPictures
    /\ \A s \in Requests : s # r => req'[s] = req[s]
    /\ \A x \in Keys : ~ WorksOn(r, x)'

LEMMA PicturesKeep ==
    ASSUME Inv, NEW r \in Requests, Pictures(r)
    PROVE  Inv'
<1>1. /\ TypeOK /\ SlotsOK /\ PicturesOK /\ FilesSent
      /\ UNCHANGED <<messages, rows, holders, file, announced, asked, contended>>
  BY DEF Inv, Pictures, StartPicture, UploadPicture, SavePicture, tables, store, past
<1>2. PictureStep(r)
  <2>1. ASSUME NEW h \in Holders, NEW n \in Names, StartPicture(r, h, n) PROVE PictureStep(r)
    <3> DEFINE w == [Idle EXCEPT !.pc = "uploadPicture", !.on = h, !.name = n, !.was = picture[h]]
    <3>1. /\ w \in Request /\ w.pc = "uploadPicture" /\ w.on = h /\ w.name = n
      BY <1>1, EmptyList DEF Idle, Request, Labels, Owners, TypeOK
    <3>2. req' = [req EXCEPT ![r] = w] /\ UNCHANGED <<picture, pictures>> /\ req[r] = Idle
      BY <2>1 DEF StartPicture, tables, store
    <3> HIDE DEF w
    <3>3. req' \in [Requests -> Request] /\ req'[r] = w /\ \A s \in Requests : s # r => req'[s] = req[s]
      BY <1>1, <3>1, <3>2, Slots
    <3>4. TypeOK'
      BY <1>1, <3>2, <3>3 DEF TypeOK
    <3>5. PicturesOK'
      BY <1>1, <3>1, <3>2, <3>3, PicturesKept
    <3>6. SlotOK(r)' /\ \A x \in Keys : ~ WorksOn(r, x)'
      BY <3>1, <3>3, NullApart DEF SlotOK, OnFiles, OnPictures, WorksOn, Keys
    <3> QED BY <3>1, <3>2, <3>3, <3>4, <3>5, <3>6, IdleOK DEF PictureStep, OnPictures
  <2>2. ASSUME UploadPicture(r) PROVE PictureStep(r)
    <3>1. /\ req[r].pc = "uploadPicture" /\ req[r].on \in Holders /\ req[r].name \in Names
          /\ picture' = picture /\ pictures' = pictures \cup {KeyOn(r)} /\ Goto(r, "savePicture")
      BY <1>1, <2>2 DEF UploadPicture, SlotsOK, SlotOK, OnPictures, tables
    <3>2. /\ req' \in [Requests -> Request] /\ \A s \in Requests : s # r => req'[s] = req[s]
          /\ req'[r].pc = "savePicture" /\ req'[r].on = req[r].on /\ req'[r].name = req[r].name
      BY <1>1, <3>1, Continues DEF Labels
    <3>3. TypeOK'
      BY <1>1, <3>1, <3>2 DEF TypeOK, KeyOn
    <3>4. PicturesOK'
      BY <1>1, <3>1, <3>2 DEF PicturesOK, PicturesStored, KeyOn
    <3>5. SlotOK(r)' /\ \A x \in Keys : ~ WorksOn(r, x)'
      BY <3>1, <3>2, NullApart DEF SlotOK, OnFiles, OnPictures, WorksOn, Keys
    <3> QED BY <3>1, <3>2, <3>3, <3>4, <3>5 DEF PictureStep, OnPictures
  <2>3. ASSUME SavePicture(r) PROVE PictureStep(r)
    <3>1. /\ req[r].pc = "savePicture" /\ req[r].on \in Holders /\ req[r].name \in Names
          /\ pictures' = pictures /\ Finish(r) /\ KeyOn(r) \in pictures
          /\ picture' = IF req[r].on \in holders /\ req[r].was # req[r].name
                    THEN [picture EXCEPT ![req[r].on] = req[r].name] ELSE picture
      BY <1>1, <2>3 DEF SavePicture, SlotsOK, SlotOK, OnPictures, store, PicturesOK
    <3>2. /\ req' \in [Requests -> Request] /\ req'[r] = Idle
          /\ \A s \in Requests : s # r => req'[s] = req[s]
          /\ SlotOK(r)'
      BY <1>1, <3>1, Ends
    <3>3. TypeOK'
      BY <1>1, <3>1, <3>2 DEF TypeOK
    <3>4. PicturesOK'
      <4>1. \A h \in holders : h \in Holders
        BY <1>1 DEF TypeOK
      <4>2. \A h \in Holders : \/ picture'[h] = picture[h]
                               \/ h \in holders /\ <<h, picture'[h]>> = KeyOn(r)
        BY <1>1, <3>1 DEF TypeOK, KeyOn
      <4>3. PicturesStored'
        BY <1>1, <3>1, <4>1, <4>2 DEF PicturesOK, PicturesStored
      <4>4. \A h \in Holders \ holders : picture'[h] = NULL
        BY <1>1, <4>2 DEF PicturesOK
      <4>5. \A s \in Requests : req'[s].pc = "savePicture" => KeyOn(s)' \in pictures
        BY <1>1, <3>2, IdleOK DEF PicturesOK, KeyOn
      <4> QED BY <1>1, <3>1, <4>3, <4>4, <4>5 DEF PicturesOK
    <3>5. \A x \in Keys : ~ WorksOn(r, x)'
      BY <3>2, IdleOK, NullApart DEF WorksOn, Keys
    <3> QED BY <3>1, <3>2, <3>3, <3>4, <3>5, IdleOK DEF PictureStep, OnPictures
  <2> QED BY <2>1, <2>2, <2>3 DEF Pictures
<1>3. req[r].pc \notin OnFiles /\ req'[r].pc \notin OnFiles /\ req'[r].pc \notin Sending
  BY <1>2 DEF PictureStep, OnFiles, OnPictures, Sending
<1>4. SlotsOK' /\ RowsOK' /\ FilesOK'
  BY <1>1, <1>2, <1>3, ApartKeeps DEF PictureStep
<1>5. FilesSent'
  <2>1. \A a \in Attachments : Stored(a) => Stored(a)' /\ KeyOf(a)' = KeyOf(a)
    BY <1>1 DEF Stored, KeyOf
  <2> QED BY <1>1, <1>2, <1>3, <2>1, SentSame DEF PictureStep
<1> QED BY <1>2, <1>4, <1>5 DEF Inv, PictureStep

LEMMA FailKeeps ==
    ASSUME Inv, NEW r \in Requests, Fail(r)
    PROVE  Inv'
<1>1. /\ TypeOK /\ SlotsOK /\ PicturesOK /\ FilesSent /\ Finish(r)
      /\ contended \subseteq contended' /\ contended' \subseteq Keys
      /\ UNCHANGED <<messages, rows, holders, picture, file, pictures, announced, asked>>
  BY DEF Inv, Fail, tables, store, TypeOK
<1>2. /\ req' \in [Requests -> Request] /\ req'[r] = Idle
      /\ \A s \in Requests : s # r => req'[s] = req[s]
      /\ SlotOK(r)'
  BY <1>1, Ends
<1>3. /\ \A x \in Keys : ~ WorksOn(r, x)'
      /\ req'[r].pc \notin OnFiles \cup OnPictures \cup Sending
  BY <1>2, IdleOK, NullApart DEF WorksOn, Keys, OnFiles, OnPictures, Sending
<1>4. CASE req[r].pc \in OnFiles
  <2>1. PICK k \in Keys : k = KeyOn(r)
    BY <1>1, <1>4, KeyOnTyped
  <2>2. k \in contended' /\ \A x \in Keys : WorksOn(r, x) <=> x = k
    BY <1>1, <1>4, <2>1, KeyOnTyped DEF Fail
  <2>3. Works(r)' /\ file' \in [Keys -> Types \cup {NULL}]
    BY <1>1, <1>3 DEF Works, TypeOK
  <2>4. req'[r].pc \notin OnFiles /\ req'[r].pc \notin OnPictures /\ req'[r].pc \notin Sending
    BY <1>3
  <2>5. req'[r].pc \notin {"saveType", "deleteFile", "deleteRow"}
    BY <2>4 DEF OnFiles
  <2> QED BY <1>1, <1>2, <1>3, <2>2, <2>3, <2>4, <2>5, StepKeeps
<1>5. CASE req[r].pc \notin OnFiles
  <2>1. TypeOK'
    BY <1>1, <1>2 DEF TypeOK
  <2>2. PicturesOK'
    BY <1>1, <1>2, IdleOK, PicturesKept
  <2>3. SlotsOK' /\ RowsOK' /\ FilesOK'
    BY <1>1, <1>2, <1>3, <1>5, ApartKeeps
  <2>4. FilesSent'
    <3>1. \A a \in Attachments : Stored(a) => Stored(a)' /\ KeyOf(a)' = KeyOf(a)
      BY <1>1 DEF Stored, KeyOf
    <3> QED BY <1>1, <1>2, <1>3, <3>1, SentSame
  <2> QED BY <2>1, <2>2, <2>3, <2>4 DEF Inv
<1> QED BY <1>4, <1>5

\* With a message go its attachments, and all that was known of its keys.
LEMMA DeleteMessageKeeps ==
    ASSUME Inv, NEW m \in Messages, DeleteMessage(m)
    PROVE  Inv'
<1>1. /\ TypeOK /\ SlotsOK /\ RowsOK /\ PicturesOK /\ FilesSent /\ FilesOK
      /\ messages' = messages \ {m} /\ announced' = announced \ {m}
      /\ asked' = [asked EXCEPT ![m] = {}]
      /\ contended' = {k \in contended : k[1] # m}
      /\ rows' = [a \in Attachments |-> IF Stored(a) /\ rows[a].msg = m THEN NULL ELSE rows[a]]
      /\ UNCHANGED <<holders, picture, file, pictures, req>>
  BY DEF Inv, DeleteMessage, store
<1>2. \A a \in Attachments : Stored(a)' =>
          Stored(a) /\ rows'[a] = rows[a] /\ rows[a].msg # m /\ KeyOf(a)' = KeyOf(a)
  BY <1>1 DEF Stored, KeyOf
<1>3. \A a \in Attachments : Stored(a) /\ rows[a].msg # m =>
          Stored(a)' /\ rows'[a] = rows[a] /\ KeyOf(a)' = KeyOf(a)
  BY <1>1 DEF Stored, KeyOf
<1>4. TypeOK'
  BY <1>1 DEF TypeOK
<1>5. SlotsOK'
  BY <1>1 DEF SlotsOK, SlotOK
<1>6. RowsOK'
  <2>1. \A a \in Attachments : Stored(a)' => rows'[a].msg \in messages'
    BY <1>1, <1>2 DEF RowsOK
  <2>2. ASSUME NEW r \in Requests PROVE RowOK(r)'
    <3>1. req[r].pc \in {"saveType", "deleteFile", "deleteRow"} => req[r].row \in Attachments
      BY <1>1 DEF SlotsOK, SlotOK
    <3> QED BY <1>1, <1>2, <3>1 DEF RowsOK, RowOK, Stored, KeyOf, KeyOn
  <2> QED BY <2>1, <2>2 DEF RowsOK
<1>7. PicturesOK'
  BY <1>1 DEF PicturesOK, PicturesStored, KeyOn
<1>8. FilesSent'
  <2>1. ASSUME NEW x, NEW n, x # m, HasRow(x, n) PROVE HasRow(x, n)'
    <3>1. PICK a \in Attachments : Stored(a) /\ KeyOf(a) = <<x, n>>
      BY <2>1 DEF HasRow
    <3>2. rows[a].msg # m
      BY <2>1, <3>1 DEF KeyOf
    <3> QED BY <1>3, <3>1, <3>2 DEF HasRow
  <2>2. \A x \in Messages : x # m => asked'[x] = asked[x]
    BY <1>1 DEF TypeOK
  <2>3. announced' \subseteq messages' /\ announced' \subseteq Messages
    BY <1>1 DEF FilesSent, TypeOK
  <2>4. \A x \in announced' : \A n \in asked'[x] : HasRow(x, n)'
    BY <1>1, <2>1, <2>2, <2>3 DEF FilesSent
  <2>5. ASSUME NEW r \in Requests PROVE Sends(r)'
    <3> SUFFICES ASSUME NEW x \in messages, x # m, x = req[r].on, req[r].pc \in Sending,
                        NEW n \in asked'[x],
                        ~ (req[r].pc # "announce" /\ (n = req[r].name \/ Among(n, req[r].todo)))
                 PROVE  HasRow(x, n)'
      BY <1>1 DEF Sends, HasRow, Among
    <3>1. x \in Messages /\ n \in asked[x]
      BY <1>1, <2>2 DEF TypeOK
    <3>2. HasRow(x, n)
      BY <1>1, <3>1 DEF FilesSent, Sends
    <3> QED BY <2>1, <3>2
  <2> QED BY <2>3, <2>4, <2>5 DEF FilesSent
<1>9. Unique'
  <2> SUFFICES ASSUME NEW a \in Attachments, NEW b \in Attachments, a # b,
                      Stored(a)', Stored(b)', KeyOf(a)' = KeyOf(b)'
               PROVE  KeyOf(a)' \in contended'
    BY DEF Unique
  <2>1. Stored(a) /\ Stored(b) /\ KeyOf(a) = KeyOf(b) /\ KeyOf(a)' = KeyOf(a) /\ KeyOf(a)[1] # m
    BY <1>1, <1>2, KeysTyped
  <2> QED BY <1>1, <2>1 DEF FilesOK, Unique
<1>10. Alone'
  BY <1>1 DEF FilesOK, Alone, WorksOn
<1>11. Described'
  <2> SUFFICES ASSUME NEW a \in Attachments, Stored(a)', KeyOf(a)' \notin contended',
                      \A s \in Requests : WorksOn(s, KeyOf(a))' => req[s].pc \in Untouched
               PROVE  file[KeyOf(a)'] = rows'[a].type
    BY <1>1 DEF Described
  <2>1. /\ Stored(a) /\ KeyOf(a)' = KeyOf(a) /\ KeyOf(a)[1] # m /\ KeyOf(a) \in Keys
        /\ rows'[a] = rows[a]
    BY <1>1, <1>2, KeysTyped
  <2>2. KeyOf(a) \notin contended /\ \A s \in Requests : WorksOn(s, KeyOf(a)) => req[s].pc \in Untouched
    BY <1>1, <2>1 DEF WorksOn
  <2> QED BY <1>1, <2>1, <2>2 DEF FilesOK, Described
<1>12. ASSUME NEW r \in Requests PROVE Works(r)'
  <2> SUFFICES ASSUME req[r].pc \in OnFiles, req[r].on \in messages, req[r].on # m,
                      KeyOn(r) \notin contended'
               PROVE  /\ req[r].pc \in {"insert", "findByName", "saveType"} =>
                            file[KeyOn(r)] = req[r].type
                      /\ req[r].pc \in {"saveType", "deleteFile", "deleteRow"} => Stored(req[r].row)'
                      /\ req[r].pc = "saveType" => req[r].was = rows'[req[r].row].type
    BY <1>1 DEF Works, KeyOn, Stored
  <2>1. Works(r) /\ KeyOn(r) \notin contended
    BY <1>1, KeyOnTyped DEF FilesOK
  <2>2. req[r].pc \in {"saveType", "deleteFile", "deleteRow"} =>
            req[r].row \in Attachments /\ Stored(req[r].row) /\ rows[req[r].row].msg # m
    <3>1. RowOK(r) /\ SlotOK(r)
      BY <1>1 DEF RowsOK, SlotsOK
    <3> QED BY <2>1, <3>1 DEF Works, RowOK, SlotOK, KeyOf, KeyOn
  <2>3. req[r].pc \in {"saveType", "deleteFile", "deleteRow"} =>
            rows'[req[r].row] = rows[req[r].row] /\ rows'[req[r].row] # NULL
    BY <1>1, <2>2 DEF Stored
  <2> QED BY <1>1, <2>1, <2>2, <2>3 DEF Works, Stored
<1> QED BY <1>4, <1>5, <1>6, <1>7, <1>8, <1>9, <1>10, <1>11, <1>12 DEF Inv, FilesOK

LEMMA HoldersKeep ==
    ASSUME Inv, NEW h \in Holders, NewHolder(h) \/ DeleteHolder(h)
    PROVE  Inv'
<1>1. /\ TypeOK /\ PicturesOK
      /\ UNCHANGED <<messages, rows, file, pictures, req, asked, announced, contended>>
      /\ holders' \subseteq Holders /\ picture' \in [Holders -> Names \cup {NULL}]
  BY DEF Inv, NewHolder, DeleteHolder, store, past, TypeOK
<1>2. TypeOK'
  BY <1>1 DEF TypeOK
<1>3. PicturesOK'
  <2>1. \A x \in Holders : \/ picture'[x] = picture[x] /\ (x \in holders' <=> x \in holders)
                           \/ picture'[x] = NULL
    BY <1>1 DEF NewHolder, DeleteHolder, TypeOK, PicturesOK
  <2> QED BY <1>1, <2>1 DEF PicturesOK, PicturesStored, KeyOn
<1>4. SlotsOK' /\ RowsOK' /\ FilesSent' /\ FilesOK'
  BY <1>1 DEF Inv, SlotsOK, SlotOK, RowsOK, RowOK, FilesSent, Sends, HasRow, FilesOK, Unique, Alone,
              Described, Works, KeyOn, KeyOf, Stored, WorksOn
<1> QED BY <1>2, <1>3, <1>4 DEF Inv

-----------------------------------------------------------------------------
(* The invariant, and what follows from it.                                *)

LEMMA InitInv == Init => Inv
<1> SUFFICES ASSUME Init PROVE Inv
  OBVIOUS
<1>1. TypeOK
  BY IdleOK DEF Init, TypeOK
<1>2. SlotsOK
  BY IdleOK DEF Init, SlotsOK, SlotOK, OnFiles, OnPictures
<1>3. RowsOK
  BY IdleOK DEF Init, RowsOK, RowOK, Stored
<1>4. PicturesOK
  BY IdleOK DEF Init, PicturesOK, PicturesStored
<1>5. FilesSent
  BY IdleOK DEF Init, FilesSent, Sends, Sending
<1>6. FilesOK
  BY IdleOK, NullApart DEF Init, FilesOK, Unique, Alone, Described, Works, Stored, WorksOn, Keys, OnFiles
<1> QED BY <1>1, <1>2, <1>3, <1>4, <1>5, <1>6 DEF Inv

LEMMA StepInv == Inv /\ [Next]_vars => Inv'
<1> SUFFICES ASSUME Inv, [Next]_vars PROVE Inv'
  OBVIOUS
<1>1. ASSUME NEW r \in Requests, Files(r) PROVE Inv'
  <2>1. CASE \E m \in Messages, names \in Lists : StartCreate(r, m, names)
    BY <2>1, CreateKeeps
  <2>2. CASE \E type \in Types : Upload(r, type) \/ UploadNew(r, type)
    BY <2>2, UploadKeeps
  <2>3. CASE \E a \in Attachments : Insert(r, a)
    BY <2>3, InsertKeeps
  <2>4. CASE \E a \in Attachments : StartDestroy(r, a) \/ \E n \in Names : StartUpdate(r, a, n)
    BY <2>4, StartsKeep
  <2>5. CASE FindMessage(r) \/ FindByName(r)
    BY <2>5, FindsKeep
  <2>6. CASE Announce(r)
    BY <2>6, AnnounceKeeps
  <2>7. CASE DeleteFile(r)
    BY <2>7, DeleteFileKeeps
  <2>8. CASE SaveType(r) \/ DeleteRow(r)
    BY <2>8, LastKeeps
  <2> QED BY <1>1, <2>1, <2>2, <2>3, <2>4, <2>5, <2>6, <2>7, <2>8 DEF Files
<1>2. ASSUME NEW r \in Requests, Pictures(r) \/ Fail(r) PROVE Inv'
  BY <1>2, PicturesKeep, FailKeeps
<1>3. ASSUME NEW m \in Messages, DeleteMessage(m) PROVE Inv'
  BY <1>3, DeleteMessageKeeps
<1>4. ASSUME NEW h \in Holders, NewHolder(h) \/ DeleteHolder(h) PROVE Inv'
  BY <1>4, HoldersKeep
<1>5. CASE UNCHANGED vars
  BY <1>5 DEF vars, tables, store, past, Inv, TypeOK, SlotsOK, SlotOK, RowsOK, RowOK, PicturesOK,
              PicturesStored, FilesSent, Sends, HasRow, FilesOK, Unique, Alone, Described, Works,
              KeyOn, KeyOf, Stored, WorksOn
<1> QED BY <1>1, <1>2, <1>3, <1>4, <1>5 DEF Next

LEMMA AlwaysInv == Spec => []Inv
BY InitInv, StepInv, PTL DEF Spec

\* The tables, the store and the locals of requests keep their types.
THEOREM StorageTyped == Spec => []TypeOK
<1>1. Inv => TypeOK
  BY DEF Inv
<1> QED BY <1>1, AlwaysInv, PTL

\* An attachment's file is there and is of the content type of its row, for keys
\* on which no two requests or attachments met and none failed.
THEOREM AlwaysDescribed == Spec => []DescribedAsStored
<1>1. Inv => DescribedAsStored
  BY DEF Inv, FilesOK, Described, DescribedAsStored, Quiet
<1> QED BY <1>1, AlwaysInv, PTL

\* A message is never broadcast before each of its files has a row.
THEOREM AlwaysAnnouncedComplete == Spec => []AnnouncedComplete
<1>1. Inv => AnnouncedComplete
  BY DEF Inv, FilesSent, HasRow, AnnouncedComplete
<1> QED BY <1>1, AlwaysInv, PTL

\* No row ever names a picture that is not in the store.
THEOREM PicturesAlwaysStored == Spec => []PicturesStored
<1>1. Inv => PicturesStored
  BY DEF Inv, PicturesOK
<1> QED BY <1>1, AlwaysInv, PTL
=============================================================================
