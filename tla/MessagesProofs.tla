--------------------------- MODULE MessagesProofs ---------------------------
(***************************************************************************)
(* What holds of messages and of their signals for any number of messages, *)
(* channels and concurrent requests, whether or not calls fail.            *)
(*                                                                         *)
(* The invariant follows a message from its insertion to the signal about  *)
(* it.  Of every message: its signals and the requests on it agree with    *)
(* its row on channel and parent, which never change (Places), and the id  *)
(* of a message about to be inserted is nobody else's (Fresh).  Of the     *)
(* messages that are not contended: one request at most works on them      *)
(* (Alone), and what it read is still what is stored, but for what it is   *)
(* about to write (Works).                                                 *)
(*                                                                         *)
(* What a request saves is what its client asked for (Asked).              *)
(*                                                                         *)
(* The module ends with the refinement of Feed, which needs besides that a *)
(* creation about to be broadcast is the first that is heard of a message  *)
(* (Unheard), and that of a message which is not contended it was heard    *)
(* before anything else is told (Announced).                               *)
(***************************************************************************)
EXTENDS Messages, TLAPS

SamePlace(row, other) == row.channel = other.channel /\ row.parent = other.parent

Fresh ==
    \A r \in Requests : req[r].pc = "insert" =>
        /\ req[r].new \notin Stored
        /\ req[r].new # req[r].id
        /\ \A q \in Requests :
             /\ q # r => req[r].new \notin Handled(q)
             /\ req[q].id # NULL => req[q].row.parent # req[r].new
             /\ req[q].pc = "signalCreate" => req[q].draft.parent # req[r].new
        /\ \A m \in MessageIds : signal[m] # NULL => signal[m].message.parent # req[r].new

Places ==
    /\ \A m \in Stored : signal[m] # NULL => SamePlace(signal[m].message, message[m])
    /\ \A r \in Requests :
         /\ req[r].id \in Stored => SamePlace(req[r].row, message[req[r].id])
         /\ req[r].pc = "signalCreate" /\ req[r].new \in Stored =>
              SamePlace(req[r].draft, message[req[r].new])
         /\ req[r].pc = "insert" /\ req[r].id # NULL =>
              req[r].draft.channel = req[r].row.channel /\ req[r].draft.parent = NULL

Alone ==
    \A m \in MessageIds \ contended : \A r, q \in Requests :
        m \in Handled(r) /\ m \in Handled(q) => r = q

\* What the request with the locals q may rely on about m.
WorkOK(q, m) ==
    /\ q.id = m => IF m \in Stored
         THEN /\ q.row.content = q.was.content => q.row.content = message[m].content
              /\ q.row.pinned = q.was.pinned => q.row.pinned = message[m].pinned
              /\ q.pc \in {"signalUpdate", "signalDelete", "deleteRow"} => q.row = q.was
         ELSE GoneAlong(q.row)
    /\ q.id = m /\ q.pc = "deleteRow" => signal[m] # NULL /\ signal[m].action = "delete"
    /\ q.new = m /\ q.pc = "signalCreate" =>
         IF m \in Stored THEN q.draft = message[m] ELSE GoneAlong(q.draft)

Works == \A r \in Requests : \A m \in MessageIds \ contended : WorkOK(req[r], m)

Inv == /\ TypeOK /\ RepliesStored /\ ShownAsStored /\ GoneIsSignalled
       /\ Fresh /\ Places /\ Alone /\ Works

-----------------------------------------------------------------------------
(* Constants, and the effect of a step on the slots.                       *)

LEMMA NullIsNothing ==
    NULL \notin Message /\ NULL \notin SignalMessage /\ NULL \notin MessageIds
    /\ NULL \notin ChannelIds
BY MessagesAssumption

LEMMA IdleOK ==
    Idle \in Request /\ Idle.pc = "idle" /\ Idle.new = NULL /\ Idle.id = NULL
BY DEF Idle, Request, Labels

LEMMA IdleHandlesNothing ==
    ASSUME TypeOK, NEW r \in Requests, req[r].pc = "idle"
    PROVE  \A m : m \notin Handled(r)
BY IdleOK DEF TypeOK, Handled

\* The request r moves to the locals x, the others keep theirs.
LEMMA Move ==
    ASSUME TypeOK, NEW r \in Requests, NEW x, req' = [req EXCEPT ![r] = x]
    PROVE  /\ req'[r] = x
           /\ \A m : m \in Handled(r)' <=> m # NULL /\ (m = x.new \/ m = x.id)
           /\ \A q \in Requests : q # r => req'[q] = req[q] /\ Handled(q)' = Handled(q)
BY DEF TypeOK, Handled

\* The end of a request, when no row and no signal changes, and the stored
\* messages it leaves are contended.
LEMMA FinishKeeps ==
    ASSUME Inv, NEW r \in Requests, Finish(r), UNCHANGED <<channels, message, signal>>,
           contended \subseteq contended', contended' \subseteq MessageIds,
           unannounced' \subseteq MessageIds,
           Handled(r) \cap Stored \subseteq contended'
    PROVE  Inv'
<1>1. /\ req'[r] = Idle
      /\ \A m : m \notin Handled(r)'
      /\ \A q \in Requests : q # r => req'[q] = req[q] /\ Handled(q)' = Handled(q)
    BY Move, IdleOK DEF Inv, Finish
<1>2. Stored' = Stored /\ \A row : GoneAlong(row)' = GoneAlong(row)
    BY DEF Stored, GoneAlong
<1>3. TypeOK'
    BY <1>1, IdleOK DEF Inv, TypeOK, Finish, Creating
<1>4. RepliesStored'
    BY <1>2 DEF Inv, RepliesStored
<1>5. ShownAsStored'
    BY <1>1, <1>2 DEF Inv, ShownAsStored, Quiet
<1>6. GoneIsSignalled'
    BY <1>2 DEF Inv, GoneIsSignalled
<1>7. Fresh'
    BY <1>1, <1>2, IdleOK DEF Inv, Fresh
<1>8. Places'
    BY <1>1, <1>2, IdleOK, NullIsNothing DEF Inv, Places, Stored
<1>9. Alone'
    BY <1>1 DEF Inv, Alone
<1>10. Works'
    <2> SUFFICES ASSUME NEW q \in Requests, NEW m \in MessageIds \ contended'
                 PROVE  WorkOK(req[q], m)'
        BY DEF Works
    <2>1. CASE q = r
        BY <1>1, <2>1, IdleOK, NullIsNothing DEF WorkOK
    <2>2. CASE q # r
        <3>1. WorkOK(req[q], m)
            BY DEF Inv, Works
        <3> QED
            BY <1>1, <1>2, <2>2, <3>1 DEF WorkOK
    <2> QED
        BY <2>1, <2>2
<1> QED
    BY <1>3, <1>4, <1>5, <1>6, <1>7, <1>8, <1>9, <1>10 DEF Inv

\* A request starts to work on m, with its row as it is read, merged with what
\* is dirty; a pin also brings a new id.
LEMMA StartKeeps ==
    ASSUME Inv, NEW r \in Requests, NEW m \in MessageIds, NEW x \in Request,
           StartOn(r, m, x),
           x.id = m, x.row # NULL, SamePlace(x.row, message[m]), x.was = message[m],
           x.pc = "signalDelete" => x.row = x.was,
           x.pc \in {"save", "signalDelete", "insert"},
           x.pc # "insert" => x.new = NULL,
           x.pc = "insert" =>
             /\ x.new \in MessageIds /\ NewId(x.new) /\ x.draft # NULL
             /\ x.draft.channel = x.row.channel /\ x.draft.parent = NULL
    PROVE  Inv'
<1>1. /\ req'[r] = x
      /\ \A n : n \in Handled(r)' <=> n # NULL /\ (n = x.new \/ n = m)
      /\ \A q \in Requests : q # r => req'[q] = req[q] /\ Handled(q)' = Handled(q)
    <2>1. TypeOK /\ req' = [req EXCEPT ![r] = x]
        BY DEF Inv, StartOn
    <2>2. \A n : n \in Handled(r)' <=> n # NULL /\ (n = x.new \/ n = x.id)
        BY <2>1, Move
    <2>3. req'[r] = x
          /\ \A q \in Requests : q # r => req'[q] = req[q] /\ Handled(q)' = Handled(q)
        BY <2>1, Move
    <2> QED
        BY <2>2, <2>3
<1>2. /\ UNCHANGED <<channels, message, signal, unannounced>>
      /\ Stored' = Stored /\ \A row : GoneAlong(row)' = GoneAlong(row)
    BY DEF StartOn, Stored, GoneAlong
<1>3. /\ m \in Stored
      /\ req[r].pc = "idle"
      /\ m \notin contended' => \A q \in Requests : m \notin Handled(q)
      /\ contended \ {m} \subseteq contended'
      /\ contended' \subseteq contended \cup {m}
    BY DEF StartOn, Quiet
<1>4. TypeOK'
    <2>1. req' \in [Requests -> Request] /\ contended' \subseteq MessageIds
        BY DEF Inv, TypeOK, StartOn
    <2>2. /\ x.pc # "idle"
          /\ Creating(x) <=> x.new # NULL
          /\ x.new # NULL => x.draft # NULL
          /\ x.id # NULL /\ x.row # NULL /\ x.was # NULL
        BY <1>3, NullIsNothing DEF Creating, Stored
    <2> QED
        BY <1>1, <1>2, <2>1, <2>2 DEF Inv, TypeOK, Creating
<1>5. RepliesStored'
    BY <1>2 DEF Inv, RepliesStored
<1>6. ShownAsStored'
    <2> SUFFICES ASSUME NEW n \in Stored' \ contended', Quiet(n)'
                 PROVE  n \notin contended /\ Quiet(n)
        BY <1>2 DEF Inv, ShownAsStored
    <2>1. n # m /\ n \notin contended
        BY <1>1, <1>3, NullIsNothing DEF Quiet
    <2>2. n \notin Handled(r)
        BY <1>3, IdleHandlesNothing DEF Inv
    <2> QED
        BY <1>1, <2>1, <2>2 DEF Quiet
<1>7. GoneIsSignalled'
    BY <1>2, <1>3 DEF Inv, GoneIsSignalled
<1>8. Fresh'
    <2> SUFFICES ASSUME NEW p \in Requests, req'[p].pc = "insert"
                 PROVE  /\ req'[p].new \notin Stored
                        /\ req'[p].new # req'[p].id
                        /\ \A q \in Requests :
                             /\ q # p => req'[p].new \notin Handled(q)'
                             /\ req'[q].id # NULL => req'[q].row.parent # req'[p].new
                             /\ req'[q].pc = "signalCreate" =>
                                  req'[q].draft.parent # req'[p].new
                        /\ \A n \in MessageIds :
                             signal[n] # NULL => signal[n].message.parent # req'[p].new
        BY <1>2 DEF Fresh
    <2>1. CASE p = r
        <3>1. NewId(x.new) /\ x.new # m
            BY <1>1, <1>3, <2>1 DEF NewId
        <3>2. x.row.parent # x.new
            BY <1>3, <2>1, <1>1, <3>1, NullIsNothing
               DEF Inv, RepliesStored, SamePlace, NewId
        <3>3. ASSUME NEW q \in Requests, q # r
              PROVE  /\ x.new \notin Handled(q)
                     /\ req[q].id # NULL => req[q].row.parent # x.new
                     /\ req[q].pc = "signalCreate" => req[q].draft.parent # x.new
            BY <3>1 DEF NewId, Quiet, Inv, TypeOK, Creating
        <3> QED
            BY <1>1, <2>1, <3>1, <3>2, <3>3 DEF NewId
    <2>2. CASE p # r
        <3>1. req'[p] = req[p] /\ req[p].new \notin Stored
            BY <1>1, <2>2 DEF Inv, Fresh
        <3>2. req[p].new \in Handled(p)
            BY <3>1 DEF Inv, TypeOK, Creating, Handled
        <3>3. req[p].new \notin Handled(r)'
            BY <1>1, <1>3, <3>1, <3>2 DEF NewId, Quiet
        <3>4. x.row.parent # req[p].new
            BY <1>3, <3>1, <3>2 DEF Inv, RepliesStored, SamePlace, Handled
        <3> QED
            BY <1>1, <2>2, <3>1, <3>3, <3>4 DEF Inv, Fresh
    <2> QED
        BY <2>1, <2>2
<1>9. Places'
    BY <1>1, <1>2, <1>3 DEF Inv, Places
<1>10. Alone'
    <2>1. \A n, q : q \in Requests /\ n # m /\ n \in Handled(r)' => n \notin Handled(q)
        BY <1>1, <1>3 DEF NewId, Quiet
    <2>2. \A q \in Requests : m \notin contended' => m \notin Handled(q)
        BY <1>3 DEF Quiet
    <2> QED
        BY <1>1, <1>3, <2>1, <2>2 DEF Inv, Alone
<1>11. Works'
    <2> SUFFICES ASSUME NEW q \in Requests, NEW n \in MessageIds \ contended'
                 PROVE  WorkOK(req[q], n)'
        BY DEF Works
    <2>1. CASE q = r
        BY <1>1, <1>2, <1>3, <2>1 DEF WorkOK
    <2>2. CASE q # r
        <3>1. n # m => n \notin contended
            BY <1>3
        <3>2. n = m => n \notin Handled(q)
            BY <1>3
        <3>3. n = m => req[q].id # n /\ req[q].new # n
            BY <3>2, NullIsNothing DEF Handled
        <3> QED
            BY <1>1, <1>2, <2>2, <3>1, <3>3 DEF Inv, Works, WorkOK
    <2> QED
        BY <2>1, <2>2
<1> QED
    BY <1>4, <1>5, <1>6, <1>7, <1>8, <1>9, <1>10, <1>11 DEF Inv

LEMMA StartEditKeeps ==
    ASSUME Inv, NEW r \in Requests, NEW m \in MessageIds, NEW content \in NewContents,
           NEW pinned \in NewPinned, StartEdit(r, m, content, pinned)
    PROVE  Inv'
<1> DEFINE row == [message[m] EXCEPT !.content = content,
                                     !.pinned = IF pinned = NULL THEN @ ELSE pinned]
           x == [Idle EXCEPT !.pc = "save", !.id = m, !.row = row,
                             !.was = message[m],
                             !.asked = {c \in Columns : row[c] # message[m][c]}]
<1>1. StartOn(r, m, x)
    BY DEF StartEdit
<1>2. message[m] \in Message
    BY <1>1 DEF Inv, TypeOK, StartOn, Stored
<1>3. content \in Contents /\ (pinned # NULL => pinned \in BOOLEAN)
    BY MessagesAssumption
<1>4. row \in Message
    BY <1>2, <1>3 DEF Message
<1>5. /\ x.pc = "save" /\ x.id = m /\ x.row = row /\ x.new = NULL
      /\ x.was = message[m]
    BY DEF Idle
<1>6. x \in Request
    BY <1>2, <1>4 DEF Request, Idle, Labels, Columns
<1>7. SamePlace(row, message[m])
    BY <1>2 DEF SamePlace, Message
<1> HIDE DEF row, x
<1> QED
    BY <1>1, <1>4, <1>5, <1>6, <1>7, NullIsNothing, StartKeeps

LEMMA StartDestroyKeeps ==
    ASSUME Inv, NEW r \in Requests, NEW m \in MessageIds, StartDestroy(r, m)
    PROVE  Inv'
<1> DEFINE x == [Idle EXCEPT !.pc = "signalDelete", !.id = m, !.row = message[m],
                             !.was = message[m]]
<1>1. StartOn(r, m, x)
    BY DEF StartDestroy
<1>2. message[m] \in Message
    BY <1>1 DEF Inv, TypeOK, StartOn, Stored
<1>3. /\ x.pc = "signalDelete" /\ x.id = m /\ x.row = message[m] /\ x.new = NULL
      /\ x.was = message[m]
    BY DEF Idle
<1>4. x \in Request
    BY <1>2 DEF Request, Idle, Labels
<1>5. SamePlace(message[m], message[m])
    BY DEF SamePlace
<1> HIDE DEF x
<1> QED
    BY <1>1, <1>2, <1>3, <1>4, <1>5, NullIsNothing, StartKeeps

LEMMA StartPinKeeps ==
    ASSUME Inv, NEW r \in Requests, NEW m \in MessageIds, NEW a \in MessageIds,
           StartPin(r, m, a)
    PROVE  Inv'
<1> DEFINE x == [pc |-> "insert", new |-> a, id |-> m, asked |-> {"pinned"},
                 draft |-> [content |-> Announcement, pinned |-> FALSE,
                            channel |-> message[m].channel, parent |-> NULL],
                 row |-> [message[m] EXCEPT !.pinned = ~@], was |-> message[m]]
<1>1. StartOn(r, m, x) /\ NewId(a)
    BY DEF StartPin
<1>2. message[m] \in Message
    BY <1>1 DEF Inv, TypeOK, StartOn, Stored
<1>3. x.row \in Message /\ x.draft \in Message
    BY <1>2, MessagesAssumption DEF Message
<1>4. x.pc = "insert" /\ x.id = m /\ x.new = a /\ x.was = message[m]
    BY <1>2 DEF Message
<1>5. x \in Request
    BY <1>2, <1>3 DEF Request, Labels, Columns
<1>6. /\ SamePlace(x.row, message[m])
      /\ x.draft.channel = x.row.channel
      /\ x.draft.parent = NULL
    BY <1>2 DEF SamePlace, Message
<1> HIDE DEF x
<1> QED
    BY <1>1, <1>3, <1>4, <1>5, <1>6, NullIsNothing, StartKeeps

\* The request of a creation only knows its new id, which nothing else knows.
LEMMA StartCreateKeeps ==
    ASSUME Inv, NEW r \in Requests, NEW m \in MessageIds, NEW row \in Message,
           StartCreate(r, m, row)
    PROVE  Inv'
<1> DEFINE x == [Idle EXCEPT !.pc = "insert", !.new = m, !.draft = row]
<1>1. /\ req' = [req EXCEPT ![r] = x]
      /\ req[r].pc = "idle" /\ NewId(m) /\ row.parent # m
      /\ UNCHANGED <<channels, message, signal, contended, unannounced>>
    BY DEF StartCreate
<1>2. x.pc = "insert" /\ x.new = m /\ x.draft = row /\ x.id = NULL /\ x.row = NULL
      /\ x.was = NULL
    BY DEF Idle
<1>3. x \in Request
    BY DEF Request, Idle, Labels
<1> HIDE DEF x
<1>4. /\ req'[r] = x
      /\ \A n : n \in Handled(r)' <=> n = m
      /\ \A q \in Requests : q # r => req'[q] = req[q] /\ Handled(q)' = Handled(q)
    <2>1. \A n : n \in Handled(r)' <=> n # NULL /\ (n = x.new \/ n = x.id)
        BY <1>1, Move DEF Inv
    <2>2. req'[r] = x
          /\ \A q \in Requests : q # r => req'[q] = req[q] /\ Handled(q)' = Handled(q)
        BY <1>1, Move DEF Inv
    <2> QED
        BY <1>2, <2>1, <2>2, NullIsNothing
<1>5. Stored' = Stored /\ \A other : GoneAlong(other)' = GoneAlong(other)
    BY <1>1 DEF Stored, GoneAlong
<1>6. m \notin Stored /\ \A q \in Requests : m \notin Handled(q)
    BY <1>1 DEF NewId, Quiet
<1>7. TypeOK'
    <2>1. req' \in [Requests -> Request]
        BY <1>1, <1>3 DEF Inv, TypeOK
    <2> QED
        BY <1>1, <1>2, <1>4, <2>1, NullIsNothing DEF Inv, TypeOK, Creating
<1>8. RepliesStored'
    BY <1>1, <1>5 DEF Inv, RepliesStored
<1>9. ShownAsStored'
    <2> SUFFICES ASSUME NEW n \in Stored \ contended, Quiet(n)'
                 PROVE  Quiet(n)
        BY <1>1, <1>5 DEF Inv, ShownAsStored
    <2>1. n \notin Handled(r)
        BY <1>1, IdleHandlesNothing DEF Inv
    <2> QED
        BY <1>4, <2>1 DEF Quiet
<1>10. GoneIsSignalled'
    BY <1>1, <1>5 DEF Inv, GoneIsSignalled
<1>11. Fresh'
    <2> SUFFICES ASSUME NEW p \in Requests, req'[p].pc = "insert"
                 PROVE  /\ req'[p].new \notin Stored
                        /\ req'[p].new # req'[p].id
                        /\ \A q \in Requests :
                             /\ q # p => req'[p].new \notin Handled(q)'
                             /\ req'[q].id # NULL => req'[q].row.parent # req'[p].new
                             /\ req'[q].pc = "signalCreate" =>
                                  req'[q].draft.parent # req'[p].new
                        /\ \A n \in MessageIds :
                             signal[n] # NULL => signal[n].message.parent # req'[p].new
        BY <1>1, <1>5 DEF Fresh
    <2>1. CASE p = r
        <3>1. ASSUME NEW q \in Requests, q # r
              PROVE  /\ req[q].id # NULL => req[q].row.parent # m
                     /\ req[q].pc = "signalCreate" => req[q].draft.parent # m
            BY <1>1 DEF NewId, Inv, TypeOK, Creating
        <3> QED
            BY <1>1, <1>2, <1>4, <1>6, <2>1, <3>1, NullIsNothing DEF NewId
    <2>2. CASE p # r
        <3>1. req'[p] = req[p] /\ req[p].new \in Handled(p)
            BY <1>4, <2>2 DEF Inv, TypeOK, Creating, Handled
        <3>2. req[p].new # m
            BY <1>6, <3>1
        <3> QED
            BY <1>2, <1>4, <2>2, <3>1, <3>2 DEF Inv, Fresh
    <2> QED
        BY <2>1, <2>2
<1>12. Places'
    BY <1>1, <1>2, <1>4, <1>5, <1>6, NullIsNothing DEF Inv, Places, Stored, TypeOK
<1>13. Alone'
    BY <1>1, <1>4, <1>6 DEF Inv, Alone
<1>14. Works'
    <2> SUFFICES ASSUME NEW q \in Requests, NEW n \in MessageIds \ contended
                 PROVE  WorkOK(req[q], n)'
        BY <1>1 DEF Works
    <2>1. CASE q = r
        BY <1>2, <1>4, <2>1, NullIsNothing DEF WorkOK
    <2>2. CASE q # r
        BY <1>1, <1>4, <1>5, <2>2 DEF Inv, Works, WorkOK
    <2> QED
        BY <2>1, <2>2
<1> QED
    BY <1>7, <1>8, <1>9, <1>10, <1>11, <1>12, <1>13, <1>14 DEF Inv

-----------------------------------------------------------------------------
LEMMA InsertKeeps ==
    ASSUME Inv, NEW r \in Requests, Insert(r)
    PROVE  Inv'
<1> DEFINE m == req[r].new
           row == req[r].draft
<1>1. /\ req[r] \in Request /\ req[r].pc = "insert"
      /\ m \in MessageIds /\ row \in Message
      /\ channels' = channels
    BY DEF Inv, TypeOK, Creating, Insert, Request
<1>2. /\ m \notin Stored /\ m # req[r].id
      /\ \A q \in Requests :
           /\ q # r => m \notin Handled(q)
           /\ req[q].id # NULL => req[q].row.parent # m
           /\ req[q].pc = "signalCreate" => req[q].draft.parent # m
      /\ \A n \in MessageIds : signal[n] # NULL => signal[n].message.parent # m
    BY <1>1 DEF Inv, Fresh
<1>3. m \in Handled(r)
    BY <1>1, NullIsNothing DEF Handled
<1>4. CASE ~(row.channel \in channels /\ row.parent \in Stored \cup {NULL})
    <2>1. Finish(r) /\ UNCHANGED <<channels, message, signal, contended, unannounced>>
        BY <1>1, <1>4 DEF Insert
    <2>2. ASSUME req[r].id \in Stored
          PROVE  FALSE
        <3>1. req[r].id # NULL
            BY <2>2, NullIsNothing DEF Stored
        <3>2. row.parent = NULL /\ row.channel = message[req[r].id].channel
            BY <1>1, <2>2, <3>1 DEF Inv, Places, SamePlace
        <3> QED
            BY <1>4, <2>2, <3>2 DEF Inv, RepliesStored
    <2>3. Handled(r) \cap Stored = {}
        BY <1>2, <2>2 DEF Handled
    <2>4. contended' \subseteq MessageIds /\ unannounced' \subseteq MessageIds
        BY <2>1 DEF Inv, TypeOK
    <2> QED
        BY <2>1, <2>3, <2>4, FinishKeeps
<1>5. CASE row.channel \in channels /\ row.parent \in Stored \cup {NULL}
    <2> DEFINE x == [req[r] EXCEPT !.pc = "signalCreate"]
    <2>1. /\ message' = [message EXCEPT ![m] = row]
          /\ signal' = [signal EXCEPT ![m] = NULL]
          /\ contended' = contended \ {m}
          /\ unannounced' = unannounced \ {m}
          /\ req' = [req EXCEPT ![r] = x]
        BY <1>1, <1>5 DEF Insert, Goto, Inv, TypeOK
    <2>2. /\ x \in Request /\ x.pc = "signalCreate"
          /\ x.new = m /\ x.draft = row /\ x.id = req[r].id /\ x.row = req[r].row
          /\ x.was = req[r].was
        BY <1>1 DEF Request, Labels
    <2> HIDE DEF x
    <2>3. /\ req'[r] = x
          /\ \A q \in Requests : q # r => req'[q] = req[q]
          /\ \A q \in Requests : /\ Handled(q)' = Handled(q)
                                 /\ req'[q].new = req[q].new /\ req'[q].id = req[q].id
                                 /\ req'[q].row = req[q].row
                                 /\ req'[q].draft = req[q].draft
                                 /\ req'[q].was = req[q].was
        <3>1. req'[r] = x /\ \A q \in Requests : q # r => req'[q] = req[q]
            BY <2>1 DEF Inv, TypeOK
        <3> QED
            BY <2>2, <3>1 DEF Handled
    <2>4. /\ Stored' = Stored \cup {m}
          /\ message'[m] = row
          /\ \A n \in MessageIds : n # m => message'[n] = message[n] /\ signal'[n] = signal[n]
          /\ signal'[m] = NULL
        BY <1>1, <2>1, NullIsNothing DEF Stored, Inv, TypeOK
    <2>5. \A other : other.parent # m /\ GoneAlong(other) => GoneAlong(other)'
        BY <1>1, <2>4 DEF GoneAlong
    <2>6. TypeOK'
        <3>1. /\ message' \in [MessageIds -> Message \cup {NULL}]
              /\ signal' \in [MessageIds -> SignalMessage \cup {NULL}]
              /\ req' \in [Requests -> Request]
              /\ contended' \subseteq MessageIds
              /\ unannounced' \subseteq MessageIds
            BY <1>1, <2>1, <2>2 DEF Inv, TypeOK
        <3> QED
            BY <1>1, <2>2, <2>3, <3>1, NullIsNothing DEF Inv, TypeOK, Creating
    <2>7. RepliesStored'
        BY <1>1, <1>2, <1>5, <2>4 DEF Inv, RepliesStored, Stored
    <2>8. ShownAsStored'
        BY <1>2, <1>3, <2>1, <2>3, <2>4 DEF Inv, ShownAsStored, Quiet, Stored
    <2>9. GoneIsSignalled'
        BY <1>2, <2>1, <2>4, <2>5 DEF Inv, GoneIsSignalled
    <2>10. Fresh'
        <3> SUFFICES ASSUME NEW p \in Requests, req'[p].pc = "insert"
                     PROVE  /\ req[p].new \notin Stored'
                            /\ req[p].new # req[p].id
                            /\ \A q \in Requests :
                                 /\ q # p => req[p].new \notin Handled(q)
                                 /\ req[q].id # NULL => req[q].row.parent # req[p].new
                                 /\ req'[q].pc = "signalCreate" =>
                                      req[q].draft.parent # req[p].new
                            /\ \A n \in MessageIds :
                                 signal'[n] # NULL => signal'[n].message.parent # req[p].new
            BY <2>3 DEF Fresh
        <3>1. p # r /\ req[p].pc = "insert"
            BY <2>2, <2>3
        <3>2. req[p].new \in Handled(p)
            BY <3>1 DEF Inv, TypeOK, Creating, Handled
        <3>3. req[p].new # m /\ req[p].new \notin Stored
            BY <1>2, <3>1, <3>2 DEF Inv, Fresh
        <3>4. req[p].new # NULL
            BY <3>2 DEF Handled
        <3>5. row.parent # req[p].new
            BY <1>5, <3>3, <3>4
        <3> QED
            BY <2>3, <2>4, <3>1, <3>3, <3>5 DEF Inv, Fresh
    <2>11. Places'
        <3>1. ASSUME NEW q \in Requests, req[q].id \in Stored'
              PROVE  req[q].id # m
            <4>1. req[q].id # NULL
                BY <3>1, NullIsNothing DEF Stored
            <4> QED
                BY <1>2, <4>1 DEF Handled
        <3>2. ASSUME NEW q \in Requests, q # r, req[q].new \in Stored'
              PROVE  req[q].new # m
            <4>1. req[q].new # NULL
                BY <3>2, NullIsNothing DEF Stored
            <4> QED
                BY <1>2, <3>2, <4>1 DEF Handled
        <3>3. SamePlace(row, row)
            BY DEF SamePlace
        <3> QED
            BY <2>2, <2>3, <2>4, <3>1, <3>2, <3>3 DEF Inv, Places, Stored
    <2>12. Alone'
        BY <1>2, <2>1, <2>3 DEF Inv, Alone
    <2>13. Works'
        <3> SUFFICES ASSUME NEW q \in Requests, NEW n \in MessageIds \ contended'
                     PROVE  WorkOK(req[q], n)'
            BY DEF Works
        <3>1. CASE n = m
            <4>1. req[q].id # n
                BY <1>2, <3>1, NullIsNothing DEF Handled
            <4>2. q # r => req[q].new # n
                BY <1>1, <1>2, <3>1, NullIsNothing DEF Handled
            <4> QED
                BY <2>2, <2>3, <2>4, <3>1, <4>1, <4>2 DEF WorkOK
        <3>2. CASE n # m
            <4>1. WorkOK(req[q], n)
                BY <2>1, <3>2 DEF Inv, Works
            <4>2. n \in Stored' <=> n \in Stored
                BY <2>4, <3>2
            <4>3. req[q].id = n /\ GoneAlong(req[q].row) => GoneAlong(req[q].row)'
                BY <1>2, <2>3, <2>5, NullIsNothing
            <4>4. req[q].pc = "signalCreate" /\ GoneAlong(req[q].draft)
                    => GoneAlong(req[q].draft)'
                BY <1>2, <2>3, <2>5
            <4> QED
                BY <1>1, <2>2, <2>3, <2>4, <3>2, <4>1, <4>2, <4>3, <4>4 DEF WorkOK
        <3> QED
            BY <3>1, <3>2
    <2> QED
        BY <2>6, <2>7, <2>8, <2>9, <2>10, <2>11, <2>12, <2>13 DEF Inv
<1> QED
    BY <1>4, <1>5

-----------------------------------------------------------------------------
\* A request goes on to the locals x, at most after a broadcast about m, one of
\* the messages it handles: what the broadcast must be, and what x may rely on.
LEMMA GoesOnKeeps ==
    ASSUME Inv, NEW r \in Requests, NEW x \in Request, req' = [req EXCEPT ![r] = x],
           UNCHANGED <<channels, message, contended>>, unannounced' \subseteq MessageIds,
           NEW m \in Handled(r), m \in MessageIds,
           signal' \in [MessageIds -> SignalMessage \cup {NULL}],
           \A n \in MessageIds : n # m => signal'[n] = signal[n],
           x.pc \notin {"insert", "signalCreate"}, x.new = NULL,
           x = Idle \/ /\ x.pc # "idle" /\ x.id = req[r].id /\ x.id # NULL
                       /\ x.row = req[r].row /\ x.was = req[r].was,
           x = Idle => Handled(r) = {m},
           Handled(r) \subseteq {m, x.id},
           signal'[m] # NULL => \A p \in Requests : req[p].pc = "insert" /\ p # r =>
                                   signal'[m].message.parent # req[p].new,
           m \in Stored /\ signal'[m] # NULL => SamePlace(signal'[m].message, message[m]),
           m \in Stored \ contended /\ m # x.id =>
             /\ signal'[m] # NULL /\ signal'[m].action # "delete"
             /\ signal'[m].message = message[m],
           m \notin Stored \cup contended /\ signal'[m] # NULL =>
             signal'[m].action = "delete" \/ GoneAlong(signal'[m].message),
           x # Idle /\ x.id \in MessageIds \ contended => WorkOK(x, x.id)'
    PROVE  Inv'
<1>1. /\ req'[r] = x
      /\ \A n : n \in Handled(r)' <=> n # NULL /\ n = x.id
      /\ \A q \in Requests : q # r => req'[q] = req[q] /\ Handled(q)' = Handled(q)
    <2>1. \A n : n \in Handled(r)' <=> n # NULL /\ (n = x.new \/ n = x.id)
        BY Move DEF Inv
    <2>2. req'[r] = x
          /\ \A q \in Requests : q # r => req'[q] = req[q] /\ Handled(q)' = Handled(q)
        BY Move DEF Inv
    <2> QED
        BY <2>1, <2>2
<1>2. Stored' = Stored /\ \A row : GoneAlong(row)' = GoneAlong(row)
    BY DEF Stored, GoneAlong
<1>3. x = Idle \/ (x.id = req[r].id /\ x.row = req[r].row /\ x.id # NULL)
    OBVIOUS
<1>4. \A n : n \in Handled(r)' => n \in Handled(r)
    BY <1>1, <1>3, IdleOK DEF Handled
<1>5. TypeOK'
    <2>1. req' \in [Requests -> Request]
        BY DEF Inv, TypeOK
    <2>2. /\ x.pc = "idle" => x = Idle
          /\ ~Creating(x)
          /\ x.pc # "idle" => x.id # NULL
          /\ x.id # NULL => x.row # NULL /\ x.was # NULL
        BY IdleOK DEF Creating, Inv, TypeOK
    <2> QED
        BY <1>1, <2>1, <2>2 DEF Inv, TypeOK, Creating
<1>6. RepliesStored'
    BY <1>2 DEF Inv, RepliesStored
<1>7. ShownAsStored'
    <2> SUFFICES ASSUME NEW n \in Stored \ contended, Quiet(n)'
                 PROVE  /\ signal'[n] # NULL
                        /\ signal'[n].action # "delete"
                        /\ signal'[n].message = message[n]
        BY <1>2 DEF ShownAsStored
    <2>1. CASE n = m
        BY <1>1, <2>1, NullIsNothing DEF Quiet
    <2>2. CASE n # m
        <3>1. n \in MessageIds /\ n # NULL
            BY NullIsNothing DEF Stored
        <3>2. n # x.id
            BY <1>1, <3>1 DEF Quiet
        <3>3. n \notin Handled(r)
            BY <2>2, <3>2
        <3>4. Quiet(n)
            BY <1>1, <3>3 DEF Quiet
        <3> QED
            BY <2>2, <3>1, <3>4 DEF Inv, ShownAsStored
    <2> QED
        BY <2>1, <2>2
<1>8. GoneIsSignalled'
    BY <1>2 DEF Inv, GoneIsSignalled
<1>9. Fresh'
    <2> SUFFICES ASSUME NEW p \in Requests, p # r, req[p].pc = "insert"
                 PROVE  /\ req[p].new \notin Stored
                        /\ req[p].new # req[p].id
                        /\ \A q \in Requests :
                             /\ q # p => req[p].new \notin Handled(q)'
                             /\ req'[q].id # NULL => req'[q].row.parent # req[p].new
                             /\ req'[q].pc = "signalCreate" =>
                                  req'[q].draft.parent # req[p].new
                        /\ \A n \in MessageIds :
                             signal'[n] # NULL => signal'[n].message.parent # req[p].new
        BY <1>1, <1>2 DEF Fresh
    <2>1. \A q \in Requests :
             /\ q # p => req[p].new \notin Handled(q)
             /\ req[q].id # NULL => req[q].row.parent # req[p].new
             /\ req[q].pc = "signalCreate" => req[q].draft.parent # req[p].new
        BY DEF Inv, Fresh
    <2>2. x.id # NULL => x.row.parent # req[p].new
        BY <1>3, <2>1, IdleOK
    <2> QED
        BY <1>1, <1>4, <2>1, <2>2 DEF Inv, Fresh
<1>10. Places'
    <2>1. x.id \in Stored => SamePlace(x.row, message[x.id])
        BY <1>3, IdleOK, NullIsNothing DEF Inv, Places, Stored
    <2> QED
        BY <1>1, <1>2, <2>1 DEF Inv, Places, Stored
<1>11. Alone'
    <2> SUFFICES ASSUME NEW n \in MessageIds \ contended, NEW p \in Requests,
                        NEW q \in Requests, n \in Handled(p)', n \in Handled(q)'
                 PROVE  p = q
        BY DEF Alone
    <2>1. n \in Handled(p) /\ n \in Handled(q)
        BY <1>1, <1>4
    <2> QED
        BY <2>1 DEF Inv, Alone
<1>12. Works'
    <2> SUFFICES ASSUME NEW q \in Requests, NEW n \in MessageIds \ contended
                 PROVE  WorkOK(req[q], n)'
        BY DEF Works
    <2>1. CASE q = r
        <3>1. CASE x.id = n
            <4>1. x # Idle
                BY <3>1, IdleOK, NullIsNothing
            <4>2. WorkOK(x, x.id)'
                BY <3>1, <4>1
            <4> QED
                BY <1>1, <2>1, <3>1, <4>2 DEF WorkOK
        <3>2. CASE x.id # n
            BY <1>1, <2>1, <3>2, NullIsNothing DEF WorkOK
        <3> QED
            BY <3>1, <3>2
    <2>2. CASE q # r
        <3>1. WorkOK(req[q], n)
            BY DEF Inv, Works
        <3>2. n = m => n \notin Handled(q)
            BY <2>2 DEF Inv, Alone
        <3>3. n = m => req[q].id # n
            BY <3>2, NullIsNothing DEF Handled
        <3> QED
            BY <1>1, <1>2, <2>2, <3>1, <3>3 DEF WorkOK
    <2> QED
        BY <2>1, <2>2
<1> QED
    BY <1>5, <1>6, <1>7, <1>8, <1>9, <1>10, <1>11, <1>12 DEF Inv

\* What Broadcast does to the types.
LEMMA BroadcastOK ==
    ASSUME TypeOK, NEW m \in MessageIds, NEW row \in Message,
           NEW action \in {"create", "update", "delete"}, Broadcast(m, action, row)
    PROVE  /\ signal' \in [MessageIds -> SignalMessage \cup {NULL}]
           /\ \A n \in MessageIds : n # m => signal'[n] = signal[n]
           /\ signal'[m] # NULL /\ signal'[m].action = action /\ signal'[m].message = row
           /\ unannounced' \subseteq MessageIds
<1>1. [action |-> action, message |-> row] \in SignalMessage
    BY DEF SignalMessage
<1>2. signal'[m] = [action |-> action, message |-> row]
    BY DEF TypeOK, Broadcast
<1> QED
    BY <1>1, <1>2, NullIsNothing DEF TypeOK, Broadcast

LEMMA SignalCreateKeeps ==
    ASSUME Inv, NEW r \in Requests, SignalCreate(r)
    PROVE  Inv'
<1>1. /\ req[r] \in Request /\ req[r].pc = "signalCreate"
      /\ req[r].new \in MessageIds /\ req[r].draft \in Message
      /\ UNCHANGED <<channels, message, contended>>
    BY DEF Inv, TypeOK, Creating, SignalCreate, Request
<1>2. PICK m \in MessageIds, row \in Message : m = req[r].new /\ row = req[r].draft
    BY <1>1
<1>3. /\ signal' \in [MessageIds -> SignalMessage \cup {NULL}]
      /\ \A n \in MessageIds : n # m => signal'[n] = signal[n]
      /\ signal'[m] # NULL /\ signal'[m].action = "create" /\ signal'[m].message = row
      /\ unannounced' \subseteq MessageIds
    <2>1. TypeOK /\ Broadcast(m, "create", row)
        BY <1>2 DEF Inv, SignalCreate
    <2> QED
        BY <2>1, BroadcastOK
<1>4. PICK x \in Request :
        /\ req' = [req EXCEPT ![r] = x]
        /\ x.pc \notin {"insert", "signalCreate"} /\ x.new = NULL
        /\ req[r].id = NULL => x = Idle
        /\ req[r].id # NULL => /\ x.pc = "findAgain" /\ x.id = req[r].id
                               /\ x.row = req[r].row /\ x.was = req[r].was
    <2>1. CASE req[r].id = NULL
        BY <1>1, <2>1, IdleOK DEF SignalCreate, Finish
    <2>2. CASE req[r].id # NULL
        <3> DEFINE y == [req[r] EXCEPT !.pc = "findAgain", !.new = NULL, !.draft = NULL]
        <3>1. req' = [req EXCEPT ![r] = y]
            BY <1>1, <2>2 DEF SignalCreate, Inv, TypeOK
        <3>2. /\ y \in Request /\ y.pc = "findAgain" /\ y.new = NULL
              /\ y.id = req[r].id /\ y.row = req[r].row /\ y.was = req[r].was
            BY <1>1 DEF Request, Labels
        <3> HIDE DEF y
        <3> QED
            BY <2>2, <3>1, <3>2
    <2> QED
        BY <2>1, <2>2
<1>5. \A p \in Requests : req[p].pc = "insert" => row.parent # req[p].new
    BY <1>1, <1>2 DEF Inv, Fresh
<1>6. m \in Stored => SamePlace(row, message[m])
    BY <1>1, <1>2 DEF Inv, Places
<1>7. m \notin contended => IF m \in Stored THEN row = message[m] ELSE GoneAlong(row)
    BY <1>1, <1>2 DEF Inv, Works, WorkOK
<1>8. m \in Handled(r) /\ Handled(r) \subseteq {m, x.id} /\ (x = Idle => Handled(r) = {m})
    BY <1>2, <1>4, IdleOK, NullIsNothing DEF Handled
<1>9. ASSUME x # Idle, x.id \in MessageIds \ contended
      PROVE  WorkOK(x, x.id)'
    <2>1. WorkOK(req[r], x.id) /\ x.id = req[r].id /\ x.pc = "findAgain"
        BY <1>4, <1>9 DEF Inv, Works
    <2>2. Stored' = Stored /\ message' = message
          /\ \A other : GoneAlong(other)' = GoneAlong(other)
        BY <1>1 DEF Stored, GoneAlong
    <2> QED
        BY <1>4, <1>9, <2>1, <2>2, IdleOK DEF WorkOK
<1>10. x = Idle \/ /\ x.pc # "idle" /\ x.id = req[r].id /\ x.id # NULL
                   /\ x.row = req[r].row /\ x.was = req[r].was
    BY <1>4
<1> QED
    BY <1>1, <1>3, <1>4, <1>5, <1>6, <1>7, <1>8, <1>9, <1>10, GoesOnKeeps

LEMMA SignalUpdateKeeps ==
    ASSUME Inv, NEW r \in Requests, SignalUpdate(r)
    PROVE  Inv'
<1>1. /\ req[r] \in Request /\ req[r].pc = "signalUpdate" /\ req[r].new = NULL
      /\ req[r].id \in MessageIds /\ req[r].row \in Message
      /\ req' = [req EXCEPT ![r] = Idle]
      /\ UNCHANGED <<channels, message, contended>>
    BY DEF Inv, TypeOK, Creating, SignalUpdate, Request, Finish
<1>2. PICK m \in MessageIds, row \in Message : m = req[r].id /\ row = req[r].row
    BY <1>1
<1>3. /\ signal' \in [MessageIds -> SignalMessage \cup {NULL}]
      /\ \A n \in MessageIds : n # m => signal'[n] = signal[n]
      /\ signal'[m] # NULL /\ signal'[m].action = "update" /\ signal'[m].message = row
      /\ unannounced' \subseteq MessageIds
    <2>1. TypeOK /\ Broadcast(m, "update", row)
        BY <1>2 DEF Inv, SignalUpdate
    <2> QED
        BY <2>1, BroadcastOK
<1>4. \A p \in Requests : req[p].pc = "insert" => row.parent # req[p].new
    BY <1>1, <1>2, NullIsNothing DEF Inv, Fresh
<1>5. m \in Stored => SamePlace(row, message[m])
    BY <1>1, <1>2 DEF Inv, Places
<1>6. m \notin Stored \cup contended => GoneAlong(row)
    BY <1>1, <1>2 DEF Inv, Works, WorkOK
<1>7. ASSUME m \in Stored \ contended
      PROVE  row = message[m]
    <2>1. message[m] \in Message
        BY <1>7 DEF Inv, TypeOK, Stored
    <2>2. row.content = message[m].content /\ row.pinned = message[m].pinned
        BY <1>1, <1>2, <1>7 DEF Inv, Works, WorkOK
    <2> QED
        BY <1>5, <1>7, <2>1, <2>2 DEF SamePlace, Message
<1>8. Handled(r) = {m} /\ m \in Handled(r)
    BY <1>1, <1>2, NullIsNothing DEF Handled
<1>9. signal'[m].action # "delete"
    BY <1>3
<1> QED
    BY <1>1, <1>3, <1>4, <1>5, <1>6, <1>7, <1>8, <1>9, IdleOK, GoesOnKeeps

LEMMA SignalDeleteKeeps ==
    ASSUME Inv, NEW r \in Requests, SignalDelete(r)
    PROVE  Inv'
<1>1. /\ req[r] \in Request /\ req[r].pc = "signalDelete" /\ req[r].new = NULL
      /\ req[r].id \in MessageIds /\ req[r].row \in Message
      /\ UNCHANGED <<channels, message, contended>>
    BY DEF Inv, TypeOK, Creating, SignalDelete, Request
<1>2. PICK m \in MessageIds, row \in Message : m = req[r].id /\ row = req[r].row
    BY <1>1
<1>3. /\ signal' \in [MessageIds -> SignalMessage \cup {NULL}]
      /\ \A n \in MessageIds : n # m => signal'[n] = signal[n]
      /\ signal'[m] # NULL /\ signal'[m].action = "delete" /\ signal'[m].message = row
      /\ unannounced' \subseteq MessageIds
    <2>1. TypeOK /\ Broadcast(m, "delete", row)
        BY <1>2 DEF Inv, SignalDelete
    <2> QED
        BY <2>1, BroadcastOK
<1>4. PICK x \in Request :
        /\ req' = [req EXCEPT ![r] = x]
        /\ x.pc = "deleteRow" /\ x.new = NULL /\ x.id = m /\ x.row = row
        /\ x.was = req[r].was
    <2> DEFINE y == [req[r] EXCEPT !.pc = "deleteRow"]
    <2>1. req' = [req EXCEPT ![r] = y]
        BY <1>1 DEF SignalDelete, Goto, Inv, TypeOK
    <2>2. /\ y \in Request /\ y.pc = "deleteRow" /\ y.new = NULL /\ y.id = m /\ y.row = row
          /\ y.was = req[r].was
        BY <1>1, <1>2 DEF Request, Labels
    <2> HIDE DEF y
    <2> QED
        BY <2>1, <2>2
<1>5. \A p \in Requests : req[p].pc = "insert" => row.parent # req[p].new
    BY <1>1, <1>2, NullIsNothing DEF Inv, Fresh
<1>6. m \in Stored => SamePlace(row, message[m])
    BY <1>1, <1>2 DEF Inv, Places
<1>7. Handled(r) = {m} /\ m \in Handled(r)
    BY <1>1, <1>2, NullIsNothing DEF Handled
<1>8. ASSUME m \notin contended
      PROVE  WorkOK(x, m)'
    <2>1. WorkOK(req[r], m)
        BY <1>1, <1>8 DEF Inv, Works
    <2>2. Stored' = Stored /\ message' = message
          /\ \A other : GoneAlong(other)' = GoneAlong(other)
        BY <1>1 DEF Stored, GoneAlong
    <2> QED
        BY <1>1, <1>2, <1>3, <1>4, <2>1, <2>2 DEF WorkOK
<1>9. /\ x = Idle \/ /\ x.pc # "idle" /\ x.id = req[r].id /\ x.id # NULL
                     /\ x.row = req[r].row /\ x.was = req[r].was
      /\ x.pc \notin {"insert", "signalCreate"}
    BY <1>2, <1>4, NullIsNothing
<1>10. x # Idle /\ m = x.id /\ signal'[m].action = "delete"
    BY <1>3, <1>4, IdleOK
<1>11. /\ m \in Stored => SamePlace(signal'[m].message, message[m])
       /\ \A p \in Requests : req[p].pc = "insert" => signal'[m].message.parent # req[p].new
       /\ x.id \in MessageIds \ contended => WorkOK(x, x.id)'
    BY <1>3, <1>4, <1>5, <1>6, <1>8
<1> QED
    BY <1>1, <1>3, <1>4, <1>7, <1>9, <1>10, <1>11, GoesOnKeeps

LEMMA FindAgainKeeps ==
    ASSUME Inv, NEW r \in Requests, FindAgain(r)
    PROVE  Inv'
<1>1. /\ req[r] \in Request /\ req[r].pc = "findAgain" /\ req[r].new = NULL
      /\ req[r].id \in MessageIds
      /\ UNCHANGED <<channels, message, signal, contended, unannounced>>
    BY DEF Inv, TypeOK, Creating, FindAgain, Request
<1>2. PICK m \in MessageIds : m = req[r].id
    BY <1>1
<1>3. Handled(r) = {m} /\ m \in Handled(r)
    BY <1>1, <1>2, NullIsNothing DEF Handled
<1>4. CASE m \notin Stored
    <2>1. Finish(r) /\ contended \subseteq MessageIds /\ unannounced \subseteq MessageIds
        BY <1>2, <1>4 DEF FindAgain, Inv, TypeOK
    <2> QED
        BY <1>1, <1>3, <1>4, <2>1, FinishKeeps
<1>5. CASE m \in Stored
    <2>1. PICK x \in Request :
            /\ req' = [req EXCEPT ![r] = x]
            /\ x.pc = "save" /\ x.new = NULL /\ x.id = m /\ x.row = req[r].row
            /\ x.was = req[r].was
        <3> DEFINE y == [req[r] EXCEPT !.pc = "save"]
        <3>1. req' = [req EXCEPT ![r] = y]
            BY <1>2, <1>5 DEF FindAgain, Goto, Inv, TypeOK
        <3>2. /\ y \in Request /\ y.pc = "save" /\ y.new = NULL /\ y.id = m
              /\ y.row = req[r].row /\ y.was = req[r].was
            BY <1>1, <1>2 DEF Request, Labels
        <3> HIDE DEF y
        <3> QED
            BY <3>1, <3>2
    <2>2. signal' \in [MessageIds -> SignalMessage \cup {NULL}]
          /\ \A n \in MessageIds : signal'[n] = signal[n]
          /\ unannounced' \subseteq MessageIds
        BY <1>1 DEF Inv, TypeOK
    <2>3. signal[m] # NULL =>
            /\ SamePlace(signal[m].message, message[m])
            /\ \A p \in Requests : req[p].pc = "insert" =>
                 signal[m].message.parent # req[p].new
        BY <1>1, <1>5 DEF Inv, Places, Fresh
    <2>4. ASSUME m \notin contended
          PROVE  WorkOK(x, m)'
        <3>1. WorkOK(req[r], m)
            BY <1>1, <2>4 DEF Inv, Works
        <3>2. Stored' = Stored /\ message' = message
              /\ \A other : GoneAlong(other)' = GoneAlong(other)
            BY <1>1 DEF Stored, GoneAlong
        <3> QED
            BY <1>2, <1>5, <2>1, <3>1, <3>2 DEF WorkOK
    <2>5. /\ x = Idle \/ /\ x.pc # "idle" /\ x.id = req[r].id /\ x.id # NULL
                         /\ x.row = req[r].row /\ x.was = req[r].was
          /\ x.pc \notin {"insert", "signalCreate"}
        BY <1>2, <2>1, NullIsNothing
    <2> QED
        BY <1>1, <1>3, <1>5, <2>1, <2>2, <2>3, <2>4, <2>5, IdleOK, GoesOnKeeps
<1> QED
    BY <1>4, <1>5

\* A write of the dirty columns leaves the place of the row, and with what was
\* read it makes the whole of the row.
LEMMA SaveKeeps ==
    ASSUME Inv, NEW r \in Requests, Save(r)
    PROVE  Inv'
<1>1. /\ req[r] \in Request /\ req[r].pc = "save" /\ req[r].new = NULL
      /\ req[r].id \in MessageIds /\ req[r].row \in Message
      /\ UNCHANGED <<channels, signal, contended, unannounced>>
    BY DEF Inv, TypeOK, Creating, Save, Request
<1>2. PICK m \in MessageIds, row \in Message : m = req[r].id /\ row = req[r].row
    BY <1>1
<1>3. PICK x \in Request :
        /\ req' = [req EXCEPT ![r] = x]
        /\ x.pc = "signalUpdate" /\ x.new = NULL /\ x.id = m /\ x.row = row /\ x.was = row
    <2> DEFINE y == [req[r] EXCEPT !.pc = "signalUpdate", !.was = row, !.asked = {}]
    <2>1. req' = [req EXCEPT ![r] = y]
        BY <1>1, <1>2 DEF Save, Inv, TypeOK
    <2>2. /\ y \in Request /\ y.pc = "signalUpdate" /\ y.new = NULL /\ y.id = m
          /\ y.row = row /\ y.was = row
        BY <1>1, <1>2 DEF Request, Labels
    <2> HIDE DEF y
    <2> QED
        BY <2>1, <2>2
<1>4. /\ req'[r] = x /\ Handled(r)' = Handled(r) /\ Handled(r) = {m}
      /\ \A q \in Requests : q # r => req'[q] = req[q] /\ Handled(q)' = Handled(q)
    BY <1>1, <1>2, <1>3, NullIsNothing DEF Inv, TypeOK, Handled
<1>5. /\ message' \in [MessageIds -> Message \cup {NULL}]
      /\ \A n \in MessageIds : n # m => message'[n] = message[n]
      /\ m \notin Stored => message'[m] = message[m]
      /\ m \in Stored =>
           /\ message'[m] \in Message
           /\ SamePlace(message'[m], message[m])
           /\ message'[m].content = IF row.content # req[r].was.content THEN row.content
                                                                  ELSE message[m].content
           /\ message'[m].pinned = IF row.pinned # req[r].was.pinned THEN row.pinned
                                                                ELSE message[m].pinned
    <2>1. CASE m \notin Stored
        BY <1>1, <1>2, <2>1 DEF Save, Inv, TypeOK
    <2>2. CASE m \in Stored
        <3> DEFINE new == [message[m] EXCEPT
                    !.content = IF row.content # req[r].was.content THEN row.content ELSE @,
                    !.pinned = IF row.pinned # req[r].was.pinned THEN row.pinned ELSE @]
        <3>1. message[m] \in Message
            BY <2>2 DEF Inv, TypeOK, Stored
        <3>2. message' = [message EXCEPT ![m] = new]
            BY <1>2, <2>2, <3>1 DEF Save, Dirty, Columns, Inv, TypeOK, Message
        <3>3. /\ new \in Message
              /\ SamePlace(new, message[m])
              /\ new.content = IF row.content # req[r].was.content THEN row.content
                                                             ELSE message[m].content
              /\ new.pinned = IF row.pinned # req[r].was.pinned THEN row.pinned
                                                           ELSE message[m].pinned
            BY <3>1 DEF Message, SamePlace
        <3> HIDE DEF new
        <3> QED
            BY <2>2, <3>2, <3>3 DEF Inv, TypeOK
    <2> QED
        BY <2>1, <2>2
<1>6. Stored' = Stored
    BY <1>5, NullIsNothing DEF Stored
<1>7. \A other : GoneAlong(other)' = GoneAlong(other)
    BY <1>1, <1>6 DEF GoneAlong
<1>8. \A n \in Stored : SamePlace(message'[n], message[n])
    BY <1>5 DEF Stored, SamePlace
<1>9. TypeOK'
    <2>1. req' \in [Requests -> Request]
        BY <1>3 DEF Inv, TypeOK
    <2>2. /\ x.pc # "idle" /\ ~Creating(x) /\ x.new = NULL
          /\ x.id # NULL /\ x.row # NULL /\ x.was # NULL
        BY <1>3, NullIsNothing DEF Creating
    <2> QED
        BY <1>1, <1>4, <1>5, <2>1, <2>2 DEF Inv, TypeOK, Creating
<1>10. RepliesStored'
    BY <1>1, <1>6, <1>8 DEF Inv, RepliesStored, SamePlace
<1>11. ShownAsStored'
    <2> SUFFICES ASSUME NEW n \in Stored \ contended, Quiet(n)'
                 PROVE  Quiet(n) /\ n # m
        BY <1>1, <1>5, <1>6 DEF Inv, ShownAsStored, Stored
    <2> QED
        BY <1>4 DEF Quiet
<1>12. GoneIsSignalled'
    BY <1>1, <1>6, <1>7 DEF Inv, GoneIsSignalled
<1>13. Fresh'
    <2> SUFFICES ASSUME NEW p \in Requests, p # r, req[p].pc = "insert"
                 PROVE  /\ req[p].new \notin Stored
                        /\ req[p].new # req[p].id
                        /\ \A q \in Requests :
                             /\ q # p => req[p].new \notin Handled(q)
                             /\ req'[q].id # NULL => req'[q].row.parent # req[p].new
                             /\ req'[q].pc = "signalCreate" =>
                                  req'[q].draft.parent # req[p].new
                        /\ \A n \in MessageIds :
                             signal[n] # NULL => signal[n].message.parent # req[p].new
        BY <1>1, <1>3, <1>4, <1>6 DEF Fresh
    <2>1. row.parent # req[p].new
        BY <1>1, <1>2, NullIsNothing DEF Inv, Fresh
    <2> QED
        BY <1>3, <1>4, <2>1 DEF Inv, Fresh
<1>14. Places'
    <2>1. \A n \in Stored : signal[n] # NULL => SamePlace(signal[n].message, message'[n])
        BY <1>8 DEF Inv, Places, SamePlace
    <2>2. ASSUME NEW q \in Requests, req[q].id \in Stored
          PROVE  SamePlace(req[q].row, message'[req[q].id])
        BY <1>8, <2>2 DEF Inv, Places, SamePlace
    <2>3. ASSUME NEW q \in Requests, req[q].pc = "signalCreate", req[q].new \in Stored
          PROVE  SamePlace(req[q].draft, message'[req[q].new])
        BY <1>8, <2>3 DEF Inv, Places, SamePlace
    <2> QED
        BY <1>1, <1>2, <1>3, <1>4, <1>6, <2>1, <2>2, <2>3 DEF Inv, Places
<1>15. Alone'
    BY <1>1, <1>4 DEF Inv, Alone
<1>16. Works'
    <2> SUFFICES ASSUME NEW q \in Requests, NEW n \in MessageIds \ contended
                 PROVE  WorkOK(req[q], n)'
        BY <1>1 DEF Works
    <2>1. WorkOK(req[q], n)
        BY DEF Inv, Works
    <2>2. CASE q = r /\ n = m
        <3>1. m \notin Stored => GoneAlong(row)
            BY <1>2, <2>1, <2>2 DEF WorkOK
        <3>2. m \in Stored => /\ row.content = message'[m].content
                              /\ row.pinned = message'[m].pinned
            BY <1>2, <1>5, <2>1, <2>2 DEF WorkOK
        <3> QED
            BY <1>3, <1>4, <1>6, <1>7, <2>2, <3>1, <3>2, NullIsNothing DEF WorkOK
    <2>3. CASE q = r /\ n # m
        BY <1>3, <1>4, <2>3, NullIsNothing DEF WorkOK
    <2>4. CASE q # r /\ n = m
        <3>1. n \notin Handled(q)
            BY <1>4, <2>4 DEF Inv, Alone
        <3>2. req[q].id # n /\ req[q].new # n
            BY <3>1, NullIsNothing DEF Handled
        <3> QED
            BY <1>4, <2>4, <3>2 DEF WorkOK
    <2>5. CASE q # r /\ n # m
        BY <1>1, <1>4, <1>5, <1>6, <1>7, <2>1, <2>5 DEF WorkOK
    <2> QED
        BY <2>2, <2>3, <2>4, <2>5
<1> QED
    BY <1>9, <1>10, <1>11, <1>12, <1>13, <1>14, <1>15, <1>16 DEF Inv

-----------------------------------------------------------------------------
(* Deletions.                                                              *)

\* What the cascade takes: the roots, what replies to what it takes, and nothing
\* else.
LEMMA RepliesOK ==
    ASSUME NEW roots \in SUBSET Stored
    PROVE  /\ roots \subseteq Replies(roots) /\ Replies(roots) \subseteq Stored
           /\ Closed(Replies(roots))
           /\ \A m \in Replies(roots) : m \in roots \/ message[m].parent \in Replies(roots)
<1>1. roots \subseteq Replies(roots) /\ Replies(roots) \subseteq Stored
    BY DEF Replies
<1>2. Closed(Replies(roots))
    <2> SUFFICES ASSUME NEW m \in Stored, message[m].parent \in Replies(roots),
                        NEW set \in SUBSET Stored, roots \subseteq set, Closed(set)
                 PROVE  m \in set
        BY DEF Closed, Replies
    <2>1. message[m].parent \in set
        BY DEF Replies
    <2> QED
        BY <2>1 DEF Closed
<1>3. ASSUME NEW m \in Replies(roots)
      PROVE  m \in roots \/ message[m].parent \in Replies(roots)
    <2> DEFINE set == {n \in Replies(roots) : n \in roots
                                              \/ message[n].parent \in Replies(roots)}
    <2>1. set \in SUBSET Stored /\ roots \subseteq set
        BY <1>1
    <2>2. Closed(set)
        BY <1>2 DEF Closed
    <2>3. m \in set
        BY <2>1, <2>2 DEF Replies
    <2> QED
        BY <2>3
<1> QED
    BY <1>1, <1>2, <1>3

\* Rows and channels go, closed under the foreign keys, and the requests of fin,
\* which deleted theirs, end: each row had a reason to go.
LEMMA DeleteKeeps ==
    ASSUME Inv, NEW gone \in SUBSET Stored, NEW fin \in SUBSET Requests,
           message' = [m \in MessageIds |-> IF m \in gone THEN NULL ELSE message[m]],
           channels' \subseteq channels, UNCHANGED <<signal, contended, unannounced>>,
           req' = [q \in Requests |-> IF q \in fin THEN Idle ELSE req[q]],
           Closed(gone),
           \A m \in Stored : message[m].channel \in channels' \/ m \in gone,
           \A q \in fin : req[q].pc = "deleteRow" /\ req[q].id \in gone \cup (MessageIds \ Stored),
           \A m \in gone : \/ message[m].channel \notin channels'
                           \/ message[m].parent \in gone
                           \/ \E q \in fin : req[q].id = m
    PROVE  Inv'
<1>1. /\ Stored' = Stored \ gone
      /\ \A n \in Stored \ gone : message'[n] = message[n]
    BY NullIsNothing DEF Stored
<1>2. /\ \A q \in fin : req'[q] = Idle /\ \A m : m \notin Handled(q)'
      /\ \A q \in Requests \ fin : req'[q] = req[q] /\ Handled(q)' = Handled(q)
    BY IdleOK DEF Handled
<1>3. \A row : GoneAlong(row) => GoneAlong(row)'
    BY <1>1 DEF GoneAlong
<1>4. ASSUME NEW m \in gone, NEW row, SamePlace(row, message[m]),
             \A q \in fin : req[q].id # m
      PROVE  GoneAlong(row)'
    <2>1. CASE message[m].channel \notin channels'
        BY <1>4, <2>1 DEF GoneAlong, SamePlace
    <2>2. CASE message[m].parent \in gone
        <3>1. row.parent \in gone /\ row.parent # NULL
            BY <1>4, <2>2, NullIsNothing DEF SamePlace, Stored
        <3> QED
            BY <1>1, <3>1 DEF GoneAlong
    <2> QED
        BY <1>4, <2>1, <2>2
<1>5. TypeOK'
    <2>1. /\ message' \in [MessageIds -> Message \cup {NULL}]
          /\ req' \in [Requests -> Request]
        BY IdleOK DEF Inv, TypeOK
    <2> QED
        BY <1>2, <2>1, IdleOK DEF Inv, TypeOK, Creating
<1>6. RepliesStored'
    BY <1>1 DEF Inv, RepliesStored, Closed
<1>7. ShownAsStored'
    <2> SUFFICES ASSUME NEW n \in Stored \ (gone \cup contended), Quiet(n)'
                 PROVE  Quiet(n)
        BY <1>1 DEF Inv, ShownAsStored
    <2>1. ASSUME NEW q \in fin
          PROVE  n \notin Handled(q)
        BY <2>1 DEF Inv, TypeOK, Creating, Handled
    <2> QED
        BY <1>2, <2>1 DEF Quiet
<1>8. GoneIsSignalled'
    <2> SUFFICES ASSUME NEW n \in MessageIds \ contended, n \notin Stored', signal[n] # NULL
                 PROVE  signal[n].action = "delete" \/ GoneAlong(signal[n].message)'
        BY DEF GoneIsSignalled
    <2>1. CASE n \notin Stored
        BY <1>3, <2>1 DEF Inv, GoneIsSignalled
    <2>2. CASE n \in gone /\ \E q \in fin : req[q].id = n
        BY <2>2 DEF Inv, Works, WorkOK
    <2>3. CASE n \in gone /\ \A q \in fin : req[q].id # n
        <3>1. SamePlace(signal[n].message, message[n])
            BY <2>3 DEF Inv, Places
        <3> QED
            BY <1>4, <2>3, <3>1
    <2> QED
        BY <1>1, <2>1, <2>2, <2>3
<1>9. Fresh'
    <2> SUFFICES ASSUME NEW p \in Requests \ fin, req[p].pc = "insert"
                 PROVE  /\ req[p].new \notin Stored'
                        /\ req[p].new # req[p].id
                        /\ \A q \in Requests :
                             /\ q # p => req[p].new \notin Handled(q)'
                             /\ req'[q].id # NULL => req'[q].row.parent # req[p].new
                             /\ req'[q].pc = "signalCreate" =>
                                  req'[q].draft.parent # req[p].new
                        /\ \A n \in MessageIds :
                             signal[n] # NULL => signal[n].message.parent # req[p].new
        BY <1>2, IdleOK DEF Fresh
    <2>1. ASSUME NEW q \in Requests
          PROVE  /\ q # p => req[p].new \notin Handled(q)'
                 /\ req'[q].id # NULL => req'[q].row.parent # req[p].new
                 /\ req'[q].pc = "signalCreate" => req'[q].draft.parent # req[p].new
        <3>1. CASE q \in fin
            BY <1>2, <3>1, IdleOK
        <3>2. CASE q \notin fin
            BY <1>2, <3>2 DEF Inv, Fresh
        <3> QED
            BY <3>1, <3>2
    <2> QED
        BY <1>1, <2>1 DEF Inv, Fresh
<1>10. Places'
    <2>1. \A n \in Stored \ gone :
            signal[n] # NULL => SamePlace(signal[n].message, message'[n])
        BY <1>1 DEF Inv, Places
    <2>2. ASSUME NEW q \in Requests
          PROVE  /\ req'[q].id \in Stored' => SamePlace(req'[q].row, message'[req'[q].id])
                 /\ req'[q].pc = "signalCreate" /\ req'[q].new \in Stored' =>
                      SamePlace(req'[q].draft, message'[req'[q].new])
                 /\ req'[q].pc = "insert" /\ req'[q].id # NULL =>
                      /\ req'[q].draft.channel = req'[q].row.channel
                      /\ req'[q].draft.parent = NULL
        <3>1. CASE q \in fin
            BY <1>1, <1>2, <3>1, IdleOK, NullIsNothing DEF Stored
        <3>2. CASE q \notin fin
            BY <1>1, <1>2, <3>2 DEF Inv, Places
        <3> QED
            BY <3>1, <3>2
    <2> QED
        BY <1>1, <2>1, <2>2 DEF Places
<1>11. Alone'
    BY <1>2 DEF Inv, Alone
<1>12. Works'
    <2> SUFFICES ASSUME NEW q \in Requests, NEW n \in MessageIds \ contended
                 PROVE  WorkOK(req[q], n)'
        BY DEF Works
    <2>1. CASE q \in fin
        BY <1>2, <2>1, IdleOK, NullIsNothing DEF WorkOK
    <2>2. CASE q \notin fin /\ n \in gone
        <3>1. WorkOK(req[q], n) /\ n \in Stored /\ n \notin Stored'
            BY <1>1, <2>2 DEF Inv, Works
        <3>2. ASSUME req[q].id = n
              PROVE  GoneAlong(req[q].row)'
            <4>1. \A p \in fin : req[p].id # n
                BY <2>2, <3>2, NullIsNothing DEF Inv, Alone, Handled
            <4>2. PICK row : row = req[q].row
                OBVIOUS
            <4>3. SamePlace(row, message[n])
                BY <3>1, <3>2, <4>2 DEF Inv, Places
            <4> QED
                BY <1>2, <1>4, <2>2, <4>1, <4>2, <4>3
        <3>3. ASSUME req[q].new = n, req[q].pc = "signalCreate"
              PROVE  GoneAlong(req[q].draft)'
            <4>1. \A p \in fin : req[p].id # n
                BY <2>2, <3>3, NullIsNothing DEF Inv, Alone, Handled
            <4>2. PICK row : row = req[q].draft
                OBVIOUS
            <4>3. SamePlace(row, message[n])
                BY <3>1, <3>3, <4>2 DEF Inv, Places
            <4> QED
                BY <1>2, <1>4, <2>2, <4>1, <4>2, <4>3
        <3> QED
            BY <1>2, <2>2, <3>1, <3>2, <3>3 DEF WorkOK
    <2>3. CASE q \notin fin /\ n \notin gone
        <3>1. WorkOK(req[q], n)
            BY DEF Inv, Works
        <3> QED
            BY <1>1, <1>2, <1>3, <2>3, <3>1 DEF WorkOK
    <2> QED
        BY <2>1, <2>2, <2>3
<1> QED
    BY <1>5, <1>6, <1>7, <1>8, <1>9, <1>10, <1>11, <1>12 DEF Inv

LEMMA DeleteRowKeeps ==
    ASSUME Inv, NEW r \in Requests, DeleteRow(r)
    PROVE  Inv'
<1> DEFINE roots == {req[r].id} \cap Stored
           gone == Replies(roots)
           fin == {r}
<1>1. /\ roots \subseteq gone /\ gone \subseteq Stored /\ Closed(gone)
      /\ \A m \in gone : m \in roots \/ message[m].parent \in gone
    BY RepliesOK
<1>2. /\ req[r].pc = "deleteRow" /\ req[r].id \in MessageIds
      /\ message' = [m \in MessageIds |-> IF m \in gone THEN NULL ELSE message[m]]
      /\ UNCHANGED <<channels, signal, contended, unannounced>>
    BY DEF DeleteRow, Delete, Inv, TypeOK, Creating, Request
<1>3. req' = [q \in Requests |-> IF q \in fin THEN Idle ELSE req[q]]
    BY DEF DeleteRow, Finish, Inv, TypeOK
<1>4. \A m \in Stored : message[m].channel \in channels'
    BY <1>2 DEF Inv, RepliesStored
<1>5. req[r].id \in gone \cup (MessageIds \ Stored)
    BY <1>1, <1>2
<1>6. \A m \in roots : req[r].id = m
    OBVIOUS
<1>7. gone \in SUBSET Stored /\ fin \in SUBSET Requests
    BY <1>1
<1> HIDE DEF roots, gone
<1> QED
    BY <1>1, <1>2, <1>3, <1>4, <1>5, <1>6, <1>7, DeleteKeeps

LEMMA DeleteChannelKeeps ==
    ASSUME Inv, NEW c \in ChannelIds, DeleteChannel(c)
    PROVE  Inv'
<1> DEFINE roots == {m \in Stored : message[m].channel = c}
           gone == Replies(roots)
           fin == {}
<1>1. /\ roots \subseteq gone /\ gone \in SUBSET Stored /\ Closed(gone)
      /\ \A m \in gone : m \in roots \/ message[m].parent \in gone
    BY RepliesOK
<1>2. /\ channels' = channels \ {c}
      /\ message' = [m \in MessageIds |-> IF m \in gone THEN NULL ELSE message[m]]
      /\ UNCHANGED <<signal, req, contended, unannounced>>
    BY DEF DeleteChannel, Delete
<1>3. req' = [q \in Requests |-> IF q \in fin THEN Idle ELSE req[q]]
    BY <1>2 DEF Inv, TypeOK
<1>4. \A m \in Stored : message[m].channel \in channels' \/ m \in gone
    BY <1>1, <1>2 DEF Inv, RepliesStored
<1>5. \A m \in gone : message[m].channel \notin channels' \/ message[m].parent \in gone
    BY <1>1, <1>2
<1>6. fin \in SUBSET Requests /\ (\A q \in fin : FALSE) /\ channels' \subseteq channels
    BY <1>2
<1> HIDE DEF roots, gone, fin
<1> QED
    BY <1>1, <1>2, <1>3, <1>4, <1>5, <1>6, DeleteKeeps

LEMMA FailKeeps ==
    ASSUME Inv, NEW r \in Requests, Fail(r)
    PROVE  Inv'
<1>1. /\ Finish(r) /\ UNCHANGED <<channels, message, signal>>
      /\ contended' = contended \cup (Handled(r) \cap Stored)
    BY DEF Fail
<1>2. contended' \subseteq MessageIds /\ unannounced' \subseteq MessageIds
    BY <1>1 DEF Inv, TypeOK, Stored, Fail
<1> QED
    BY <1>1, <1>2, FinishKeeps

-----------------------------------------------------------------------------
LEMMA InitInv == Init => Inv
<1> SUFFICES ASSUME Init
             PROVE  Inv
    OBVIOUS
<1>1. TypeOK
    BY IdleOK DEF Init, TypeOK, Creating
<1>2. Stored = {} /\ \A m \in MessageIds : signal[m] = NULL
    BY DEF Init, Stored
<1>3. \A r \in Requests : req[r].pc = "idle" /\ req[r].id = NULL /\ req[r].new = NULL
    BY IdleOK DEF Init
<1>4. \A r \in Requests : \A m : m \notin Handled(r)
    BY <1>3 DEF Handled
<1>5. RepliesStored /\ ShownAsStored /\ GoneIsSignalled
    BY <1>2 DEF RepliesStored, ShownAsStored, GoneIsSignalled
<1>6. Fresh /\ Places /\ Alone
    BY <1>2, <1>3, <1>4 DEF Fresh, Places, Alone
<1>7. Works
    BY <1>3, NullIsNothing DEF Works, WorkOK
<1> QED
    BY <1>1, <1>5, <1>6, <1>7 DEF Inv

LEMMA StutterKeeps ==
    ASSUME Inv, UNCHANGED vars
    PROVE  Inv'
<1>1. /\ Stored' = Stored
      /\ \A r \in Requests : Handled(r)' = Handled(r)
      /\ \A row : GoneAlong(row)' = GoneAlong(row)
    BY DEF vars, Stored, Handled, GoneAlong
<1>2. TypeOK' /\ RepliesStored' /\ Fresh' /\ Places' /\ Alone'
    BY <1>1 DEF Inv, vars, TypeOK, RepliesStored, Fresh, Places, Alone
<1>3. ShownAsStored' /\ GoneIsSignalled'
    BY <1>1 DEF Inv, vars, ShownAsStored, GoneIsSignalled, Quiet
<1>4. Works'
    BY <1>1 DEF Inv, vars, Works, WorkOK
<1> QED
    BY <1>2, <1>3, <1>4 DEF Inv

LEMMA StepInv == Inv /\ [Next]_vars => Inv'
<1> SUFFICES ASSUME Inv, [Next]_vars
             PROVE  Inv'
    OBVIOUS
<1>1. ASSUME NEW r \in Requests, Receive(r)
      PROVE  Inv'
    BY <1>1, StartCreateKeeps, StartEditKeeps, StartPinKeeps, StartDestroyKeeps DEF Receive
<1>2. ASSUME NEW r \in Requests, Continue(r)
      PROVE  Inv'
    BY <1>2, InsertKeeps, SignalCreateKeeps, SaveKeeps, SignalUpdateKeeps, FindAgainKeeps,
       SignalDeleteKeeps, DeleteRowKeeps DEF Continue
<1>3. ASSUME NEW r \in Requests, Fail(r)
      PROVE  Inv'
    BY <1>3, FailKeeps
<1>4. ASSUME NEW c \in ChannelIds, DeleteChannel(c)
      PROVE  Inv'
    BY <1>4, DeleteChannelKeeps
<1>5. CASE UNCHANGED vars
    BY <1>5, StutterKeeps
<1> QED
    BY <1>1, <1>2, <1>3, <1>4, <1>5 DEF Next

LEMMA Invariant == Spec => []Inv
<1>1. Init => Inv
    BY InitInv
<1>2. Inv /\ [Next]_vars => Inv'
    BY StepInv
<1> QED
    BY <1>1, <1>2, PTL DEF Spec

\* The variables of the model keep their types, whatever requests meet.
THEOREM MessagesTyped == Spec => []TypeOK
<1>1. Inv => TypeOK
    BY DEF Inv
<1> QED
    BY <1>1, Invariant, PTL

\* The deletion of a channel or of a message, in the middle of any number of
\* creations, edits, pins and deletions, never leaves a message behind whose
\* channel or parent is gone (the foreign keys of the table messages).
THEOREM RepliesAlwaysStored == Spec => []RepliesStored
<1>1. Inv => RepliesStored
    BY DEF Inv
<1> QED
    BY <1>1, Invariant, PTL

\* Although each request signals what it holds in memory, and not what it finds
\* in the table, a subscriber shows the stored row of each message whose last
\* request met no other and did not fail (MessageService.create, update, pinning).
THEOREM AlwaysShownAsStored == Spec => []ShownAsStored
<1>1. Inv => ShownAsStored
    BY DEF Inv
<1> QED
    BY <1>1, Invariant, PTL

\* MessageService.destroy signals before it deletes: a message that is gone was
\* signalled so, or went with a channel or a message it replied to.
THEOREM AlwaysGoneIsSignalled == Spec => []GoneIsSignalled
<1>1. Inv => GoneIsSignalled
    BY DEF Inv
<1> QED
    BY <1>1, Invariant, PTL

-----------------------------------------------------------------------------
(* What a request saves.                                                   *)

\* A request only writes the columns that its client asked to change.
Asked ==
    \A r \in Requests : req[r].id # NULL =>
        \A c \in Columns : req[r].row[c] # req[r].was[c] => c \in req[r].asked

\* A step of r that brings it to the locals x, where x still only writes what was
\* asked for.
LEMMA AskedStays ==
    ASSUME TypeOK, Asked, NEW r \in Requests, NEW x, req' = [req EXCEPT ![r] = x],
           x.id # NULL => \A c \in Columns : x.row[c] # x.was[c] => c \in x.asked
    PROVE  Asked'
BY DEF Asked, TypeOK

LEMMA AskedReceive ==
    ASSUME TypeOK, Asked, NEW r \in Requests, Receive(r)
    PROVE  Asked'
<1>1. ASSUME NEW m \in MessageIds, NEW row \in Message, StartCreate(r, m, row)
      PROVE  Asked'
    <2> DEFINE x == [Idle EXCEPT !.pc = "insert", !.new = m, !.draft = row]
    <2>1. x.id = NULL /\ req' = [req EXCEPT ![r] = x]
        BY <1>1 DEF StartCreate, Idle
    <2> HIDE DEF x
    <2> QED
        BY <2>1, AskedStays
<1>2. ASSUME NEW m \in MessageIds, NEW content \in NewContents, NEW pinned \in NewPinned,
             StartEdit(r, m, content, pinned)
      PROVE  Asked'
    <2> DEFINE row == [message[m] EXCEPT !.content = content,
                                         !.pinned = IF pinned = NULL THEN @ ELSE pinned]
               x == [Idle EXCEPT !.pc = "save", !.id = m, !.row = row, !.was = message[m],
                                 !.asked = {c \in Columns : row[c] # message[m][c]}]
    <2>1. req' = [req EXCEPT ![r] = x]
        BY <1>2 DEF StartEdit, StartOn
    <2>2. x.row = row /\ x.was = message[m]
          /\ x.asked = {c \in Columns : row[c] # message[m][c]}
        BY DEF Idle
    <2> HIDE DEF row, x
    <2> QED
        BY <2>1, <2>2, AskedStays
<1>3. ASSUME NEW m \in MessageIds, NEW a \in MessageIds, StartPin(r, m, a)
      PROVE  Asked'
    <2> DEFINE row == [message[m] EXCEPT !.pinned = ~@]
               x == [pc |-> "insert", new |-> a, id |-> m, asked |-> {"pinned"},
                     draft |-> [content |-> Announcement, pinned |-> FALSE,
                                channel |-> message[m].channel, parent |-> NULL],
                     row |-> row, was |-> message[m]]
    <2>1. /\ req' = [req EXCEPT ![r] = x]
          /\ x.row = row /\ x.was = message[m] /\ x.asked = {"pinned"}
        BY <1>3 DEF StartPin, StartOn
    <2>2. message[m] \in Message
        BY <1>3 DEF StartPin, StartOn, Stored, TypeOK
    <2>3. row["content"] = message[m]["content"]
        BY <2>2 DEF Message
    <2> HIDE DEF row, x
    <2>4. \A c \in Columns : x.row[c] # x.was[c] => c \in x.asked
        BY <2>1, <2>3 DEF Columns
    <2> QED
        BY <2>1, <2>4, AskedStays
<1>4. ASSUME NEW m \in MessageIds, StartDestroy(r, m)
      PROVE  Asked'
    <2> DEFINE x == [Idle EXCEPT !.pc = "signalDelete", !.id = m, !.row = message[m],
                                 !.was = message[m]]
    <2>1. req' = [req EXCEPT ![r] = x] /\ x.row = x.was
        BY <1>4 DEF StartDestroy, StartOn, Idle
    <2> HIDE DEF x
    <2> QED
        BY <2>1, AskedStays
<1> QED
    BY <1>1, <1>2, <1>3, <1>4 DEF Receive

\* Finding the message again hands over the attributes and the originals together.
LEMMA AskedContinue ==
    ASSUME TypeOK, Asked, NEW r \in Requests, Continue(r) \/ Fail(r)
    PROVE  Asked'
<1>1. CASE Finish(r)
    BY <1>1, IdleOK, AskedStays DEF Finish
<1>2. CASE Save(r)
    <2> DEFINE x == [req[r] EXCEPT !.pc = "signalUpdate", !.was = req[r].row, !.asked = {}]
    <2>1. req' = [req EXCEPT ![r] = x] /\ x.row = x.was
        BY <1>2 DEF Save, TypeOK, Request
    <2> HIDE DEF x
    <2> QED
        BY <2>1, AskedStays
<1>3. CASE Insert(r) \/ SignalCreate(r) \/ FindAgain(r) \/ SignalDelete(r)
    <2>1. CASE ~ Finish(r)
        <3>1. PICK x : /\ req' = [req EXCEPT ![r] = x]
                       /\ x.id = req[r].id /\ x.row = req[r].row
                       /\ x.was = req[r].was /\ x.asked = req[r].asked
            <4>1. ASSUME NEW label, Goto(r, label)
                  PROVE  \E x : /\ req' = [req EXCEPT ![r] = x]
                                /\ x.id = req[r].id /\ x.row = req[r].row
                                /\ x.was = req[r].was /\ x.asked = req[r].asked
                <5> DEFINE x == [req[r] EXCEPT !.pc = label]
                <5>1. /\ req' = [req EXCEPT ![r] = x]
                      /\ x.id = req[r].id /\ x.row = req[r].row
                      /\ x.was = req[r].was /\ x.asked = req[r].asked
                    BY <4>1 DEF Goto, TypeOK, Request
                <5> QED
                    BY <5>1
            <4>2. CASE SignalCreate(r)
                <5> DEFINE x == [req[r] EXCEPT !.pc = "findAgain", !.new = NULL, !.draft = NULL]
                <5>1. req' = [req EXCEPT ![r].pc = "findAgain", ![r].new = NULL,
                                         ![r].draft = NULL]
                    BY <2>1, <4>2 DEF SignalCreate
                <5>2. req' = [req EXCEPT ![r] = x]
                    BY <5>1 DEF TypeOK
                <5>3. /\ x.id = req[r].id /\ x.row = req[r].row
                      /\ x.was = req[r].was /\ x.asked = req[r].asked
                    BY DEF TypeOK, Request
                <5> QED
                    BY <5>2, <5>3
            <4>3. CASE Insert(r)
                BY <2>1, <4>1, <4>3 DEF Insert
            <4>4. CASE FindAgain(r) \/ SignalDelete(r)
                BY <2>1, <4>1, <4>4 DEF FindAgain, SignalDelete
            <4> QED
                BY <1>3, <4>2, <4>3, <4>4
        <3> QED
            BY <3>1, AskedStays DEF Asked
    <2> QED
        BY <1>1, <2>1
<1> QED
    BY <1>1, <1>2, <1>3 DEF Continue, SignalUpdate, DeleteRow, Fail

LEMMA StepAsked == TypeOK /\ Asked /\ [Next]_vars => Asked'
<1> SUFFICES ASSUME TypeOK, Asked, [Next]_vars
             PROVE  Asked'
    OBVIOUS
<1>1. CASE UNCHANGED vars
    BY <1>1 DEF vars, Asked
<1>2. ASSUME NEW c \in ChannelIds, DeleteChannel(c)
      PROVE  Asked'
    BY <1>2 DEF DeleteChannel, Asked
<1> QED
    BY <1>1, <1>2, AskedReceive, AskedContinue DEF Next

\* Only a save changes a column of a message that stays.
LEMMA OwnSave ==
    ASSUME Inv, Next, NEW m \in Stored, message'[m] # NULL, message'[m] # message[m]
    PROVE  \E r \in Requests : Save(r)
<1>1. m \in MessageIds
    BY DEF Stored
<1>2. ASSUME NEW roots \in SUBSET Stored, Delete(roots)
      PROVE  FALSE
    BY <1>1, <1>2 DEF Delete
<1>3. ASSUME NEW r \in Requests, Insert(r)
      PROVE  FALSE
    <2>1. req[r].new # m
        BY <1>3 DEF Inv, Fresh, Insert
    <2> QED
        BY <1>1, <1>3, <2>1 DEF Insert, Inv, TypeOK
<1>4. ASSUME NEW r \in Requests, Continue(r)
      PROVE  Save(r)
    <2>1. ~ DeleteRow(r)
        BY <1>2 DEF DeleteRow
    <2> QED
        BY <1>3, <1>4, <2>1 DEF Continue, SignalCreate, SignalUpdate, FindAgain, SignalDelete
<1>5. ASSUME NEW r \in Requests
      PROVE  ~ Receive(r) /\ ~ Fail(r)
    BY DEF Receive, StartCreate, StartEdit, StartPin, StartDestroy, StartOn, Fail
<1>6. \A c \in ChannelIds : ~ DeleteChannel(c)
    BY <1>2 DEF DeleteChannel
<1> QED
    BY <1>4, <1>5, <1>6 DEF Next

\* A save changes the columns its client asked for, to what its instance holds,
\* however late after it read the message: a pin takes back no edit, whatever was
\* saved while it announced itself (MessageService.pinning).
THEOREM PinsAlwaysKeepEdits == Spec => PinsKeepEdits
<1> DEFINE Kept(m, c) ==
        message[m] # NULL /\ message'[m] # NULL /\ message'[m][c] # message[m][c] =>
          \E r \in Requests : /\ req[r].pc = "save" /\ req[r].id = m
                             /\ c \in req[r].asked
                             /\ message'[m][c] = req[r].row[c]
<1>1. ASSUME Inv, Asked, Next, NEW m \in MessageIds, NEW c \in Columns,
             message[m] # NULL, message'[m] # NULL, message'[m][c] # message[m][c]
      PROVE  \E r \in Requests : /\ req[r].pc = "save" /\ req[r].id = m
                                /\ c \in req[r].asked
                                /\ message'[m][c] = req[r].row[c]
    <2>1. m \in Stored /\ message[m] \in Message
        BY <1>1 DEF Stored, Inv, TypeOK
    <2>2. PICK r \in Requests : Save(r)
        BY <1>1, <2>1, OwnSave
    <2>3. req[r].pc = "save" /\ req[r].id # NULL /\ TypeOK
        BY <1>1, <2>2 DEF Save, Inv, TypeOK, Creating
    <2>4. m = req[r].id
        BY <1>1, <2>2, <2>3 DEF Save, TypeOK
    <2>5. /\ message'[m].content = IF "content" \in Dirty(req[r]) THEN req[r].row.content
                                                               ELSE message[m].content
          /\ message'[m].pinned = IF "pinned" \in Dirty(req[r]) THEN req[r].row.pinned
                                                             ELSE message[m].pinned
        BY <2>1, <2>2, <2>3, <2>4 DEF Save, TypeOK, Message
    <2>6. c \in Dirty(req[r]) /\ message'[m][c] = req[r].row[c]
        BY <1>1, <2>5 DEF Columns
    <2>7. c \in req[r].asked
        BY <1>1, <2>3, <2>6 DEF Asked, Dirty
    <2> QED
        BY <2>3, <2>4, <2>6, <2>7
<1>2. Inv /\ Asked /\ [Next]_vars => [\A m \in MessageIds, c \in Columns : Kept(m, c)]_vars
    BY <1>1
<1>3. Init => Asked
    BY IdleOK DEF Init, Asked
<1>4. Inv /\ Asked /\ [Next]_vars => Asked'
    BY StepAsked DEF Inv
<1> QED
    BY <1>2, <1>3, <1>4, Invariant, PTL DEF Spec, PinsKeepEdits

-----------------------------------------------------------------------------
(* The refinement: what each step is in Feed.                              *)

\* Nobody has heard of a message whose creation is about to be broadcast.
Unheard ==
    \A r \in Requests :
        req[r].pc = "signalCreate" /\ req[r].new \notin contended =>
            signal[req[r].new] = NULL

Told(m) == signal[m] # NULL \/ m \in unannounced

\* Something was heard of a stored message, unless it is about to be announced or
\* never will be; and of a message that a request not contended works on.
Announced ==
    /\ \A m \in Stored : Told(m) \/ \E r \in Requests : req[r].pc = "signalCreate"
                                                      /\ req[r].new = m
    /\ \A m \in MessageIds \ contended : (\E r \in Requests : req[r].id = m) => Told(m)

\* The words of Feed for what is stored and broadcast.
LEMMA SameWords ==
    /\ Audience!There = Stored
    /\ \A row : Audience!Lost(row) <=> GoneAlong(row)
    /\ \A row, other : Audience!SamePlace(row, other) <=> SamePlace(row, other)
    /\ Audience!Message = Message
BY DEF Audience!There, Stored, Audience!Lost, GoneAlong, Audience!SamePlace, SamePlace,
   Audience!Message, Message

feed == <<channels, message, signal, contended, unannounced>>

LEMMA StartInFeed ==
    ASSUME NEW r \in Requests, NEW m \in MessageIds, NEW x, StartOn(r, m, x)
    PROVE  Audience!Next
<1>1. CASE Quiet(m)
    <2>1. Audience!Settle(m)
        BY <1>1, SameWords DEF StartOn, Audience!Settle
    <2> QED
        BY <2>1 DEF Audience!Next
<1>2. CASE ~Quiet(m)
    <2>1. Audience!Doubt({m}, {}) /\ {m} \in SUBSET MessageIds
        BY <1>2 DEF StartOn, Audience!Doubt
    <2> QED
        BY <2>1 DEF Audience!Next
<1> QED
    BY <1>1, <1>2

LEMMA ReceiveInFeed ==
    ASSUME NEW r \in Requests, Receive(r)
    PROVE  [Audience!Next]_feed
<1>1. ASSUME NEW m \in MessageIds, NEW row \in Message, StartCreate(r, m, row)
      PROVE  UNCHANGED feed
    BY <1>1 DEF StartCreate, feed
<1>2. ASSUME NEW m \in MessageIds, NEW content \in NewContents, NEW pinned \in NewPinned,
             StartEdit(r, m, content, pinned)
      PROVE  Audience!Next
    <2>1. \E x : StartOn(r, m, x)
        BY <1>2 DEF StartEdit
    <2> QED
        BY <2>1, StartInFeed
<1>3. ASSUME NEW m \in MessageIds, NEW a \in MessageIds, StartPin(r, m, a)
      PROVE  Audience!Next
    <2>1. \E x : StartOn(r, m, x)
        BY <1>3 DEF StartPin
    <2> QED
        BY <2>1, StartInFeed
<1>4. ASSUME NEW m \in MessageIds, StartDestroy(r, m)
      PROVE  Audience!Next
    <2>1. \E x : StartOn(r, m, x)
        BY <1>4 DEF StartDestroy
    <2> QED
        BY <2>1, StartInFeed
<1> QED
    BY <1>1, <1>2, <1>3, <1>4 DEF Receive

LEMMA InsertInFeed ==
    ASSUME Inv, NEW r \in Requests, Insert(r)
    PROVE  [Audience!Next]_feed
<1>1. PICK m \in MessageIds, row \in Message : m = req[r].new /\ row = req[r].draft
    BY DEF Inv, TypeOK, Creating, Insert, Request
<1>2. m \notin Stored
    BY <1>1 DEF Inv, Fresh, Insert
<1>3. CASE row.channel \in channels /\ row.parent \in Stored \cup {NULL}
    <2>1. Audience!Post(m, row)
        BY <1>1, <1>2, <1>3, SameWords DEF Insert, GoneAlong, Audience!Post
    <2> QED
        BY <2>1, SameWords DEF Audience!Next
<1>4. CASE ~(row.channel \in channels /\ row.parent \in Stored \cup {NULL})
    BY <1>1, <1>4 DEF Insert, feed
<1> QED
    BY <1>3, <1>4

\* A broadcast, true or in doubt.
LEMMA BroadcastInFeed ==
    ASSUME NEW m \in MessageIds, NEW action \in {"create", "update", "delete"},
           NEW row \in Message, Broadcast(m, action, row),
           UNCHANGED <<channels, message, contended>>,
           m \notin contended /\ action # "create" => Told(m),
           m \in Stored => SamePlace(row, message[m]),
           m \notin contended => /\ IF m \in Stored THEN row = message[m] ELSE GoneAlong(row)
                                 /\ action = "create" => signal[m] = NULL
    PROVE  Audience!Next
<1>1. Audience!Tell(m, action, row)
    BY SameWords DEF Broadcast, Told, Audience!Tell, Audience!Truthful
<1> QED
    BY <1>1, SameWords DEF Audience!Next

LEMMA SignalCreateInFeed ==
    ASSUME Inv, Unheard, NEW r \in Requests, SignalCreate(r)
    PROVE  Audience!Next
<1>1. PICK m \in MessageIds, row \in Message : m = req[r].new /\ row = req[r].draft
    BY DEF Inv, TypeOK, Creating, SignalCreate, Request
<1>2. /\ req[r].pc = "signalCreate" /\ Broadcast(m, "create", row)
      /\ UNCHANGED <<channels, message, contended>>
    BY <1>1 DEF SignalCreate
<1>3. m \in Stored => SamePlace(row, message[m])
    BY <1>1, <1>2 DEF Inv, Places
<1>4. m \notin contended => IF m \in Stored THEN row = message[m] ELSE GoneAlong(row)
    BY <1>1, <1>2 DEF Inv, Works, WorkOK
<1>5. m \notin contended => signal[m] = NULL
    BY <1>1, <1>2 DEF Unheard
<1> QED
    BY <1>2, <1>3, <1>4, <1>5, BroadcastInFeed

\* An edit and a deletion tell the row they read, once nothing of it is dirty.
LEMMA ToldAsStored ==
    ASSUME Inv, Announced, NEW r \in Requests, req[r].pc \in {"signalUpdate", "signalDelete"},
           NEW m \in MessageIds, m = req[r].id, NEW row \in Message, row = req[r].row
    PROVE  /\ m \in Stored => SamePlace(row, message[m])
           /\ m \notin contended => IF m \in Stored THEN row = message[m] ELSE GoneAlong(row)
           /\ m \notin contended => Told(m)
<1>1. m \in Stored => SamePlace(row, message[m])
    BY DEF Inv, Places
<1>2. ASSUME m \notin contended, m \in Stored
      PROVE  row = message[m]
    <2>1. message[m] \in Message
        BY <1>2 DEF Inv, TypeOK, Stored
    <2>2. row.content = message[m].content /\ row.pinned = message[m].pinned
        BY <1>2 DEF Inv, Works, WorkOK
    <2> QED
        BY <1>1, <1>2, <2>1, <2>2 DEF SamePlace, Message
<1>3. m \notin contended /\ m \notin Stored => GoneAlong(row)
    BY DEF Inv, Works, WorkOK
<1>4. m \notin contended => Told(m)
    BY DEF Announced
<1> QED
    BY <1>1, <1>2, <1>3, <1>4

LEMMA SignalUpdateInFeed ==
    ASSUME Inv, Announced, NEW r \in Requests, SignalUpdate(r)
    PROVE  Audience!Next
<1>1. PICK m \in MessageIds, row \in Message : m = req[r].id /\ row = req[r].row
    BY DEF Inv, TypeOK, Creating, SignalUpdate, Request
<1>2. /\ req[r].pc = "signalUpdate" /\ Broadcast(m, "update", row)
      /\ UNCHANGED <<channels, message, contended>>
    BY <1>1 DEF SignalUpdate
<1> QED
    BY <1>1, <1>2, ToldAsStored, BroadcastInFeed

LEMMA SignalDeleteInFeed ==
    ASSUME Inv, Announced, NEW r \in Requests, SignalDelete(r)
    PROVE  Audience!Next
<1>1. PICK m \in MessageIds, row \in Message : m = req[r].id /\ row = req[r].row
    BY DEF Inv, TypeOK, Creating, SignalDelete, Request
<1>2. /\ req[r].pc = "signalDelete" /\ Broadcast(m, "delete", row)
      /\ UNCHANGED <<channels, message, contended>>
    BY <1>1 DEF SignalDelete
<1> QED
    BY <1>1, <1>2, ToldAsStored, BroadcastInFeed

LEMMA SaveInFeed ==
    ASSUME Inv, NEW r \in Requests, Save(r)
    PROVE  [Audience!Next]_feed
<1>1. PICK m \in MessageIds, row \in Message : m = req[r].id /\ row = req[r].row
    BY DEF Inv, TypeOK, Creating, Save, Request
<1>2. UNCHANGED <<channels, signal, contended, unannounced>>
    BY DEF Save
<1>3. CASE m \notin Stored
    BY <1>1, <1>2, <1>3 DEF Save, feed
<1>4. CASE m \in Stored
    <2> DEFINE content == IF "content" \in Dirty(req[r]) THEN row.content
                                                         ELSE message[m].content
               pinned == IF "pinned" \in Dirty(req[r]) THEN row.pinned ELSE message[m].pinned
    <2>1. message[m] \in Message
        BY <1>4 DEF Inv, TypeOK, Stored
    <2>2. content \in Contents /\ pinned \in BOOLEAN
        BY <2>1 DEF Message
    <2>3. message' = [message EXCEPT ![m].content = content, ![m].pinned = pinned]
        BY <1>1, <1>4, <2>1 DEF Save, Inv, TypeOK, Message
    <2> HIDE DEF content, pinned
    <2>4. Audience!Edit(m, content, pinned)
        BY <1>2, <1>4, <2>3, SameWords DEF Audience!Edit
    <2> QED
        BY <2>2, <2>4 DEF Audience!Next
<1> QED
    BY <1>3, <1>4

\* A cascade is what Feed lets go.
LEMMA DeleteInFeed ==
    ASSUME NEW roots \in SUBSET Stored, Delete(roots)
    PROVE  Audience!Go(roots)
<1>1. PICK gone \in SUBSET Stored : gone = Replies(roots)
    BY RepliesOK
<1>2. /\ roots \subseteq gone /\ Closed(gone)
      /\ \A m \in gone \ roots : message[m].parent \in gone
    BY <1>1, RepliesOK
<1>3. message' = [m \in MessageIds |-> IF m \in gone THEN NULL ELSE message[m]]
    BY <1>1 DEF Delete
<1> QED
    BY <1>2, <1>3, SameWords DEF Audience!Go, Closed

LEMMA DeleteRowInFeed ==
    ASSUME Inv, NEW r \in Requests, DeleteRow(r)
    PROVE  [Audience!Next]_feed
<1>1. PICK m \in MessageIds : m = req[r].id
    BY DEF Inv, TypeOK, Creating, DeleteRow, Request
<1>2. /\ req[r].pc = "deleteRow" /\ Delete({m} \cap Stored)
      /\ UNCHANGED <<channels, signal, contended, unannounced>>
    BY <1>1 DEF DeleteRow
<1>3. CASE m \in Stored
    <2>1. {m} \cap Stored = {m}
        BY <1>3
    <2>2. m \notin contended => signal[m] # NULL /\ signal[m].action = "delete"
        BY <1>1, <1>2 DEF Inv, Works, WorkOK
    <2>3. Audience!Go({m})
        BY <1>2, <1>3, <2>1, DeleteInFeed
    <2>4. Audience!Remove(m)
        BY <1>2, <1>3, <2>2, <2>3, SameWords DEF Audience!Remove
    <2> QED
        BY <2>4 DEF Audience!Next
<1>4. CASE m \notin Stored
    <2>1. {m} \cap Stored = {} /\ Closed({})
        BY <1>4 DEF Closed
    <2>2. Replies({}) = {}
        BY <2>1 DEF Replies
    <2>3. message' = [n \in MessageIds |-> message[n]]
        BY <1>2, <2>1, <2>2 DEF Delete
    <2> QED
        BY <1>2, <2>3 DEF feed, Inv, TypeOK
<1> QED
    BY <1>3, <1>4

LEMMA DeleteChannelInFeed ==
    ASSUME NEW c \in ChannelIds, DeleteChannel(c)
    PROVE  Audience!Next
<1> DEFINE roots == {m \in Stored : message[m].channel = c}
<1>1. Audience!Go(roots)
    BY DeleteInFeed DEF DeleteChannel
<1>2. Audience!Close(c)
    BY <1>1, SameWords DEF DeleteChannel, Audience!Close
<1> QED
    BY <1>2 DEF Audience!Next

LEMMA FailInFeed ==
    ASSUME Inv, NEW r \in Requests, Fail(r)
    PROVE  Audience!Next
<1> DEFINE silent == IF req[r].pc = "signalCreate" THEN {req[r].new} \cap Stored ELSE {}
<1>1. /\ Handled(r) \cap Stored \in SUBSET MessageIds
      /\ silent \in SUBSET (Handled(r) \cap Stored)
    BY NullIsNothing DEF Handled, Stored
<1>2. Audience!Doubt(Handled(r) \cap Stored, silent)
    BY DEF Fail, Audience!Doubt
<1> QED
    BY <1>1, <1>2 DEF Audience!Next

LEMMA StepInFeed == Inv /\ Unheard /\ Announced /\ [Next]_vars => [Audience!Next]_feed
<1> SUFFICES ASSUME Inv, Unheard, Announced, [Next]_vars
             PROVE  [Audience!Next]_feed
    OBVIOUS
<1>1. ASSUME NEW r \in Requests, Continue(r)
      PROVE  [Audience!Next]_feed
    <2>1. CASE FindAgain(r)
        BY <2>1 DEF FindAgain, feed
    <2> QED
        BY <1>1, <2>1, InsertInFeed, SignalCreateInFeed, SignalUpdateInFeed, SaveInFeed,
           SignalDeleteInFeed, DeleteRowInFeed DEF Continue
<1>2. CASE UNCHANGED vars
    BY <1>2 DEF vars, feed
<1> QED
    BY <1>1, <1>2, ReceiveInFeed, DeleteChannelInFeed, FailInFeed DEF Next

\* A step without a broadcast, after which no creation comes to its broadcast, and
\* whose message comes out of contention only if no request handles it.
LEMMA UnheardStays ==
    ASSUME Inv, Unheard, UNCHANGED signal, NEW r \in Requests, NEW x,
           req' = [req EXCEPT ![r] = x], x.pc # "signalCreate",
           \A m \in contended \ contended' : Quiet(m)
    PROVE  Unheard'
<1> SUFFICES ASSUME NEW q \in Requests, req'[q].pc = "signalCreate",
                    req'[q].new \notin contended'
             PROVE  signal[req'[q].new] = NULL
    BY DEF Unheard
<1>1. q # r /\ req'[q] = req[q]
    BY DEF Inv, TypeOK
<1>2. req[q].new \in Handled(q)
    BY <1>1 DEF Inv, TypeOK, Creating, Handled
<1>3. req[q].new \notin contended
    BY <1>1, <1>2 DEF Quiet
<1> QED
    BY <1>1, <1>3 DEF Unheard

\* A broadcast about a message that its request handles.
LEMMA UnheardTold ==
    ASSUME Inv, Unheard, NEW r \in Requests, NEW m \in Handled(r), NEW action, NEW row, NEW x,
           Broadcast(m, action, row), req' = [req EXCEPT ![r] = x], x.pc # "signalCreate",
           UNCHANGED contended
    PROVE  Unheard'
<1> SUFFICES ASSUME NEW q \in Requests, req'[q].pc = "signalCreate",
                    req'[q].new \notin contended
             PROVE  signal'[req'[q].new] = NULL
    BY DEF Unheard
<1>1. q # r /\ req'[q] = req[q]
    BY DEF Inv, TypeOK
<1>2. req[q].new \in Handled(q) /\ req[q].new \in MessageIds
    BY <1>1 DEF Inv, TypeOK, Creating, Handled, Request
<1>3. req[q].new # m
    BY <1>1, <1>2 DEF Inv, Alone
<1> QED
    BY <1>1, <1>2, <1>3 DEF Unheard, Broadcast, Inv, TypeOK

LEMMA UnheardInsert ==
    ASSUME Inv, Unheard, NEW r \in Requests, Insert(r)
    PROVE  Unheard'
<1>1. PICK m \in MessageIds, row \in Message : m = req[r].new /\ row = req[r].draft
    BY DEF Inv, TypeOK, Creating, Insert, Request
<1>2. CASE row.channel \in channels /\ row.parent \in Stored \cup {NULL}
    <2>1. /\ signal' = [signal EXCEPT ![m] = NULL] /\ contended' = contended \ {m}
          /\ req' = [req EXCEPT ![r].pc = "signalCreate"]
        BY <1>1, <1>2 DEF Insert, Goto
    <2> SUFFICES ASSUME NEW q \in Requests, req'[q].pc = "signalCreate",
                        req'[q].new \notin contended'
                 PROVE  signal'[req'[q].new] = NULL
        BY DEF Unheard
    <2>2. CASE q = r
        <3>1. req'[q].new = m
            BY <1>1, <2>1, <2>2 DEF Inv, TypeOK, Request
        <3> QED
            BY <2>1, <3>1 DEF Inv, TypeOK
    <2>3. CASE q # r
        <3>1. req'[q] = req[q]
            BY <2>1, <2>3 DEF Inv, TypeOK
        <3>2. req[q].new \in Handled(q)
            BY <2>3, <3>1 DEF Inv, TypeOK, Creating, Handled
        <3>3. req[q].new # m
            BY <1>1, <2>3, <3>2 DEF Inv, Fresh, Insert
        <3>4. req[q].new \in MessageIds /\ req[q].new \notin contended
            BY <2>1, <3>1, <3>2, <3>3 DEF Inv, TypeOK, Request, Handled
        <3>5. signal[req[q].new] = NULL
            BY <3>1, <3>4 DEF Unheard
        <3> QED
            BY <2>1, <3>1, <3>3, <3>4, <3>5 DEF Inv, TypeOK
    <2> QED
        BY <2>2, <2>3
<1>3. CASE ~(row.channel \in channels /\ row.parent \in Stored \cup {NULL})
    BY <1>1, <1>3, IdleOK, UnheardStays DEF Insert, Finish
<1> QED
    BY <1>2, <1>3

LEMMA UnheardStart ==
    ASSUME Inv, Unheard, NEW r \in Requests, NEW m \in MessageIds, NEW x,
           StartOn(r, m, x), x.pc # "signalCreate"
    PROVE  Unheard'
BY UnheardStays DEF StartOn

LEMMA UnheardReceive ==
    ASSUME Inv, Unheard, NEW r \in Requests, Receive(r)
    PROVE  Unheard'
<1>1. ASSUME NEW m \in MessageIds, NEW row \in Message, StartCreate(r, m, row)
      PROVE  Unheard'
    <2> DEFINE x == [Idle EXCEPT !.pc = "insert", !.new = m, !.draft = row]
    <2>1. x.pc = "insert"
        BY DEF Idle
    <2>2. req' = [req EXCEPT ![r] = x] /\ UNCHANGED <<signal, contended>>
        BY <1>1 DEF StartCreate
    <2> HIDE DEF x
    <2> QED
        BY <2>1, <2>2, UnheardStays
<1>2. ASSUME NEW m \in MessageIds, NEW content \in NewContents, NEW pinned \in NewPinned,
             StartEdit(r, m, content, pinned)
      PROVE  Unheard'
    <2> DEFINE row == [message[m] EXCEPT !.content = content,
                                         !.pinned = IF pinned = NULL THEN @ ELSE pinned]
               x == [Idle EXCEPT !.pc = "save", !.id = m, !.row = row, !.was = message[m],
                                 !.asked = {c \in Columns : row[c] # message[m][c]}]
    <2>1. StartOn(r, m, x) /\ x.pc = "save"
        BY <1>2 DEF StartEdit, Idle
    <2> HIDE DEF row, x
    <2> QED
        BY <2>1, UnheardStart
<1>3. ASSUME NEW m \in MessageIds, NEW a \in MessageIds, StartPin(r, m, a)
      PROVE  Unheard'
    <2>1. PICK x : StartOn(r, m, x) /\ x.pc = "insert"
        BY <1>3 DEF StartPin
    <2> QED
        BY <2>1, UnheardStart
<1>4. ASSUME NEW m \in MessageIds, StartDestroy(r, m)
      PROVE  Unheard'
    <2> DEFINE x == [Idle EXCEPT !.pc = "signalDelete", !.id = m, !.row = message[m],
                                 !.was = message[m]]
    <2>1. StartOn(r, m, x) /\ x.pc = "signalDelete"
        BY <1>4 DEF StartDestroy, Idle
    <2> HIDE DEF x
    <2> QED
        BY <2>1, UnheardStart
<1> QED
    BY <1>1, <1>2, <1>3, <1>4 DEF Receive

LEMMA UnheardContinue ==
    ASSUME Inv, Unheard, NEW r \in Requests, Continue(r)
    PROVE  Unheard'
<1>1. req[r].pc \in {"signalCreate", "findAgain", "save", "signalUpdate", "signalDelete",
                     "deleteRow"} =>
        /\ req[r].pc = "signalCreate" => req[r].new \in Handled(r)
        /\ req[r].pc # "signalCreate" => req[r].id \in Handled(r)
    BY DEF Inv, TypeOK, Creating, Handled
<1>2. CASE SignalCreate(r)
    <2>1. PICK x : req' = [req EXCEPT ![r] = x] /\ x.pc # "signalCreate"
        <3>1. CASE req[r].id = NULL
            BY <1>2, <3>1, IdleOK DEF SignalCreate, Finish
        <3>2. CASE req[r].id # NULL
            <4> DEFINE y == [req[r] EXCEPT !.pc = "findAgain", !.new = NULL, !.draft = NULL]
            <4>1. y.pc = "findAgain"
                BY DEF Inv, TypeOK, Request
            <4>2. req' = [req EXCEPT ![r] = y]
                BY <1>2, <3>2 DEF SignalCreate, Inv, TypeOK
            <4> QED
                BY <4>1, <4>2
        <3> QED
            BY <3>1, <3>2
    <2> QED
        BY <1>1, <1>2, <2>1, UnheardTold DEF SignalCreate
<1>3. CASE SignalUpdate(r)
    BY <1>1, <1>3, IdleOK, UnheardTold DEF SignalUpdate, Finish
<1>4. CASE SignalDelete(r)
    <2> DEFINE x == [req[r] EXCEPT !.pc = "deleteRow"]
    <2>1. x.pc = "deleteRow"
        BY DEF Inv, TypeOK, Request
    <2>2. req' = [req EXCEPT ![r] = x]
        BY <1>4 DEF SignalDelete, Goto, Inv, TypeOK
    <2> HIDE DEF x
    <2> QED
        BY <1>1, <1>4, <2>1, <2>2, UnheardTold DEF SignalDelete
<1>5. CASE Save(r) \/ FindAgain(r) \/ DeleteRow(r)
    <2>1. PICK x : req' = [req EXCEPT ![r] = x] /\ x.pc \in {"signalUpdate", "save", "idle"}
        <3>1. CASE Save(r)
            <4> DEFINE y == [req[r] EXCEPT !.pc = "signalUpdate", !.was = req[r].row, !.asked = {}]
            <4>1. y.pc = "signalUpdate" /\ req' = [req EXCEPT ![r] = y]
                BY <3>1 DEF Save, Inv, TypeOK, Request
            <4> QED
                BY <4>1
        <3>2. CASE FindAgain(r)
            <4> DEFINE y == [req[r] EXCEPT !.pc = "save"]
            <4>1. y.pc = "save"
                BY DEF Inv, TypeOK, Request
            <4>2. req' = [req EXCEPT ![r] = y] \/ req' = [req EXCEPT ![r] = Idle]
                BY <3>2 DEF FindAgain, Goto, Finish, Inv, TypeOK
            <4> QED
                BY <4>1, <4>2, IdleOK
        <3>3. CASE DeleteRow(r)
            BY <3>3, IdleOK DEF DeleteRow, Finish
        <3> QED
            BY <1>5, <3>1, <3>2, <3>3
    <2> QED
        BY <1>5, <2>1, UnheardStays DEF Save, FindAgain, DeleteRow
<1> QED
    BY <1>2, <1>3, <1>4, <1>5, UnheardInsert DEF Continue

LEMMA StepUnheard == Inv /\ Unheard /\ [Next]_vars => Unheard'
<1> SUFFICES ASSUME Inv, Unheard, [Next]_vars
             PROVE  Unheard'
    OBVIOUS
<1>1. ASSUME NEW r \in Requests, Fail(r)
      PROVE  Unheard'
    BY <1>1, IdleOK, UnheardStays DEF Fail, Finish
<1>2. ASSUME NEW c \in ChannelIds, DeleteChannel(c)
      PROVE  Unheard'
    BY <1>2 DEF DeleteChannel, Unheard
<1>3. CASE UNCHANGED vars
    BY <1>3 DEF vars, Unheard
<1> QED
    BY <1>1, <1>2, <1>3, UnheardReceive, UnheardContinue DEF Next

\* A step of r that takes nothing from what was told, starts no work on another
\* message, and announces or gives up the creation that r was about to tell.
LEMMA AnnouncedStays ==
    ASSUME Inv, Announced, NEW r \in Requests, NEW x, req' = [req EXCEPT ![r] = x],
           \A m \in MessageIds : Told(m) => Told(m)',
           Stored' \subseteq Stored, contended \subseteq contended',
           x.id \in {NULL, req[r].id},
           \A m \in Stored' : req[r].pc = "signalCreate" /\ req[r].new = m => Told(m)'
    PROVE  Announced'
<1>1. req'[r] = x /\ \A q \in Requests : q # r => req'[q] = req[q]
    BY DEF Inv, TypeOK
<1>2. ASSUME NEW m \in Stored'
      PROVE  Told(m)' \/ \E q \in Requests : req'[q].pc = "signalCreate" /\ req'[q].new = m
    <2>1. m \in Stored /\ m \in MessageIds
        BY <1>2 DEF Stored
    <2>2. CASE Told(m)
        BY <2>1, <2>2
    <2>3. CASE ~ Told(m)
        <3>1. PICK q \in Requests : req[q].pc = "signalCreate" /\ req[q].new = m
            BY <2>1, <2>3 DEF Announced
        <3> QED
            BY <1>1, <1>2, <3>1
    <2> QED
        BY <2>2, <2>3
<1>3. ASSUME NEW m \in MessageIds \ contended', NEW q \in Requests, req'[q].id = m
      PROVE  Told(m)'
    <2>1. req[q].id = m
        BY <1>1, <1>3, NullIsNothing
    <2> QED
        BY <1>3, <2>1 DEF Announced
<1> QED
    BY <1>2, <1>3 DEF Announced

\* A request that meets no other one on its message finds it told.
LEMMA AnnouncedStart ==
    ASSUME Inv, Announced, NEW r \in Requests, NEW m \in MessageIds, NEW x,
           StartOn(r, m, x), x.id = m
    PROVE  Announced'
<1>1. /\ req[r].pc = "idle" /\ m \in Stored
      /\ req' = [req EXCEPT ![r] = x]
      /\ contended' = IF Quiet(m) THEN contended \ {m} ELSE contended \cup {m}
      /\ UNCHANGED <<message, signal, unannounced>>
    BY DEF StartOn
<1>2. req'[r] = x /\ \A q \in Requests : q # r => req'[q] = req[q]
    BY <1>1 DEF Inv, TypeOK
<1>3. Stored' = Stored /\ \A n : Told(n)' <=> Told(n)
    BY <1>1 DEF Stored, Told
<1>4. ASSUME NEW n \in Stored
      PROVE  Told(n) \/ \E q \in Requests : req'[q].pc = "signalCreate" /\ req'[q].new = n
    BY <1>1, <1>2 DEF Announced
<1>5. ASSUME Quiet(m)
      PROVE  Told(m)
    <2>1. ASSUME NEW q \in Requests, req[q].pc = "signalCreate", req[q].new = m
          PROVE  m \in Handled(q)
        BY <2>1, NullIsNothing DEF Handled
    <2> QED
        BY <1>1, <1>5, <2>1 DEF Announced, Quiet
<1>6. ASSUME NEW n \in MessageIds \ contended', NEW q \in Requests, req'[q].id = n
      PROVE  Told(n)
    <2>1. CASE n = m
        BY <1>1, <1>5, <1>6, <2>1
    <2>2. CASE n # m
        BY <1>1, <1>2, <1>6, <2>2 DEF Announced
    <2> QED
        BY <2>1, <2>2
<1> QED
    BY <1>3, <1>4, <1>6 DEF Announced

LEMMA AnnouncedReceive ==
    ASSUME Inv, Announced, NEW r \in Requests, Receive(r)
    PROVE  Announced'
<1>1. ASSUME NEW m \in MessageIds, NEW row \in Message, StartCreate(r, m, row)
      PROVE  Announced'
    <2> DEFINE x == [Idle EXCEPT !.pc = "insert", !.new = m, !.draft = row]
    <2>1. x.id = NULL
        BY DEF Idle
    <2>2. /\ req[r].pc = "idle" /\ req' = [req EXCEPT ![r] = x]
          /\ UNCHANGED <<message, signal, contended, unannounced>>
        BY <1>1 DEF StartCreate
    <2> HIDE DEF x
    <2>3. Stored' = Stored /\ \A n : Told(n)' <=> Told(n)
        BY <2>2 DEF Stored, Told
    <2> QED
        BY <2>1, <2>2, <2>3, AnnouncedStays
<1>2. ASSUME NEW m \in MessageIds, NEW content \in NewContents, NEW pinned \in NewPinned,
             StartEdit(r, m, content, pinned)
      PROVE  Announced'
    <2> DEFINE row == [message[m] EXCEPT !.content = content,
                                         !.pinned = IF pinned = NULL THEN @ ELSE pinned]
               x == [Idle EXCEPT !.pc = "save", !.id = m, !.row = row, !.was = message[m],
                                 !.asked = {c \in Columns : row[c] # message[m][c]}]
    <2>1. StartOn(r, m, x) /\ x.id = m
        BY <1>2 DEF StartEdit, Idle
    <2> HIDE DEF row, x
    <2> QED
        BY <2>1, AnnouncedStart
<1>3. ASSUME NEW m \in MessageIds, NEW a \in MessageIds, StartPin(r, m, a)
      PROVE  Announced'
    <2>1. \E x : StartOn(r, m, x) /\ x.id = m
        BY <1>3 DEF StartPin
    <2> QED
        BY <2>1, AnnouncedStart
<1>4. ASSUME NEW m \in MessageIds, StartDestroy(r, m)
      PROVE  Announced'
    <2> DEFINE x == [Idle EXCEPT !.pc = "signalDelete", !.id = m, !.row = message[m],
                                 !.was = message[m]]
    <2>1. StartOn(r, m, x) /\ x.id = m
        BY <1>4 DEF StartDestroy, Idle
    <2> HIDE DEF x
    <2> QED
        BY <2>1, AnnouncedStart
<1> QED
    BY <1>1, <1>2, <1>3, <1>4 DEF Receive

LEMMA AnnouncedInsert ==
    ASSUME Inv, Announced, NEW r \in Requests, Insert(r)
    PROVE  Announced'
<1>1. PICK m \in MessageIds, row \in Message : m = req[r].new /\ row = req[r].draft
    BY DEF Inv, TypeOK, Creating, Insert, Request
<1>2. CASE row.channel \in channels /\ row.parent \in Stored \cup {NULL}
    <2>1. /\ message' = [message EXCEPT ![m] = row]
          /\ signal' = [signal EXCEPT ![m] = NULL] /\ contended' = contended \ {m}
          /\ unannounced' = unannounced \ {m}
          /\ req' = [req EXCEPT ![r].pc = "signalCreate"]
        BY <1>1, <1>2 DEF Insert, Goto
    <2>2. /\ req'[r].pc = "signalCreate" /\ req'[r].new = m
          /\ \A q \in Requests : req'[q].id = req[q].id /\ req'[q].new = req[q].new
          /\ \A q \in Requests : q # r => req'[q] = req[q]
        BY <1>1, <2>1 DEF Inv, TypeOK, Request
    <2>3. /\ Stored' = Stored \cup {m}
          /\ \A n \in MessageIds : n # m => (Told(n)' <=> Told(n))
        BY <1>1, <2>1, NullIsNothing DEF Stored, Told, Inv, TypeOK
    <2>4. \A q \in Requests : req[q].id # m
        BY <1>1, NullIsNothing DEF Inv, Fresh, Insert, Handled
    <2>5. req[r].pc = "insert"
        BY DEF Insert
    <2>6. ASSUME NEW n \in Stored'
          PROVE  Told(n)' \/ \E q \in Requests : req'[q].pc = "signalCreate" /\ req'[q].new = n
        <3>1. CASE n = m
            BY <2>2, <3>1
        <3>2. CASE n # m
            <4>1. n \in Stored /\ n \in MessageIds
                BY <2>3, <2>6, <3>2 DEF Stored
            <4>2. Told(n) \/ \E q \in Requests : req[q].pc = "signalCreate" /\ req[q].new = n
                BY <4>1 DEF Announced
            <4> QED
                BY <2>2, <2>3, <2>5, <3>2, <4>1, <4>2
        <3> QED
            BY <3>1, <3>2
    <2>7. ASSUME NEW n \in MessageIds \ contended', NEW q \in Requests, req'[q].id = n
          PROVE  Told(n)'
        BY <2>1, <2>2, <2>3, <2>4, <2>7 DEF Announced
    <2> QED
        BY <2>6, <2>7 DEF Announced
<1>3. CASE ~(row.channel \in channels /\ row.parent \in Stored \cup {NULL})
    <2>1. Finish(r) /\ UNCHANGED <<message, signal, contended, unannounced>>
          /\ req[r].pc = "insert"
        BY <1>1, <1>3 DEF Insert
    <2>2. Stored' = Stored /\ \A n : Told(n)' <=> Told(n)
        BY <2>1 DEF Stored, Told
    <2> QED
        BY <2>1, <2>2, IdleOK, AnnouncedStays DEF Finish
<1> QED
    BY <1>2, <1>3

\* What is broadcast is told.
LEMMA AnnouncedBroadcast ==
    ASSUME Inv, Announced, NEW r \in Requests, NEW x, req' = [req EXCEPT ![r] = x],
           NEW m \in MessageIds, NEW action \in {"create", "update", "delete"},
           NEW row \in Message, Broadcast(m, action, row),
           UNCHANGED <<message, contended>>, x.id \in {NULL, req[r].id},
           req[r].pc = "signalCreate" => m = req[r].new
    PROVE  Announced'
<1>1. Stored' = Stored
    BY DEF Stored
<1>2. signal'[m] # NULL
    BY BroadcastOK DEF Inv
<1>3. \A n \in MessageIds : Told(n) => Told(n)'
    BY <1>2 DEF Told, Broadcast, Inv, TypeOK
<1>4. Told(m)'
    BY <1>2 DEF Told
<1> QED
    BY <1>1, <1>3, <1>4, AnnouncedStays

LEMMA AnnouncedContinue ==
    ASSUME Inv, Announced, NEW r \in Requests, Continue(r)
    PROVE  Announced'
<1>1. req[r] \in Request
    BY DEF Inv, TypeOK
<1>2. CASE SignalCreate(r)
    <2>1. req[r].pc = "signalCreate" /\ req[r].new \in MessageIds /\ req[r].draft \in Message
        BY <1>1, <1>2 DEF SignalCreate, Inv, TypeOK, Creating, Request
    <2>2. PICK x : req' = [req EXCEPT ![r] = x] /\ x.id \in {NULL, req[r].id}
        <3>1. CASE req[r].id = NULL
            BY <1>2, <3>1, IdleOK DEF SignalCreate, Finish
        <3>2. CASE req[r].id # NULL
            <4> DEFINE y == [req[r] EXCEPT !.pc = "findAgain", !.new = NULL, !.draft = NULL]
            <4>1. req' = [req EXCEPT ![r] = y] /\ y.id = req[r].id
                BY <1>1, <1>2, <3>2 DEF SignalCreate, Inv, TypeOK, Request
            <4> QED
                BY <4>1
        <3> QED
            BY <3>1, <3>2
    <2> QED
        BY <1>2, <2>1, <2>2, AnnouncedBroadcast DEF SignalCreate
<1>3. CASE SignalUpdate(r) \/ SignalDelete(r)
    <2>1. /\ req[r].pc # "signalCreate" /\ req[r].id \in MessageIds /\ req[r].row \in Message
          /\ UNCHANGED <<message, contended>>
          /\ \E action \in {"update", "delete"} : Broadcast(req[r].id, action, req[r].row)
        BY <1>1, <1>3 DEF SignalUpdate, SignalDelete, Inv, TypeOK, Creating, Request
    <2>2. PICK x : req' = [req EXCEPT ![r] = x] /\ x.id \in {NULL, req[r].id}
        <3> DEFINE y == [req[r] EXCEPT !.pc = "deleteRow"]
        <3>1. y.id = req[r].id
            BY <1>1 DEF Request
        <3>2. req' = [req EXCEPT ![r] = y] \/ req' = [req EXCEPT ![r] = Idle]
            BY <1>3 DEF SignalUpdate, SignalDelete, Goto, Finish, Inv, TypeOK
        <3> QED
            BY <3>1, <3>2, IdleOK
    <2> QED
        BY <2>1, <2>2, AnnouncedBroadcast
<1>4. CASE Save(r) \/ FindAgain(r) \/ DeleteRow(r)
    <2>1. /\ req[r].pc # "signalCreate"
          /\ UNCHANGED <<signal, contended, unannounced>>
        BY <1>4 DEF Save, FindAgain, DeleteRow
    <2>2. Stored' \subseteq Stored
        BY <1>4 DEF Save, FindAgain, DeleteRow, Delete, Stored, Inv, TypeOK
    <2>3. \A n : Told(n)' <=> Told(n)
        BY <2>1 DEF Told
    <2>4. PICK x : req' = [req EXCEPT ![r] = x] /\ x.id \in {NULL, req[r].id}
        <3> DEFINE y == [req[r] EXCEPT !.pc = "signalUpdate", !.was = req[r].row, !.asked = {}]
                   z == [req[r] EXCEPT !.pc = "save"]
        <3>1. y.id = req[r].id /\ z.id = req[r].id
            BY <1>1 DEF Request
        <3>2. \/ req' = [req EXCEPT ![r] = y] \/ req' = [req EXCEPT ![r] = z]
              \/ req' = [req EXCEPT ![r] = Idle]
            BY <1>4 DEF Save, FindAgain, DeleteRow, Goto, Finish, Inv, TypeOK
        <3> QED
            BY <3>1, <3>2, IdleOK
    <2> QED
        BY <2>1, <2>2, <2>3, <2>4, AnnouncedStays
<1> QED
    BY <1>2, <1>3, <1>4, AnnouncedInsert DEF Continue

LEMMA StepAnnounced == Inv /\ Announced /\ [Next]_vars => Announced'
<1> SUFFICES ASSUME Inv, Announced, [Next]_vars
             PROVE  Announced'
    OBVIOUS
<1>1. ASSUME NEW r \in Requests, Fail(r)
      PROVE  Announced'
    <2>1. /\ Finish(r) /\ UNCHANGED <<message, signal>>
          /\ contended \subseteq contended' /\ unannounced \subseteq unannounced'
          /\ req[r].pc = "signalCreate" /\ req[r].new \in Stored => req[r].new \in unannounced'
        BY <1>1 DEF Fail
    <2>2. Stored' = Stored /\ \A n : Told(n) => Told(n)'
        BY <2>1 DEF Stored, Told
    <2> QED
        BY <2>1, <2>2, IdleOK, AnnouncedStays DEF Finish, Told
<1>2. ASSUME NEW c \in ChannelIds, DeleteChannel(c)
      PROVE  Announced'
    <2>1. UNCHANGED <<signal, req, contended, unannounced>>
        BY <1>2 DEF DeleteChannel
    <2>2. Stored' \subseteq Stored
        BY <1>2 DEF DeleteChannel, Delete, Stored
    <2> QED
        BY <2>1, <2>2 DEF Announced, Told
<1>3. CASE UNCHANGED vars
    BY <1>3 DEF vars, Announced, Told, Stored
<1> QED
    BY <1>1, <1>2, <1>3, AnnouncedReceive, AnnouncedContinue DEF Next

\* Messages implement Feed, whatever requests meet and whatever fails: each statement
\* and each broadcast of MessageService is one step of it or none.  Of a message that
\* is not contended the first broadcast is its creation, unless the request that
\* inserted it failed before it could announce it.
THEOREM ImplementsAudience == Spec => ImplementsFeed
<1>1. Init => Unheard /\ Announced /\ Audience!Init
    BY IdleOK, NullIsNothing DEF Init, Unheard, Announced, Stored, Audience!Init
<1>2. Inv /\ Unheard /\ [Next]_vars => Unheard'
    BY StepUnheard
<1>3. Inv /\ Announced /\ [Next]_vars => Announced'
    BY StepAnnounced
<1>4. Inv /\ Unheard /\ Announced /\ [Next]_vars => [Audience!Next]_Audience!vars
    BY StepInFeed DEF feed, Audience!vars
<1> QED
    BY <1>1, <1>2, <1>3, <1>4, Invariant, PTL DEF Spec, ImplementsFeed, Audience!Spec
=============================================================================
