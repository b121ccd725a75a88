-------------------------------- MODULE Feed --------------------------------
(***************************************************************************)
(* What the service for messages promises to those who follow a channel:   *)
(* every broadcast about a message is true in the step that makes it, the  *)
(* first one and no other says that it was created, and it goes when they  *)
(* were told so.                                                           *)
(*                                                                         *)
(* Three things are not promised.  What goes with its channel, or with the *)
(* message it replies to, goes without a word, and may be spoken of after  *)
(* that.  Of a message whose creation was never announced, a later change  *)
(* may be the first thing said.  And a message in doubt may be spoken of   *)
(* wrongly, but not in another channel or as a reply to another message.   *)
(***************************************************************************)
CONSTANTS MessageIds, ChannelIds, Contents, NULL

Message == [content: Contents, pinned: BOOLEAN, channel: ChannelIds,
            parent: MessageIds \cup {NULL}]

VARIABLES
    channels,       \* the channels there are
    said,           \* message id -> the message, NULL if there is none
    heard,          \* message id -> the last broadcast about it, or NULL
    doubt,          \* messages of which anything may have been told
    unannounced     \* messages of which nothing was told, and of which nobody
                    \* will tell any more that they were created

vars == <<channels, said, heard, doubt, unannounced>>

Init ==
    /\ channels = ChannelIds
    /\ said = [m \in MessageIds |-> NULL]
    /\ heard = [m \in MessageIds |-> NULL]
    /\ doubt = {}
    /\ unannounced = {}

There == {m \in MessageIds : said[m] # NULL}
Lost(row) == row.channel \notin channels \/ row.parent \notin There \cup {NULL}
SamePlace(row, other) == row.channel = other.channel /\ row.parent = other.parent

\* A new message, of which nothing was heard.
Post(m, row) ==
    /\ said' = [said EXCEPT ![m] = row]
    /\ m \notin There /\ ~ Lost(row)
    /\ heard' = [heard EXCEPT ![m] = NULL]
    /\ doubt' = doubt \ {m}
    /\ unannounced' = unannounced \ {m}
    /\ UNCHANGED channels

Edit(m, content, pinned) ==
    /\ m \in There
    /\ said' = [said EXCEPT ![m].content = content, ![m].pinned = pinned]
    /\ UNCHANGED <<channels, heard, doubt, unannounced>>

\* What may be told of m by a broadcast that is not in doubt.
Truthful(m, action, row) ==
    /\ IF m \in There THEN row = said[m] ELSE Lost(row)
    /\ action = "create" => heard[m] = NULL
    /\ action # "create" => heard[m] # NULL \/ m \in unannounced

Tell(m, action, row) ==
    /\ heard' = [heard EXCEPT ![m] = [action |-> action, message |-> row]]
    /\ m \in There => SamePlace(row, said[m])
    /\ m \in doubt \/ Truthful(m, action, row)
    /\ unannounced' = unannounced \ {m}
    /\ UNCHANGED <<channels, said, doubt>>

\* The roots go, what replies to what goes, and nothing else.
Go(roots) ==
    \E gone \in SUBSET There :
        /\ roots \subseteq gone
        /\ \A m \in There : said[m].parent \in gone => m \in gone
        /\ \A m \in gone \ roots : said[m].parent \in gone
        /\ said' = [m \in MessageIds |-> IF m \in gone THEN NULL ELSE said[m]]

Remove(m) ==
    /\ m \in There
    /\ m \in doubt \/ (heard[m] # NULL /\ heard[m].action = "delete")
    /\ Go({m})
    /\ UNCHANGED <<channels, heard, doubt, unannounced>>

Close(c) ==
    /\ channels' = channels \ {c}
    /\ Go({m \in There : said[m].channel = c})
    /\ UNCHANGED <<heard, doubt, unannounced>>

\* A request that works on some messages met another one on them, or failed; it
\* may have been about to announce the ones in silent.
Doubt(some, silent) ==
    /\ doubt' = doubt \cup some
    /\ unannounced' = unannounced \cup silent
    /\ UNCHANGED <<channels, said, heard>>

Settle(m) ==
    /\ m \in There
    /\ doubt' = doubt \ {m}
    /\ UNCHANGED <<channels, said, heard, unannounced>>

Next ==
    \/ \E m \in MessageIds, row \in Message : Post(m, row)
    \/ \E m \in MessageIds, content \in Contents, pinned \in BOOLEAN : Edit(m, content, pinned)
    \/ \E m \in MessageIds, action \in {"create", "update", "delete"}, row \in Message :
          Tell(m, action, row)
    \/ \E m \in MessageIds : Remove(m) \/ Settle(m)
    \/ \E c \in ChannelIds : Close(c)
    \/ \E some \in SUBSET MessageIds : \E silent \in SUBSET some : Doubt(some, silent)

Spec == Init /\ [][Next]_vars
=============================================================================
