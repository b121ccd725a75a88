------------------------------ MODULE Posters ------------------------------
(***************************************************************************)
(* What the service for webhooks promises, one atomic step per promise:    *)
(* who may post into which channel, and the name each is known by there.   *)
(*                                                                         *)
(* Who calls a poster gets a licence, for one post into its channel, while *)
(* it exists, is signed and has a user.  A poster is changed, used or      *)
(* removed only while its channel knows it by its name, so that the        *)
(* channel is one broadcast behind at most.                                *)
(*                                                                         *)
(* Of a poster that is in doubt less is promised: it stays in its channel, *)
(* and its name is nobody else's there; a licence is still needed, but it  *)
(* is still used when the poster was removed or lost its token since.      *)
(***************************************************************************)
CONSTANTS Hooks, Channels, Names, Owners, PostIds, Requests, NULL

Tokens == {"signed", "other"}

VARIABLES
    poster,         \* id -> its channel, name, user and token; NULL if none
    channels,       \* the channels there are
    posts,          \* what was posted: id -> by whom and where, NULL if nothing
    licence,        \* caller -> the poster it may use and the channel it may
                    \* post into, NULL if none
    known           \* id -> the name its channel knows it by, NULL if it does
                    \* not, "unsure" when nobody can tell

Init ==
    /\ poster = [h \in Hooks |-> NULL]
    /\ channels = Channels
    /\ posts = [p \in PostIds |-> NULL]
    /\ licence = [r \in Requests |-> NULL]
    /\ known = [h \in Hooks |-> NULL]

Exists(h) == poster[h] # NULL
Doubtful(h) == known[h] = "unsure"
CalledNow(h) == IF Exists(h) THEN poster[h].name ELSE NULL
WellKnown(h) == Exists(h) /\ known[h] = poster[h].name

\* No other poster of the channel has the name.
Free(c, n, h) ==
    \A g \in Hooks \ {h} :
        Exists(g) => <<poster[g].channel, poster[g].name>> # <<c, n>>

\* The application gave it its token, and somebody answers for it.
MaySpeak(h) == poster[h].token = "signed" /\ poster[h].user # NULL

Appear(h, c, n, owner) ==
    /\ ~ Exists(h) /\ known[h] = NULL
    /\ Free(c, n, h)
    /\ poster' = [poster EXCEPT ![h] =
            [channel |-> c, name |-> n, user |-> owner, token |-> "signed"]]
    /\ UNCHANGED <<channels, posts, licence, known>>

\* It stays in its channel, and belongs to whom it did.
Change(h, n, t) ==
    /\ WellKnown(h) \/ (Doubtful(h) /\ Exists(h))
    /\ Free(poster[h].channel, n, h)
    /\ poster' = [poster EXCEPT ![h].name = n, ![h].token = t]
    /\ UNCHANGED <<channels, posts, licence, known>>

Disappear(h) ==
    /\ WellKnown(h) \/ Doubtful(h)
    /\ poster' = [poster EXCEPT ![h] = NULL]
    /\ UNCHANGED <<channels, posts, licence, known>>

\* The channel is told what is so, of a poster or that there is none.
Announce(h) ==
    /\ ~ Doubtful(h)
    /\ known' = [known EXCEPT ![h] = CalledNow(h)]
    /\ UNCHANGED <<poster, channels, posts, licence>>

Doubt(h) ==
    /\ known' = [known EXCEPT ![h] = "unsure"]
    /\ UNCHANGED <<poster, channels, posts, licence>>

\* A caller is let in; others that are at work on the poster bring it into doubt.
Admit(r, h) ==
    /\ licence[r] = NULL /\ Exists(h) /\ MaySpeak(h)
    /\ licence' = [licence EXCEPT ![r] = [hook |-> h, channel |-> poster[h].channel]]
    /\ known' \in {known, [known EXCEPT ![h] = "unsure"]}
    /\ UNCHANGED <<poster, channels, posts>>

\* A post goes into the channel of the licence, which is spent.
Speak(r, p) ==
    /\ licence[r] # NULL /\ posts[p] = NULL
    /\ LET h == licence[r].hook
           c == licence[r].channel
       IN  /\ c \in channels
           /\ Exists(h) => c = poster[h].channel
           /\ Doubtful(h) \/ (WellKnown(h) /\ MaySpeak(h))
    /\ posts' = [posts EXCEPT ![p] = licence[r]]
    /\ licence' = [licence EXCEPT ![r] = NULL]
    /\ UNCHANGED <<poster, channels, known>>

\* It is given up, and whether it was used may be in doubt.
Withdraw(r) ==
    /\ licence[r] # NULL
    /\ licence' = [licence EXCEPT ![r] = NULL]
    /\ known' \in {known, [known EXCEPT ![licence[r].hook] = "unsure"]}
    /\ UNCHANGED <<poster, channels, posts>>

\* A channel goes with what was posted there, its posters stay.
Close(c) ==
    /\ c \in channels
    /\ channels' = channels \ {c}
    /\ posts' = [p \in PostIds |->
            IF posts[p] # NULL /\ posts[p].channel = c THEN NULL ELSE posts[p]]
    /\ UNCHANGED <<poster, licence, known>>

Retract(p) ==
    /\ posts' = [posts EXCEPT ![p] = NULL]
    /\ UNCHANGED <<poster, channels, licence, known>>

Next ==
    \/ \E h \in Hooks, c \in Channels, n \in Names, owner \in Owners : Appear(h, c, n, owner)
    \/ \E h \in Hooks, n \in Names, t \in Tokens : Change(h, n, t)
    \/ \E h \in Hooks : Disappear(h) \/ Announce(h) \/ Doubt(h)
    \/ \E r \in Requests, h \in Hooks : Admit(r, h)
    \/ \E r \in Requests, p \in PostIds : Speak(r, p)
    \/ \E r \in Requests : Withdraw(r)
    \/ \E c \in Channels : Close(c)
    \/ \E p \in PostIds : Retract(p)

Spec == Init /\ [][Next]_<<poster, channels, posts, licence, known>>
=============================================================================
