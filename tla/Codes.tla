------------------------------- MODULE Codes -------------------------------
(***************************************************************************)
(* What signing in with a QR code promises, one atomic step per promise:   *)
(* a browser shows a code, one user approves it, the browser is told a     *)
(* passkey for that user, and with this passkey that user comes in, once.  *)
(*                                                                         *)
(* A code may end before that, at any moment.  One in doubt may be at any  *)
(* stage and used by who is not its browser, or twice; but whoever comes   *)
(* in by it has approved it.                                               *)
(***************************************************************************)
CONSTANTS Users, Tokens, PassKeys, NULL

Stages == {"generated", "pending", "approved", "told", NULL}

VARIABLES
    code,           \* token -> how far it is, NULL if there is no such code
    told,           \* token -> the user and the passkey its browser was told
    approved,       \* <<token, user>> of the approvals
    due,            \* <<token, user, passkey>> of who is about to come in
    spent,          \* <<token, passkey>> that somebody came in with
    doubt           \* the codes in doubt

vars == <<code, told, approved, due, spent, doubt>>

Init ==
    /\ code = [t \in Tokens |-> NULL]
    /\ told = [t \in Tokens |-> NULL]
    /\ approved = {} /\ due = {} /\ spent = {} /\ doubt = {}

Of(t, set) == {x \in set : x[1] = t}

\* From one stage to the next; a code in doubt, to any.
Goes(t, from, to) ==
    IF t \in doubt THEN \E stage \in Stages : code' = [code EXCEPT ![t] = stage]
                   ELSE code[t] = from /\ code' = [code EXCEPT ![t] = to]

\* A new code, which has no past.
Show(t) ==
    /\ t \in doubt \/ code[t] = NULL
    /\ Of(t, due) = {}
    /\ code' = [code EXCEPT ![t] = "generated"]
    /\ told' = [told EXCEPT ![t] = NULL]
    /\ approved' = approved \ Of(t, approved)
    /\ spent' = spent \ Of(t, spent)
    /\ doubt' = doubt \ {t}
    /\ UNCHANGED due

\* Its browser waits.
Follow(t) ==
    /\ Goes(t, "generated", "pending")
    /\ UNCHANGED <<told, approved, due, spent, doubt>>

\* By one user, unless it is in doubt.
Approve(t, u) ==
    /\ Goes(t, "pending", "approved")
    /\ t \in doubt \/ Of(t, approved) = {}
    /\ approved' = approved \cup {<<t, u>>}
    /\ UNCHANGED <<told, due, spent, doubt>>

Tell(t, u, k) ==
    /\ <<t, u>> \in approved
    /\ Goes(t, "approved", "told")
    /\ told' = [told EXCEPT ![t] = [user |-> u, key |-> k]]
    /\ UNCHANGED <<approved, due, spent, doubt>>

\* Only what was told is taken, and for the user it was told for.
Take(t, u, k) ==
    /\ <<t, u>> \in approved
    /\ Goes(t, "told", NULL)
    /\ t \in doubt \/ told[t] = [user |-> u, key |-> k]
    /\ told' = [told EXCEPT ![t] = NULL]
    /\ due' = due \cup {<<t, u, k>>}
    /\ UNCHANGED <<approved, spent, doubt>>

\* Once, unless the code is in doubt.
ComeIn(t, u, k) ==
    /\ <<t, u, k>> \in due
    /\ t \in doubt \/ Of(t, spent) = {}
    /\ spent' = spent \cup {<<t, k>>}
    /\ due' = due \ {<<t, u, k>>} \/ (t \in doubt /\ due' = due)
    /\ UNCHANGED <<code, told, approved, doubt>>

End(t) ==
    /\ code' = [code EXCEPT ![t] = NULL]
    /\ told' = [told EXCEPT ![t] = NULL]
    /\ doubt' \in {doubt, doubt \cup {t}}
    /\ UNCHANGED <<approved, due, spent>>

\* It is in doubt from now on, and who is about to come in may fail to.
Doubt(t) ==
    /\ doubt' = doubt \cup {t}
    /\ \E lost \in SUBSET Of(t, due) : due' = due \ lost
    /\ UNCHANGED <<code, told, approved, spent>>

\* Keys of it are set or deleted out of turn.
Muddle(t) ==
    /\ t \in doubt
    /\ Goes(t, NULL, NULL)
    /\ told' \in {told, [told EXCEPT ![t] = NULL]}
    /\ UNCHANGED <<approved, due, spent, doubt>>

Next ==
    \/ \E t \in Tokens : Show(t) \/ Follow(t) \/ End(t) \/ Doubt(t) \/ Muddle(t)
    \/ \E t \in Tokens, u \in Users : Approve(t, u)
    \/ \E t \in Tokens, u \in Users, k \in PassKeys :
          Tell(t, u, k) \/ Take(t, u, k) \/ ComeIn(t, u, k)

Spec == Init /\ [][Next]_vars
=============================================================================
