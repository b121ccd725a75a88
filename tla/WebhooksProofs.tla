---------------------------- MODULE WebhooksProofs ----------------------------
(***************************************************************************)
(* The invariants of Webhooks, for any number of webhooks, channels, names *)
(* and concurrent requests, whether or not calls fail.                     *)
(*                                                                         *)
(* Of a webhook on which a request failed, met another one or had read     *)
(* another webhook little is known: its channel never changes, and who     *)
(* triggers it saw it signed and with a user (SlotOK).  On any other, at   *)
(* most one request is at work (Alone), what it read is what is stored     *)
(* (AsRead), and what it has yet to broadcast is what it stored.           *)
(*                                                                         *)
(* The module ends with the refinement of Posters, one lemma for each kind *)
(* of step.                                                                *)
(***************************************************************************)
EXTENDS Webhooks, TLAPS

Sure(h) == told[h] # "unsure"
Shown(h) == IF Stored(h) THEN hooks[h].name ELSE NULL

\* The locals of a request; the channel of a webhook that it read is still its own.
SlotOK(r) ==
    /\ req[r].pc = "idle" => req[r] = Idle
    /\ req[r].pc = "insert" => req[r].hook = NULL /\ req[r].row \in Hook
    /\ req[r].pc \in {"save", "delete", "post", "tell"} => req[r].hook \in Hooks
    /\ req[r].pc = "post" => req[r].row \in Hook
    /\ req[r].pc = "save" => req[r].tells \in Names /\ req[r].name \in {NULL, req[r].tells}
    /\ req[r].pc \in {"insert", "post"} => req[r].row.token = "signed"
    /\ req[r].pc = "post" => req[r].row.user # NULL
    /\ req[r].pc = "post" =>
          (Stored(req[r].hook) => hooks[req[r].hook].channel = req[r].row.channel)

\* What a request read, or is about to broadcast, of a webhook it has for itself.
AsRead(r) ==
    req[r].hook \in Hooks /\ Sure(req[r].hook) =>
        /\ req[r].pc \in {"save", "post", "delete"} =>
              /\ Stored(req[r].hook)
              /\ told[req[r].hook] = hooks[req[r].hook].name
        /\ req[r].pc = "post" => hooks[req[r].hook] = req[r].row
        /\ req[r].pc = "save" /\ req[r].name = NULL => req[r].tells = Shown(req[r].hook)
        /\ req[r].pc = "tell" => req[r].tells = Shown(req[r].hook)

Alone ==
    \A r, s \in Requests :
        r # s /\ req[r].hook = req[s].hook /\ req[r].hook \in Hooks => ~ Sure(req[r].hook)

Inv ==
    /\ TypeOK /\ OneNamePerChannel /\ HooksAsTold /\ Alone
    /\ \A r \in Requests : SlotOK(r) /\ AsRead(r)

-----------------------------------------------------------------------------
(* Helpers.                                                                *)

LEMMA NullApart ==
    /\ NULL \notin Hooks /\ NULL \notin Names /\ NULL \notin Hook /\ NULL # "unsure"
BY WebhooksAssumption

LEMMA IdleOK == Idle \in Request /\ Idle.pc = "idle" /\ Idle.hook = NULL
BY DEF Idle, Request, Labels

\* A stored webhook has a row.
LEMMA StoredRow ==
    ASSUME TypeOK, NEW h \in Hooks, Stored(h)
    PROVE  hooks[h] \in Hook /\ hooks[h].name \in Names /\ hooks[h].channel \in Channels
BY DEF TypeOK, Stored, Hook

\* Steps of r that concern h, or no webhook when h is NULL: what must be shown is
\* about r and h.  Whoever else is at work on h loses nothing but the certainty.
LEMMA StepKeeps ==
    ASSUME Inv, NEW r \in Requests, NEW h \in Hooks \cup {NULL}, NEW q \in Request,
           req' = [req EXCEPT ![r] = q],
           req[r].hook \in {NULL, h}, q.hook \in {NULL, h},
           hooks' \in [Hooks -> Hook \cup {NULL}],
           told' \in [Hooks -> Names \cup {NULL, "unsure"}],
           channels' \subseteq Channels, posts' \in [PostIds -> Post \cup {NULL}],
           \A g \in Hooks : g # h => hooks'[g] = hooks[g] /\ told'[g] = told[g],
           h \in Hooks => /\ \/ \A s \in Requests : s # r => req[s].hook # h
                             \/ Stored(h)' =>
                                   Stored(h) /\ hooks'[h].channel = hooks[h].channel
                          /\ Sure(h)' =>
                                /\ \A s \in Requests : s # r => req[s].hook # h
                                /\ q.hook # h => told'[h] = Shown(h)',
           OneNamePerChannel', SlotOK(r)', AsRead(r)'
    PROVE  Inv'
<1>1. /\ req' \in [Requests -> Request] /\ req'[r] = q
      /\ \A s \in Requests : s # r => req'[s] = req[s]
  BY DEF Inv, TypeOK
<1>2. TypeOK'
  BY <1>1 DEF TypeOK
<1>3. \A g \in Hooks : g # h => Stored(g)' = Stored(g) /\ Sure(g)' = Sure(g) /\ Shown(g)' = Shown(g)
  BY DEF Stored, Sure, Shown
<1>4. Alone'
  <2> SUFFICES ASSUME NEW x \in Requests, NEW y \in Requests, x # y,
                      req'[x].hook = req'[y].hook, req'[x].hook \in Hooks
               PROVE  told'[req'[x].hook] = "unsure"
    BY DEF Alone, Sure
  <2>1. CASE req'[x].hook = h
    BY <1>1, <2>1 DEF Sure
  <2>2. CASE req'[x].hook # h
    <3>1. x # r /\ y # r
      BY <1>1, <2>2, NullApart
    <3> QED BY <1>1, <2>2, <3>1 DEF Inv, Alone, Sure
  <2> QED BY <2>1, <2>2
<1>5. HooksAsTold'
  <2> SUFFICES ASSUME NEW g \in Hooks, Sure(g)', \A s \in Requests : req'[s].hook # g
               PROVE  told'[g] = Shown(g)'
    BY DEF HooksAsTold, Sure, Shown, Quiet
  <2>1. CASE g = h
    BY <1>1, <2>1
  <2>2. CASE g # h
    <3>1. \A s \in Requests : req[s].hook # g
      BY <1>1, <2>2, NullApart
    <3>2. told[g] = Shown(g)
      BY <1>3, <2>2, <3>1 DEF Inv, HooksAsTold, Sure, Shown, Quiet
    <3> QED BY <1>3, <2>2, <3>2
  <2> QED BY <2>1, <2>2
<1>6. ASSUME NEW s \in Requests, s # r PROVE SlotOK(s)' /\ AsRead(s)'
  <2>1. req'[s] = req[s] /\ SlotOK(s) /\ AsRead(s)
    BY <1>1, <1>6 DEF Inv
  <2>2. CASE req[s].hook \in Hooks /\ req[s].hook # h
    BY <1>3, <2>1, <2>2 DEF SlotOK, AsRead
  <2>3. CASE req[s].hook \notin Hooks
    BY <2>1, <2>3 DEF SlotOK, AsRead
  <2>4. CASE req[s].hook = h /\ h \in Hooks
    <3>1. ~ Sure(h)' /\ (Stored(h)' => Stored(h) /\ hooks'[h].channel = hooks[h].channel)
      BY <1>6, <2>4
    <3> QED BY <2>1, <2>4, <3>1 DEF SlotOK, AsRead
  <2> QED BY <2>2, <2>3, <2>4
<1> QED BY <1>1, <1>2, <1>4, <1>5, <1>6 DEF Inv

\* When the rows do not change, names stay apart.
LEMMA SameRows ==
    ASSUME OneNamePerChannel, hooks' = hooks
    PROVE  OneNamePerChannel'
BY DEF OneNamePerChannel, Stored

\* A slot that is freed is fine.
LEMMA FreeOK ==
    ASSUME NEW r \in Requests, req'[r] = Idle
    PROVE  SlotOK(r)' /\ AsRead(r)'
BY IdleOK, NullApart DEF SlotOK, AsRead

-----------------------------------------------------------------------------
(* The steps.                                                              *)

LEMMA CreateKeeps ==
    ASSUME Inv, NEW r \in Requests, NEW c \in Channels, NEW n \in Names,
           NEW owner \in Owners, StartCreate(r, c, n, owner)
    PROVE  Inv'
<1> DEFINE row == [channel |-> c, name |-> n, user |-> owner, token |-> "signed"]
           q == [Idle EXCEPT !.pc = "insert", !.row = row]
<1>1. row \in Hook /\ row.token = "signed"
  BY DEF Hook, Tokens
<1> HIDE DEF row
<1>2. q \in Request /\ q.hook = NULL /\ q.pc = "insert" /\ q.row = row
  BY <1>1 DEF Idle, Request, Labels
<1>3. req' = [req EXCEPT ![r] = q] /\ req[r].hook = NULL /\ UNCHANGED <<hooks, channels, posts, told>>
  BY IdleOK DEF StartCreate, row
<1>4. req'[r] = q
  BY <1>3 DEF Inv, TypeOK
<1>5. SlotOK(r)' /\ AsRead(r)'
  BY <1>1, <1>2, <1>4, NullApart DEF SlotOK, AsRead
<1> HIDE DEF q
<1>6. OneNamePerChannel'
  BY <1>3, SameRows DEF Inv
<1> QED BY <1>2, <1>3, <1>5, <1>6, NullApart, StepKeeps DEF Inv, TypeOK

LEMMA InsertKeeps ==
    ASSUME Inv, NEW r \in Requests, NEW h \in Hooks, InsertHook(r, h)
    PROVE  Inv'
<1> DEFINE row == req[r].row
<1>1. /\ req[r].pc = "insert" /\ req[r].hook = NULL /\ row \in Hook
      /\ ~ Stored(h) /\ told[h] = NULL /\ \A s \in Requests : req[s].hook # h
      /\ UNCHANGED <<channels, posts, told>>
  BY DEF InsertHook, Inv, SlotOK, NewHook, Quiet
<1>2. CASE Taken(row.channel, row.name, h)
  <2>1. UNCHANGED hooks /\ req' = [req EXCEPT ![r] = Idle] /\ req'[r] = Idle
    BY <1>2 DEF InsertHook, Finish, Inv, TypeOK
  <2>2. OneNamePerChannel' /\ SlotOK(r)' /\ AsRead(r)'
    BY <2>1, SameRows, FreeOK DEF Inv
  <2> QED BY <1>1, <2>1, <2>2, IdleOK, StepKeeps, NullApart DEF Inv, TypeOK
<1>3. CASE ~ Taken(row.channel, row.name, h)
  <2> DEFINE q == [Idle EXCEPT !.pc = "tell", !.hook = h, !.tells = row.name]
  <2>1. row.name \in Names
    BY <1>1 DEF Hook
  <2>2. q \in Request /\ q.hook = h /\ q.pc = "tell" /\ q.tells = row.name
    BY <2>1 DEF Idle, Request, Labels
  <2>3. /\ hooks' = [hooks EXCEPT ![h] = row] /\ req' = [req EXCEPT ![r] = q] /\ req'[r] = q
        /\ hooks'[h] = row /\ \A g \in Hooks : g # h => hooks'[g] = hooks[g]
    BY <1>3 DEF InsertHook, ThenTell, Inv, TypeOK
  <2> HIDE DEF q, row
  <2>4. OneNamePerChannel'
    <3> SUFFICES ASSUME NEW f \in Hooks, NEW g \in Hooks, f # g, Stored(f)', Stored(g)'
                 PROVE  <<hooks'[f].channel, hooks'[f].name>> # <<hooks'[g].channel, hooks'[g].name>>
      BY DEF OneNamePerChannel
    <3>1. \A k \in Hooks \ {h} : Stored(k)' =>
             Stored(k) /\ ~ (hooks[k].channel = row.channel /\ hooks[k].name = row.name)
      BY <1>3, <2>3 DEF Taken, Stored
    <3>2. f # h /\ g # h => Stored(f) /\ Stored(g)
      BY <2>3 DEF Stored
    <3> QED BY <2>3, <3>1, <3>2 DEF Inv, OneNamePerChannel
  <2>5. Shown(h)' = row.name
    BY <1>1, <2>3, NullApart DEF Shown, Stored
  <2>6. SlotOK(r)' /\ AsRead(r)'
    BY <2>2, <2>3, <2>5 DEF SlotOK, AsRead
  <2> QED BY <1>1, <2>2, <2>3, <2>4, <2>6, StepKeeps DEF Inv, TypeOK
<1> QED BY <1>2, <1>3

\* A request that goes on with what it read of a webhook, alone or not, or that
\* leaves it in doubt.
LEMMA StartKeeps ==
    ASSUME Inv, NEW r \in Requests, NEW h \in Hooks, NEW q \in Request,
           req[r] = Idle, req' = [req EXCEPT ![r] = q],
           UNCHANGED <<hooks, channels, posts>>,
           q.hook = h, q.pc \in {"save", "delete", "post"},
           \/ Stored(h) /\ Meets(h)
           \/ told' = [told EXCEPT ![h] = "unsure"] /\ q.pc = "save",
           q.pc = "post" => q.row = hooks[h],
           q.pc = "save" =>
              /\ q.tells \in Names /\ q.name \in {NULL, q.tells}
              /\ told' # [told EXCEPT ![h] = "unsure"] /\ q.name = NULL => q.tells = Shown(h),
           q.pc = "post" => hooks[h].token = "signed" /\ hooks[h].user # NULL
    PROVE  Inv'
<1>1. req'[r] = q /\ req[r].hook = NULL /\ (Stored(h) => hooks[h] \in Hook)
  BY IdleOK, StoredRow DEF Inv, TypeOK
<1>2. /\ told' \in [Hooks -> Names \cup {NULL, "unsure"}]
      /\ \A g \in Hooks : g # h => told'[g] = told[g]
      /\ Sure(h)' => /\ Quiet(h) /\ Sure(h) /\ told'[h] = told[h] /\ Stored(h)
                     /\ told' # [told EXCEPT ![h] = "unsure"]
  BY DEF Meets, Inv, TypeOK, Sure
<1>3. Quiet(h) /\ Sure(h) /\ Stored(h) => told[h] = hooks[h].name
  BY DEF Inv, HooksAsTold, Sure
<1>4. SlotOK(r)'
  BY <1>1 DEF SlotOK, Stored, Meets
<1>5. AsRead(r)'
  <2>1. Stored(h)' = Stored(h) /\ hooks'[h] = hooks[h] /\ Shown(h)' = Shown(h)
    BY DEF Stored, Shown
  <2> QED BY <1>1, <1>2, <1>3, <2>1 DEF AsRead
<1>6. OneNamePerChannel'
  BY SameRows DEF Inv
<1>7. Sure(h)' => \A s \in Requests : s # r => req[s].hook # h
  BY <1>2 DEF Quiet
<1> QED BY <1>1, <1>2, <1>4, <1>5, <1>6, <1>7, StepKeeps DEF Inv, TypeOK, Stored

\* What an update has merged, from the row of the webhook it read.
LEMMA MergedOK ==
    ASSUME Inv, NEW h \in Hooks, NEW g \in Hooks, NEW n \in Names, NEW t \in Tokens \cup {NULL},
           Stored(h)
    PROVE  LET q == Merged(h, g, n, t)
           IN  /\ q \in Request /\ q.pc = "save" /\ q.hook = g /\ q.tells = n
               /\ q.name \in {NULL, n} /\ (q.name = NULL => n = Shown(h))
BY NullApart DEF Merged, Idle, Request, Labels, Shown

LEMMA UpdateKeeps ==
    ASSUME Inv, NEW r \in Requests, NEW h \in Hooks, NEW g \in Hooks, NEW n \in Names,
           NEW t \in Tokens \cup {NULL}, StartUpdate(r, h, g, n, t)
    PROVE  Inv'
<1> DEFINE q == Merged(h, g, n, t)
<1>1. /\ req[r] = Idle /\ Stored(h) /\ req' = [req EXCEPT ![r] = q]
      /\ UNCHANGED <<hooks, channels, posts>>
      /\ IF g = h THEN Meets(h) ELSE told' = [told EXCEPT ![g] = "unsure"]
  BY DEF StartUpdate
<1>2. /\ q \in Request /\ q.pc = "save" /\ q.hook = g /\ q.tells = n
      /\ q.name \in {NULL, n} /\ (q.name = NULL => n = Shown(h))
  BY <1>1, MergedOK
<1> HIDE DEF q
<1>3. CASE g = h
  BY <1>1, <1>2, <1>3, StartKeeps
<1>4. CASE g # h
  BY <1>1, <1>2, <1>4, StartKeeps
<1> QED BY <1>3, <1>4

LEMMA StartsKeep ==
    ASSUME Inv, NEW r \in Requests, NEW h \in Hooks,
           StartDelete(r, h) \/ StartTrigger(r, h)
    PROVE  Inv'
<1>1. Stored(h) => hooks[h] \in Hook
  BY StoredRow DEF Inv
<1>3. CASE StartDelete(r, h)
  <2> DEFINE q == [Idle EXCEPT !.pc = "delete", !.hook = h]
  <2>1. q \in Request /\ q.pc = "delete" /\ q.hook = h
    BY DEF Idle, Request, Labels
  <2>2. req' = [req EXCEPT ![r] = q]
    BY <1>3 DEF StartDelete
  <2> HIDE DEF q
  <2> QED BY <1>3, <2>1, <2>2, StartKeeps DEF StartDelete
<1>4. CASE StartTrigger(r, h)
  <2> DEFINE q == Found(h)
  <2>1. q \in Request /\ q.pc = "post" /\ q.hook = h /\ q.row = hooks[h]
    BY <1>1, <1>4 DEF StartTrigger, Found, Idle, Request, Labels
  <2>2. req' = [req EXCEPT ![r] = q]
    BY <1>4 DEF StartTrigger
  <2> HIDE DEF q
  <2> QED BY <1>4, <2>1, <2>2, StartKeeps DEF StartTrigger
<1> QED BY <1>3, <1>4

\* A request that has a webhook for itself, if it still is sure.
LEMMA Own ==
    ASSUME Inv, NEW r \in Requests, req[r].hook \in Hooks, Sure(req[r].hook)
    PROVE  \A s \in Requests : s # r => req[s].hook # req[r].hook
BY DEF Inv, Alone

LEMMA SaveKeeps ==
    ASSUME Inv, NEW r \in Requests, Save(r)
    PROVE  Inv'
<1>0. PICK h \in Hooks, q \in Request : q = req[r] /\ h = q.hook
  BY DEF Save, Inv, TypeOK, SlotOK
<1> DEFINE renames == q.name # NULL
<1>1. /\ q.pc = "save" /\ h \in Hooks /\ q.tells \in Names /\ q.name \in {NULL, q.tells}
      /\ UNCHANGED <<channels, posts, told>> /\ AsRead(r)
  BY <1>0 DEF Save, Inv, SlotOK
<1>2. Sure(h) => \A s \in Requests : s # r => req[s].hook # h
  BY <1>0, Own
<1>3. Sure(h) => Stored(h) /\ told[h] = Shown(h) /\ (~ renames => Shown(h) = q.tells)
  BY <1>0, <1>1 DEF AsRead, Shown
<1>4. Sure(h)' = Sure(h)
  BY <1>1 DEF Sure
<1>5. CASE Stored(h) /\ renames /\ Taken(hooks[h].channel, q.name, h)
  <2>1. UNCHANGED hooks /\ req' = [req EXCEPT ![r] = Idle] /\ req'[r] = Idle
    BY <1>0, <1>5 DEF Save, Finish, Inv, TypeOK
  <2>2. OneNamePerChannel' /\ SlotOK(r)' /\ AsRead(r)'
    BY <2>1, SameRows, FreeOK DEF Inv
  <2>3. Sure(h)' => told'[h] = Shown(h)'
    BY <1>1, <1>3, <1>4, <2>1 DEF Shown, Stored
  <2>4. Stored(h)' => Stored(h) /\ hooks'[h].channel = hooks[h].channel
    BY <2>1 DEF Stored
  <2> QED BY <1>0, <1>1, <1>2, <1>4, <2>1, <2>2, <2>3, <2>4, IdleOK, StepKeeps DEF Inv, TypeOK
<1>6. CASE ~ (Stored(h) /\ renames /\ Taken(hooks[h].channel, q.name, h))
  <2> DEFINE w == [Idle EXCEPT !.pc = "tell", !.hook = h, !.tells = q.tells]
             new == [hooks[h] EXCEPT !.name = IF q.name = NULL THEN @ ELSE q.name,
                                     !.token = IF q.token = NULL THEN @ ELSE q.token]
  <2>1. w \in Request /\ w.hook = h /\ w.pc = "tell" /\ w.tells = q.tells
    BY <1>1 DEF Idle, Request, Labels
  <2>2. /\ hooks' = [g \in Hooks |-> IF g = h /\ Stored(h) THEN new ELSE hooks[g]]
        /\ req' = [req EXCEPT ![r] = w] /\ req'[r] = w
    BY <1>0, <1>6 DEF Save, ThenTell, Inv, TypeOK
  <2>3. Stored(h) =>
          /\ new \in Hook /\ new.channel = hooks[h].channel
          /\ new.name = IF renames THEN q.name ELSE hooks[h].name
    <3>1. q.token \in Tokens \cup {NULL}
      BY DEF Request
    <3>2. Stored(h) => hooks[h] \in Hook
      BY <1>1, StoredRow DEF Inv
    <3> QED BY <1>1, <3>1, <3>2 DEF Hook
  <2> HIDE DEF w, new
  <2>4. /\ \A g \in Hooks : g # h => hooks'[g] = hooks[g]
        /\ IF Stored(h) THEN hooks'[h] = new ELSE hooks'[h] = NULL
    BY <1>1, <2>2 DEF Stored
  <2>5. Stored(h)' <=> Stored(h)
    BY <2>3, <2>4, NullApart DEF Stored
  <2>6. hooks' \in [Hooks -> Hook \cup {NULL}]
    BY <2>2, <2>3, <1>1 DEF Inv, TypeOK
  <2>7. OneNamePerChannel'
    <3> SUFFICES ASSUME NEW f \in Hooks, NEW g \in Hooks, f # g, Stored(f)', Stored(g)'
                 PROVE  <<hooks'[f].channel, hooks'[f].name>> # <<hooks'[g].channel, hooks'[g].name>>
      BY DEF OneNamePerChannel
    <3>1. Stored(f) /\ Stored(g)
      BY <2>4, <2>5 DEF Stored
    <3>2. \A k \in Hooks \ {h} : Stored(h) /\ Stored(k) =>
             <<hooks[k].channel, hooks[k].name>> # <<new.channel, new.name>>
      <4> SUFFICES ASSUME NEW k \in Hooks \ {h}, Stored(h), Stored(k)
                   PROVE  <<hooks[k].channel, hooks[k].name>> # <<new.channel, new.name>>
        OBVIOUS
      <4>1. CASE renames
        BY <1>1, <1>6, <2>3, <4>1 DEF Taken
      <4>2. CASE ~ renames
        BY <1>1, <2>3, <4>2 DEF Inv, OneNamePerChannel
      <4> QED BY <4>1, <4>2
    <3> QED BY <2>4, <3>1, <3>2 DEF Inv, OneNamePerChannel
  <2>8. Sure(h) => Shown(h)' = q.tells
    BY <1>1, <1>3, <2>3, <2>4, <2>5 DEF Shown
  <2>9. SlotOK(r)' /\ AsRead(r)'
    BY <1>1, <1>4, <2>1, <2>2, <2>8 DEF SlotOK, AsRead
  <2>10. Stored(h)' => Stored(h) /\ hooks'[h].channel = hooks[h].channel
    BY <2>3, <2>4, <2>5
  <2>11. /\ req[r].hook \in {NULL, h} /\ w.hook \in {NULL, h} /\ h \in Hooks \cup {NULL}
         /\ \A g \in Hooks : g # h => hooks'[g] = hooks[g] /\ told'[g] = told[g]
    BY <1>0, <1>1, <2>1, <2>4
  <2>12. /\ channels' \subseteq Channels /\ posts' \in [PostIds -> Post \cup {NULL}]
         /\ told' \in [Hooks -> Names \cup {NULL, "unsure"}]
         /\ Sure(h)' => \A s \in Requests : s # r => req[s].hook # h
    BY <1>1, <1>2, <1>4 DEF Inv, TypeOK
  <2> HIDE DEF renames
  <2> QED BY <2>1, <2>2, <2>6, <2>7, <2>9, <2>10, <2>11, <2>12, StepKeeps, ZenonT(60)
<1> QED BY <1>5, <1>6

LEMMA DeleteKeeps ==
    ASSUME Inv, NEW r \in Requests, DeleteHook(r)
    PROVE  Inv'
<1>0. PICK h \in Hooks : h = req[r].hook
  BY DEF DeleteHook, Inv, SlotOK
<1> DEFINE w == [Idle EXCEPT !.pc = "tell", !.hook = h, !.tells = NULL]
<1>1. req[r].pc = "delete" /\ UNCHANGED <<channels, posts, told>>
  BY DEF DeleteHook
<1>2. w \in Request /\ w.hook = h /\ w.pc = "tell" /\ w.tells = NULL
  BY <1>1 DEF Idle, Request, Labels
<1>3. hooks' = [hooks EXCEPT ![h] = NULL] /\ req' = [req EXCEPT ![r] = w] /\ req'[r] = w
  BY <1>0 DEF DeleteHook, ThenTell, Inv, TypeOK
<1>4. Sure(h)' => \A s \in Requests : s # r => req[s].hook # h
  BY <1>0, <1>1, Own DEF Sure
<1> HIDE DEF w
<1>5. ~ Stored(h)' /\ Shown(h)' = NULL /\ \A g \in Hooks : g # h => hooks'[g] = hooks[g]
  BY <1>1, <1>3 DEF Stored, Shown, Inv, TypeOK
<1>6. SlotOK(r)' /\ AsRead(r)'
  BY <1>1, <1>2, <1>3, <1>5 DEF SlotOK, AsRead
<1>7. OneNamePerChannel'
  BY <1>5 DEF OneNamePerChannel, Stored, Inv
<1>8. hooks' \in [Hooks -> Hook \cup {NULL}]
  BY <1>3 DEF Inv, TypeOK
<1> QED BY <1>0, <1>1, <1>2, <1>3, <1>4, <1>5, <1>6, <1>7, <1>8, StepKeeps DEF Inv, TypeOK

LEMMA PostKeeps ==
    ASSUME Inv, NEW r \in Requests, NEW p \in PostIds, InsertPost(r, p)
    PROVE  Inv'
<1>0. PICK h \in Hooks, row \in Hook : h = req[r].hook /\ row = req[r].row
  BY DEF InsertPost, Inv, SlotOK
<1>1. req[r].pc = "post" /\ UNCHANGED <<hooks, channels, told>> /\ AsRead(r)
  BY DEF InsertPost, Inv
<1>2. Sure(h) => \A s \in Requests : s # r => req[s].hook # h
  BY <1>0, Own
<1>3. Sure(h)' = Sure(h) /\ Stored(h)' = Stored(h) /\ Shown(h)' = Shown(h)
  BY <1>1 DEF Sure, Stored, Shown
<1>4. Sure(h) => Shown(h) = row.name /\ told[h] = row.name
  BY <1>0, <1>1 DEF AsRead, Shown
<1>5. OneNamePerChannel'
  BY <1>1, SameRows DEF Inv
<1>6. CASE row.channel \in channels
  <2> DEFINE w == [Idle EXCEPT !.pc = "tell", !.hook = h, !.tells = row.name]
  <2>1. w \in Request /\ w.hook = h /\ w.pc = "tell" /\ w.tells = row.name
    BY <1>1 DEF Idle, Request, Labels, Hook
  <2>2. req' = [req EXCEPT ![r] = w] /\ req'[r] = w
    BY <1>0, <1>6 DEF InsertPost, ThenTell, Inv, TypeOK
  <2>3. posts' \in [PostIds -> Post \cup {NULL}]
    BY <1>0, <1>6 DEF InsertPost, Inv, TypeOK, Post, Hook
  <2> HIDE DEF w
  <2>4. SlotOK(r)' /\ AsRead(r)'
    BY <1>1, <1>3, <1>4, <2>1, <2>2 DEF SlotOK, AsRead
  <2> QED BY <1>0, <1>1, <1>2, <1>3, <1>5, <2>1, <2>2, <2>3, <2>4, StepKeeps DEF Inv, TypeOK
<1>7. CASE row.channel \notin channels
  <2>1. req' = [req EXCEPT ![r] = Idle] /\ req'[r] = Idle /\ UNCHANGED posts
    BY <1>0, <1>7 DEF InsertPost, Finish, Inv, TypeOK
  <2>2. SlotOK(r)' /\ AsRead(r)'
    BY <2>1, FreeOK
  <2>3. Sure(h)' => told'[h] = Shown(h)'
    BY <1>1, <1>3, <1>4
  <2> QED BY <1>0, <1>1, <1>2, <1>3, <1>5, <2>1, <2>2, <2>3, IdleOK, StepKeeps DEF Inv, TypeOK
<1> QED BY <1>6, <1>7

LEMMA TellKeeps ==
    ASSUME Inv, NEW r \in Requests, Tell(r)
    PROVE  Inv'
<1>0. PICK h \in Hooks : h = req[r].hook
  BY DEF Tell, Inv, SlotOK
<1> DEFINE says == IF told[h] = "unsure" THEN told[h] ELSE req[r].tells
<1>1. req[r].pc = "tell" /\ UNCHANGED <<hooks, channels, posts>> /\ AsRead(r)
  BY DEF Tell, Inv
<1>2. req' = [req EXCEPT ![r] = Idle] /\ req'[r] = Idle /\ told' = [told EXCEPT ![h] = says]
  BY <1>0 DEF Tell, Finish, Inv, TypeOK
<1>3. says \in Names \cup {NULL, "unsure"}
  BY <1>1 DEF Inv, TypeOK, Request
<1> HIDE DEF says
<1>4. /\ told' \in [Hooks -> Names \cup {NULL, "unsure"}] /\ told'[h] = says
      /\ \A g \in Hooks : g # h => told'[g] = told[g]
  BY <1>1, <1>2, <1>3 DEF Inv, TypeOK
<1>5. Sure(h)' => Sure(h) /\ told'[h] = req[r].tells
  BY <1>4 DEF Sure, says
<1>6. Sure(h)' => told'[h] = Shown(h)'
  BY <1>0, <1>1, <1>5 DEF AsRead, Shown, Stored
<1>7. Sure(h)' => \A s \in Requests : s # r => req[s].hook # h
  BY <1>0, <1>5, Own
<1>8. OneNamePerChannel' /\ SlotOK(r)' /\ AsRead(r)'
  BY <1>1, <1>2, SameRows, FreeOK DEF Inv
<1>9. /\ req[r].hook \in {NULL, h} /\ Idle.hook \in {NULL, h}
      /\ Idle \in Request /\ h \in Hooks \cup {NULL}
  BY <1>0, IdleOK
<1>10. /\ hooks' \in [Hooks -> Hook \cup {NULL}] /\ channels' \subseteq Channels
       /\ posts' \in [PostIds -> Post \cup {NULL}]
       /\ \A g \in Hooks : g # h => hooks'[g] = hooks[g] /\ told'[g] = told[g]
       /\ Stored(h)' => Stored(h) /\ hooks'[h].channel = hooks[h].channel
  BY <1>1, <1>4 DEF Inv, TypeOK, Stored
<1> QED BY <1>2, <1>4, <1>6, <1>7, <1>8, <1>9, <1>10, StepKeeps, ZenonT(60)

LEMMA FailKeeps ==
    ASSUME Inv, NEW r \in Requests, Fail(r)
    PROVE  Inv'
<1>0. PICK h \in Hooks \cup {NULL} : h = req[r].hook
  BY DEF Inv, TypeOK, Request
<1>1. /\ req' = [req EXCEPT ![r] = Idle] /\ req'[r] = Idle /\ UNCHANGED <<hooks, channels, posts>>
      /\ told' = [g \in Hooks |-> IF g = h THEN "unsure" ELSE told[g]]
  BY <1>0 DEF Fail, Finish, Inv, TypeOK
<1>2. OneNamePerChannel' /\ SlotOK(r)' /\ AsRead(r)'
  BY <1>1, SameRows, FreeOK DEF Inv
<1>3. told' \in [Hooks -> Names \cup {NULL, "unsure"}] /\ (h \in Hooks => ~ Sure(h)')
  BY <1>1 DEF Inv, TypeOK, Sure
<1> QED BY <1>0, <1>1, <1>2, <1>3, IdleOK, StepKeeps DEF Inv, TypeOK, Stored

\* Deletions of channels and of messages leave the webhooks alone.
LEMMA OutsideKeeps ==
    ASSUME Inv, UNCHANGED <<hooks, req, told>>,
           channels' \subseteq Channels, posts' \in [PostIds -> Post \cup {NULL}]
    PROVE  Inv'
<1>1. TypeOK' /\ OneNamePerChannel' /\ HooksAsTold' /\ Alone'
  BY DEF Inv, TypeOK, OneNamePerChannel, HooksAsTold, Alone, Sure, Stored, Quiet
<1>2. \A r \in Requests : SlotOK(r)' /\ AsRead(r)'
  BY DEF Inv, SlotOK, AsRead, Sure, Shown, Stored
<1> QED BY <1>1, <1>2 DEF Inv

-----------------------------------------------------------------------------
LEMMA InitInv == Init => Inv
<1> SUFFICES ASSUME Init PROVE Inv
  OBVIOUS
<1>1. TypeOK
  BY IdleOK DEF Init, TypeOK
<1>2. OneNamePerChannel /\ HooksAsTold /\ Alone
  BY IdleOK, NullApart DEF Init, OneNamePerChannel, HooksAsTold, Alone, Stored
<1>3. \A r \in Requests : SlotOK(r) /\ AsRead(r)
  BY IdleOK, NullApart DEF Init, SlotOK, AsRead
<1> QED BY <1>1, <1>2, <1>3 DEF Inv

LEMMA StepInv == Inv /\ [Next]_vars => Inv'
<1> SUFFICES ASSUME Inv, [Next]_vars PROVE Inv'
  OBVIOUS
<1>1. ASSUME NEW r \in Requests, Managed(r) PROVE Inv'
  BY <1>1, CreateKeeps, InsertKeeps, UpdateKeeps, StartsKeep, SaveKeeps, DeleteKeeps, TellKeeps DEF Managed
<1>2. ASSUME NEW r \in Requests, Triggered(r) PROVE Inv'
  BY <1>2, StartsKeep, PostKeeps DEF Triggered
<1>3. ASSUME NEW c \in Channels, DeleteChannel(c) PROVE Inv'
  BY <1>3, OutsideKeeps DEF DeleteChannel, Inv, TypeOK
<1>4. ASSUME NEW p \in PostIds, DeletePost(p) PROVE Inv'
  BY <1>4, OutsideKeeps DEF DeletePost, Inv, TypeOK
<1>5. CASE UNCHANGED vars
  BY <1>5, OutsideKeeps DEF vars, Inv, TypeOK
<1> QED BY <1>1, <1>2, <1>3, <1>4, <1>5, FailKeeps DEF Next

LEMMA AlwaysInv == Spec => []Inv
BY InitInv, StepInv, PTL DEF Spec

\* The tables, the requests and what is told keep their types: a webhook never has
\* a token that is neither signed nor sent by a client.
THEOREM WebhooksTyped == Spec => []TypeOK
<1>1. Inv => TypeOK
  BY DEF Inv
<1> QED BY <1>1, AlwaysInv, PTL

\* Two webhooks of one channel never have the same name, however creations and
\* renamings interleave.
THEOREM NamesNeverMeet == Spec => []OneNamePerChannel
<1>1. Inv => OneNamePerChannel
  BY DEF Inv
<1> QED BY <1>1, AlwaysInv, PTL

\* Subscribers know the name of every webhook on which no request failed or met
\* another one, and that it is gone when it is.
THEOREM HooksAlwaysAsTold == Spec => []HooksAsTold
<1>1. Inv => HooksAsTold
  BY DEF Inv
<1> QED BY <1>1, AlwaysInv, PTL

\* Nothing is posted in the name of a webhook that subscribers were never told of,
\* or were told is deleted, unless requests on it failed or met.
THEOREM PostsAlwaysByTold == Spec => PostsByTold
<1> DEFINE Told(p) == posts'[p] # NULL /\ posts'[p] # posts[p] => told[posts'[p].hook] # NULL
           Step == \A p \in PostIds : Told(p)
<1>1. Inv /\ [Next]_vars => [Step]_vars
  <2> SUFFICES ASSUME Inv, Next, NEW p \in PostIds, posts'[p] # NULL, posts'[p] # posts[p]
               PROVE  told[posts'[p].hook] # NULL
    OBVIOUS
  <2>1. PICK r \in Requests, x \in PostIds : InsertPost(r, x)
    <3>1. posts' # posts
      OBVIOUS
    <3>2. ASSUME NEW c \in Channels, DeleteChannel(c) PROVE FALSE
      BY <3>2 DEF DeleteChannel
    <3>3. ASSUME NEW x \in PostIds, DeletePost(x) PROVE FALSE
      BY <3>3 DEF DeletePost, Inv, TypeOK
    <3>4. ASSUME NEW r \in Requests, Managed(r) \/ Fail(r) PROVE FALSE
      BY <3>1, <3>4 DEF Managed, StartCreate, InsertHook, StartDelete, StartUpdate, Save,
         DeleteHook, Tell, Fail
    <3>5. ASSUME NEW r \in Requests, NEW h \in Hooks, StartTrigger(r, h) PROVE FALSE
      BY <3>1, <3>5 DEF StartTrigger
    <3> QED BY <3>2, <3>3, <3>4, <3>5 DEF Next, Triggered
  <2>2. posts' = [posts EXCEPT ![x] = [hook |-> req[r].hook, channel |-> req[r].row.channel]]
    BY <2>1 DEF InsertPost
  <2>3. posts'[p].hook = req[r].hook
    BY <2>2 DEF Inv, TypeOK
  <2>4. req[r].pc = "post" /\ req[r].hook \in Hooks /\ req[r].row.name \in Names /\ AsRead(r)
    BY <2>1 DEF InsertPost, Inv, SlotOK, Hook
  <2>5. told[req[r].hook] = "unsure" \/ told[req[r].hook] = req[r].row.name
    BY <2>4 DEF AsRead, Sure
  <2> QED BY <2>3, <2>4, <2>5, NullApart
<1>2. [Step]_vars => [\A p \in PostIds : Told(p)]_vars
  OBVIOUS
<1> QED BY <1>1, AlwaysInv, PTL DEF Spec, PostsByTold

-----------------------------------------------------------------------------
(* The refinement: what each step is in Posters.                           *)

abstract == <<hooks, channels, posts, [r \in Requests |-> Licence(r)], told>>

\* The words of Posters for what is stored and told.
LEMMA SameWords ==
    /\ \A h : Directory!Exists(h) <=> Stored(h)
    /\ \A h : Directory!Doubtful(h) <=> ~ Sure(h)
    /\ \A h : Directory!WellKnown(h) <=> Stored(h) /\ told[h] = hooks[h].name
    /\ \A h : Directory!CalledNow(h) = Shown(h)
    /\ \A c, n, h : Directory!Free(c, n, h) <=> ~ Taken(c, n, h)
BY DEF Directory!Exists, Directory!Doubtful, Directory!WellKnown, Directory!CalledNow,
   Directory!Free, Stored, Sure, Shown, Taken

\* Only a trigger that was let in has a licence.
LEMMA SameLicences ==
    ASSUME NEW r \in Requests, req[r].pc # "post", req'[r].pc # "post",
           \A s \in Requests : s # r => req'[s] = req[s]
    PROVE  UNCHANGED [s \in Requests |-> Licence(s)]
BY DEF Licence

\* The steps of a slot that is not about to post, before or after.
LEMMA LicencesStay ==
    ASSUME Inv, NEW r \in Requests, NEW q \in Request, req[r].pc # "post", q.pc # "post",
           req' = [req EXCEPT ![r] = q]
    PROVE  UNCHANGED [s \in Requests |-> Licence(s)]
BY SameLicences DEF Inv, TypeOK

\* The licence of a slot is given, spent or given up; the others stay.
LEMMA LicenceOf ==
    ASSUME Inv, NEW r \in Requests, NEW q \in Request, req' = [req EXCEPT ![r] = q]
    PROVE  [s \in Requests |-> Licence(s)]'
               = [[s \in Requests |-> Licence(s)] EXCEPT ![r] =
                    IF q.pc = "post" THEN [hook |-> q.hook, channel |-> q.row.channel] ELSE NULL]
<1>1. req'[r] = q /\ \A s \in Requests : s # r => req'[s] = req[s]
  BY DEF Inv, TypeOK
<1> QED BY <1>1 DEF Licence

LEMMA InsertAppears ==
    ASSUME Inv, NEW r \in Requests, NEW h \in Hooks, InsertHook(r, h)
    PROVE  [Directory!Next]_abstract
<1>0. PICK row \in Hook : row = req[r].row /\ row.token = "signed"
  BY DEF InsertHook, Inv, SlotOK
<1>1. UNCHANGED [s \in Requests |-> Licence(s)]
  <2>1. req[r].pc # "post" /\ req'[r].pc # "post" /\ \A s \in Requests : s # r => req'[s] = req[s]
    BY IdleOK DEF InsertHook, Finish, ThenTell, Inv, TypeOK, Idle
  <2> QED BY <2>1, SameLicences
<1>2. CASE Taken(row.channel, row.name, h)
  BY <1>0, <1>1, <1>2 DEF InsertHook, abstract
<1>3. CASE ~ Taken(row.channel, row.name, h)
  <2>1. PICK c \in Channels, n \in Names, owner \in Owners :
          row = [channel |-> c, name |-> n, user |-> owner, token |-> "signed"]
    BY <1>0 DEF Hook
  <2>2. /\ hooks' = [hooks EXCEPT ![h] = row] /\ UNCHANGED <<channels, posts, told>>
        /\ ~ Stored(h) /\ told[h] = NULL
    BY <1>0, <1>3 DEF InsertHook, NewHook
  <2>3. Directory!Appear(h, c, n, owner)
    BY <1>1, <1>3, <2>1, <2>2, SameWords DEF Directory!Appear
  <2> QED BY <2>3 DEF Directory!Next
<1> QED BY <1>2, <1>3

LEMMA SaveChanges ==
    ASSUME Inv, NEW r \in Requests, Save(r)
    PROVE  [Directory!Next]_abstract
<1>0. PICK h \in Hooks, q \in Request : q = req[r] /\ h = q.hook
  BY DEF Save, Inv, TypeOK, SlotOK
<1> DEFINE renames == q.name # NULL
           n == IF q.name = NULL THEN hooks[h].name ELSE q.name
           t == IF q.token = NULL THEN hooks[h].token ELSE q.token
<1>1. /\ q.pc = "save" /\ q.tells \in Names /\ q.name \in {NULL, q.tells}
      /\ UNCHANGED <<channels, posts, told>> /\ AsRead(r)
  BY <1>0 DEF Save, Inv, SlotOK
<1>2. UNCHANGED [s \in Requests |-> Licence(s)]
  <2>1. req'[r].pc # "post"
    BY <1>0, IdleOK DEF Save, Finish, ThenTell, Inv, TypeOK, Idle
  <2>2. \A s \in Requests : s # r => req'[s] = req[s]
    BY <1>0 DEF Save, Finish, ThenTell, Inv, TypeOK
  <2> QED BY <1>0, <1>1, <2>1, <2>2, SameLicences
<1>3. CASE Stored(h) /\ renames /\ Taken(hooks[h].channel, q.name, h)
  BY <1>0, <1>1, <1>2, <1>3 DEF Save, abstract
<1>4. CASE ~ Stored(h)
  <2>1. hooks' = [g \in Hooks |-> hooks[g]]
    BY <1>0, <1>4 DEF Save
  <2> QED BY <1>1, <1>2, <2>1 DEF abstract, Inv, TypeOK
<1>5. CASE Stored(h) /\ ~ (renames /\ Taken(hooks[h].channel, q.name, h))
  <2>1. hooks[h] \in Hook /\ n \in Names /\ t \in Tokens
    <3>1. hooks[h] \in Hook /\ q.token \in Tokens \cup {NULL}
      BY <1>5, StoredRow DEF Inv, Request
    <3> QED BY <1>1, <3>1 DEF Hook
  <2>2. hooks' = [g \in Hooks |-> IF g = h THEN [hooks[h] EXCEPT !.name = n, !.token = t]
                                           ELSE hooks[g]]
    BY <1>0, <1>5 DEF Save
  <2>3. ~ Taken(hooks[h].channel, n, h)
    <3>1. CASE renames
      BY <1>1, <1>5, <3>1
    <3>2. CASE ~ renames
      BY <1>5, <3>2 DEF Taken, Inv, OneNamePerChannel
    <3> QED BY <3>1, <3>2
  <2>4. Sure(h) => told[h] = hooks[h].name
    BY <1>0, <1>1 DEF AsRead
  <2> HIDE DEF n, t
  <2>5. hooks' = [hooks EXCEPT ![h].name = n, ![h].token = t]
    BY <2>1, <2>2 DEF Inv, TypeOK
  <2>6. Directory!Change(h, n, t)
    BY <1>1, <1>2, <1>5, <2>3, <2>4, <2>5, SameWords DEF Directory!Change
  <2> QED BY <2>1, <2>6 DEF Directory!Next, Directory!Tokens, Tokens
<1> QED BY <1>3, <1>4, <1>5

LEMMA DeleteDisappears ==
    ASSUME Inv, NEW r \in Requests, DeleteHook(r)
    PROVE  [Directory!Next]_abstract
<1>1. PICK h \in Hooks : h = req[r].hook /\ req[r].pc = "delete" /\ AsRead(r)
  BY DEF DeleteHook, Inv, SlotOK
<1>2. Sure(h) => Stored(h) /\ told[h] = hooks[h].name
  BY <1>1 DEF AsRead
<1>3. UNCHANGED [s \in Requests |-> Licence(s)]
  <2>1. req'[r].pc # "post" /\ \A s \in Requests : s # r => req'[s] = req[s]
    BY DEF DeleteHook, ThenTell, Inv, TypeOK, Idle
  <2> QED BY <1>1, <2>1, SameLicences
<1>4. Directory!Disappear(h)
  BY <1>1, <1>2, <1>3, SameWords DEF Directory!Disappear, DeleteHook
<1> QED BY <1>4 DEF Directory!Next

LEMMA TriggerAdmitted ==
    ASSUME Inv, NEW r \in Requests, NEW h \in Hooks, StartTrigger(r, h)
    PROVE  [Directory!Next]_abstract
<1> DEFINE q == Found(h)
           licence == [s \in Requests |-> Licence(s)]
<1>1. /\ req[r] = Idle /\ Stored(h) /\ hooks[h].token = "signed" /\ hooks[h].user # NULL
      /\ req' = [req EXCEPT ![r] = q] /\ UNCHANGED <<hooks, channels, posts>>
      /\ told' \in {told, [told EXCEPT ![h] = "unsure"]}
  BY DEF StartTrigger, Meets
<1>2. hooks[h] \in Hook
  BY <1>1, StoredRow DEF Inv
<1>3. q \in Request /\ q.pc = "post" /\ q.hook = h /\ q.row.channel = hooks[h].channel
  BY <1>2 DEF Found, Idle, Request, Labels
<1> HIDE DEF q
<1>4. licence' = [licence EXCEPT ![r] = [hook |-> h, channel |-> hooks[h].channel]]
  BY <1>1, <1>3, LicenceOf
<1>5. licence[r] = NULL
  BY <1>1, IdleOK DEF Licence
<1>6. Directory!Admit(r, h)
  BY <1>1, <1>4, <1>5 DEF Directory!Admit, Directory!Exists, Directory!MaySpeak, Stored
<1> QED BY <1>6 DEF Directory!Next

LEMMA PostSpeaks ==
    ASSUME Inv, NEW r \in Requests, NEW p \in PostIds, InsertPost(r, p)
    PROVE  [Directory!Next]_abstract
<1> DEFINE licence == [s \in Requests |-> Licence(s)]
<1>0. PICK h \in Hooks, row \in Hook : h = req[r].hook /\ row = req[r].row
  BY DEF InsertPost, Inv, SlotOK
<1>1. /\ req[r].pc = "post" /\ posts[p] = NULL /\ UNCHANGED <<hooks, channels, told>>
      /\ row.token = "signed" /\ row.user # NULL /\ AsRead(r)
      /\ Stored(h) => hooks[h].channel = row.channel
  BY <1>0 DEF InsertPost, NewPost, Inv, SlotOK
<1>2. licence[r] = [hook |-> h, channel |-> row.channel] /\ licence[r] # NULL
  <2>1. licence[r] = [hook |-> h, channel |-> row.channel]
    BY <1>0, <1>1 DEF Licence
  <2>2. [hook |-> h, channel |-> row.channel] \in Post
    BY DEF Post, Hook
  <2> QED BY <2>1, <2>2, WebhooksAssumption
<1>3. licence' = [licence EXCEPT ![r] = NULL]
  <2>1. PICK q \in Request : req' = [req EXCEPT ![r] = q] /\ q.pc # "post"
    <3>1. CASE row.channel \in channels
      <4> DEFINE w == [Idle EXCEPT !.pc = "tell", !.hook = h, !.tells = row.name]
      <4>1. w \in Request /\ w.pc = "tell"
        BY DEF Idle, Request, Labels, Hook
      <4>2. req' = [req EXCEPT ![r] = w]
        BY <1>0, <3>1 DEF InsertPost, ThenTell
      <4> HIDE DEF w
      <4> QED BY <4>1, <4>2
    <3>2. CASE row.channel \notin channels
      BY <1>0, <3>2, IdleOK DEF InsertPost, Finish
    <3> QED BY <3>1, <3>2
  <2> QED BY <2>1, LicenceOf
<1>4. CASE row.channel \notin channels
  <2>1. UNCHANGED posts
    BY <1>0, <1>4 DEF InsertPost
  <2>2. Directory!Withdraw(r)
    BY <1>1, <1>2, <1>3, <2>1 DEF Directory!Withdraw
  <2> QED BY <2>2 DEF Directory!Next
<1>5. CASE row.channel \in channels
  <2>1. posts' = [posts EXCEPT ![p] = licence[r]]
    BY <1>0, <1>2, <1>5 DEF InsertPost
  <2>2. Sure(h) => Stored(h) /\ told[h] = hooks[h].name /\ hooks[h] = row
    BY <1>0, <1>1 DEF AsRead
  <2>3. licence[r].hook = h /\ licence[r].channel = row.channel
    BY <1>2
  <2>4. Directory!Doubtful(h) \/ (Directory!WellKnown(h) /\ Directory!MaySpeak(h))
    BY <1>1, <2>2, SameWords DEF Directory!MaySpeak
  <2>5. Directory!Exists(h) => row.channel = hooks[h].channel
    BY <1>1, SameWords
  <2> HIDE DEF licence
  <2>6. Directory!Speak(r, p)
    BY <1>1, <1>2, <1>3, <1>5, <2>1, <2>3, <2>4, <2>5 DEF Directory!Speak, licence
  <2> QED BY <2>6 DEF Directory!Next
<1> QED BY <1>4, <1>5

LEMMA TellAnnounces ==
    ASSUME Inv, NEW r \in Requests, Tell(r)
    PROVE  [Directory!Next]_abstract
<1>1. PICK h \in Hooks : h = req[r].hook /\ req[r].pc = "tell" /\ AsRead(r)
  BY DEF Tell, Inv, SlotOK
<1>2. UNCHANGED <<hooks, channels, posts, [s \in Requests |-> Licence(s)]>>
  BY <1>1, IdleOK, LicencesStay DEF Tell, Finish
<1>3. CASE ~ Sure(h)
  <2>1. told' = [told EXCEPT ![h] = told[h]]
    BY <1>1, <1>3 DEF Tell, Sure
  <2> QED BY <1>2, <2>1 DEF abstract, Inv, TypeOK
<1>4. CASE Sure(h)
  <2>1. told' = [told EXCEPT ![h] = Shown(h)]
    BY <1>1, <1>4 DEF Tell, Sure, AsRead
  <2>2. Directory!Announce(h)
    BY <1>2, <1>4, <2>1, SameWords DEF Directory!Announce
  <2> QED BY <2>2 DEF Directory!Next
<1> QED BY <1>3, <1>4

\* Nothing changes but, for one webhook, that it comes into doubt.
LEMMA OnlyDoubts ==
    ASSUME NEW h \in Hooks, UNCHANGED <<hooks, channels, posts, [s \in Requests |-> Licence(s)]>>,
           told' = told \/ told' = [told EXCEPT ![h] = "unsure"]
    PROVE  [Directory!Next]_abstract
BY DEF Directory!Next, Directory!Doubt, abstract

LEMMA StartsDoubt ==
    ASSUME Inv, NEW r \in Requests, NEW h \in Hooks,
           \/ \E g \in Hooks, n \in Names, t \in Tokens \cup {NULL} : StartUpdate(r, h, g, n, t)
           \/ StartDelete(r, h)
    PROVE  [Directory!Next]_abstract
<1>1. ASSUME NEW g \in Hooks, NEW n \in Names, NEW t \in Tokens \cup {NULL},
             StartUpdate(r, h, g, n, t)
      PROVE  [Directory!Next]_abstract
  <2> DEFINE q == Merged(h, g, n, t)
  <2>1. /\ req[r].pc = "idle" /\ Stored(h) /\ req' = [req EXCEPT ![r] = q]
        /\ UNCHANGED <<hooks, channels, posts>>
        /\ told' \in {told, [told EXCEPT ![g] = "unsure"]}
    BY <1>1, IdleOK DEF StartUpdate, Meets
  <2>2. q \in Request /\ q.pc = "save"
    BY <2>1, MergedOK
  <2> HIDE DEF q
  <2>3. UNCHANGED [s \in Requests |-> Licence(s)]
    BY <2>1, <2>2, LicencesStay
  <2> QED BY <2>1, <2>3, OnlyDoubts
<1>2. CASE StartDelete(r, h)
  <2> DEFINE q == [Idle EXCEPT !.pc = "delete", !.hook = h]
  <2>1. /\ req[r].pc = "idle" /\ req' = [req EXCEPT ![r] = q]
        /\ UNCHANGED <<hooks, channels, posts>>
        /\ told' \in {told, [told EXCEPT ![h] = "unsure"]}
    BY <1>2, IdleOK DEF StartDelete, Meets
  <2>2. q \in Request /\ q.pc = "delete"
    BY DEF Idle, Request, Labels
  <2> HIDE DEF q
  <2>3. UNCHANGED [s \in Requests |-> Licence(s)]
    BY <2>1, <2>2, LicencesStay
  <2> QED BY <2>1, <2>3, OnlyDoubts
<1> QED BY <1>1, <1>2

LEMMA FailDoubts ==
    ASSUME Inv, NEW r \in Requests, Fail(r)
    PROVE  [Directory!Next]_abstract
<1> DEFINE licence == [s \in Requests |-> Licence(s)]
<1>1. PICK h \in Hooks \cup {NULL} : h = req[r].hook
  BY DEF Inv, TypeOK, Request
<1>2. /\ UNCHANGED <<hooks, channels, posts>> /\ req' = [req EXCEPT ![r] = Idle]
      /\ told' = [g \in Hooks |-> IF g = h THEN "unsure" ELSE told[g]]
  BY <1>1 DEF Fail, Finish
<1>3. h \in Hooks => told' = [told EXCEPT ![h] = "unsure"]
  BY <1>2 DEF Inv, TypeOK
<1>4. CASE req[r].pc = "post"
  <2>1. h \in Hooks /\ req[r].row \in Hook
    BY <1>1, <1>4 DEF Inv, SlotOK
  <2>2. licence[r] = [hook |-> h, channel |-> req[r].row.channel]
    BY <1>1, <1>4 DEF Licence
  <2>3. [hook |-> h, channel |-> req[r].row.channel] \in Post
    BY <2>1 DEF Post, Hook
  <2>4. licence[r] # NULL /\ licence[r].hook = h
    BY <2>2, <2>3, WebhooksAssumption
  <2>5. licence' = [licence EXCEPT ![r] = NULL]
    BY <1>2, IdleOK, LicenceOf
  <2> HIDE DEF licence
  <2>6. Directory!Withdraw(r)
    BY <1>2, <1>3, <2>1, <2>4, <2>5 DEF Directory!Withdraw, licence
  <2> QED BY <2>6 DEF Directory!Next
<1>5. CASE req[r].pc # "post"
  <2>1. UNCHANGED licence
    BY <1>2, <1>5, IdleOK, LicencesStay
  <2>2. CASE h \in Hooks
    BY <1>2, <1>3, <2>1, <2>2, OnlyDoubts
  <2>3. CASE h = NULL
    <3>1. told' = told
      BY <1>2, <2>3, NullApart DEF Inv, TypeOK
    <3> QED BY <1>2, <2>1, <3>1 DEF abstract
  <2> QED BY <2>2, <2>3
<1> QED BY <1>4, <1>5

LEMMA StepInDirectory == Inv /\ [Next]_vars => [Directory!Next]_abstract
<1> SUFFICES ASSUME Inv, [Next]_vars PROVE [Directory!Next]_abstract
  OBVIOUS
<1>1. ASSUME NEW r \in Requests, Managed(r) PROVE [Directory!Next]_abstract
  <2>1. ASSUME NEW c \in Channels, NEW n \in Names, NEW owner \in Owners,
               StartCreate(r, c, n, owner)
        PROVE  [Directory!Next]_abstract
    <3>1. UNCHANGED [s \in Requests |-> Licence(s)]
      <4>1. /\ req[r].pc # "post" /\ req'[r].pc # "post"
            /\ \A s \in Requests : s # r => req'[s] = req[s]
        BY <2>1, IdleOK DEF StartCreate, Inv, TypeOK, Idle
      <4> QED BY <4>1, SameLicences
    <3> QED BY <2>1, <3>1 DEF StartCreate, abstract
  <2> QED BY <1>1, <2>1, InsertAppears, StartsDoubt, SaveChanges, DeleteDisappears,
             TellAnnounces DEF Managed
<1>2. ASSUME NEW r \in Requests, Triggered(r) PROVE [Directory!Next]_abstract
  BY <1>2, TriggerAdmitted, PostSpeaks DEF Triggered
<1>3. ASSUME NEW c \in Channels, DeleteChannel(c) PROVE [Directory!Next]_abstract
  <2>1. UNCHANGED [s \in Requests |-> Licence(s)]
    BY <1>3 DEF DeleteChannel, Licence
  <2> QED BY <1>3, <2>1 DEF DeleteChannel, Directory!Next, Directory!Close
<1>4. ASSUME NEW p \in PostIds, DeletePost(p) PROVE [Directory!Next]_abstract
  <2>1. UNCHANGED [s \in Requests |-> Licence(s)]
    BY <1>4 DEF DeletePost, Licence
  <2> QED BY <1>4, <2>1 DEF DeletePost, Directory!Next, Directory!Retract
<1>5. CASE UNCHANGED vars
  <2>1. UNCHANGED [s \in Requests |-> Licence(s)]
    BY <1>5 DEF vars, Licence
  <2> QED BY <1>5, <2>1 DEF vars, abstract
<1> QED BY <1>1, <1>2, <1>3, <1>4, <1>5, FailDoubts DEF Next

\* The webhooks implement Posters, with any number of requests at a time, and whether
\* or not calls fail: each statement and each broadcast is one step of it or none.  So
\* every post was let in by a look at the webhook, which was signed and had a user, and
\* goes into its channel; and unless requests on it failed or met, a webhook is changed,
\* used or deleted only while its channel knows it by its name.
THEOREM ImplementsDirectory == Spec => ImplementsPosters
<1>1. Init => Directory!Init
  <2> SUFFICES ASSUME Init PROVE Directory!Init
    OBVIOUS
  <2>1. [r \in Requests |-> Licence(r)] = [r \in Requests |-> NULL]
    BY IdleOK DEF Init, Licence
  <2> QED BY <2>1 DEF Init, Directory!Init
<1>2. Inv /\ [Next]_vars
        => [Directory!Next]_<<hooks, channels, posts, [r \in Requests |-> Licence(r)], told>>
  BY StepInDirectory DEF abstract
<1> QED BY <1>1, <1>2, AlwaysInv, PTL DEF Spec, ImplementsPosters, Directory!Spec
=============================================================================
