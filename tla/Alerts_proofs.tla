----------------------------- MODULE Alerts_proofs -----------------------------
(***************************************************************************)
(* Proofs about Alerts: the subscription follows the opt-in, the cursor in *)
(* the store is honest, and pings reach the user. The first rests on       *)
(* Subscribed, which knows nothing of ReadState; the second on Typed /\    *)
(* Honest /\ Watched /\ Wished, which know nothing of what Alerts adds; the *)
(* third adds Logged (nothing is shown that was not posted) and Tracked    *)
(* (every ping is seen, lost in a named way, or on its way somewhere).     *)
(***************************************************************************)
EXTENDS Alerts, FiniteSetTheorems, WellFoundedInduction, TLAPS

-----------------------------------------------------------------------------
(* The subscription.                                                       *)

Aligned == subs = {sub} \ {0}

\* What the only chore of the browser leaves to be done, stage by stage.
Midway(x) ==
  \/ /\ x.op = "on" /\ wanted = TRUE
     /\ \/ x.at \in {"prompt", "subscribe"} /\ Aligned
        \/ x.at = "tell" /\ sub # 0 /\ x.ep = sub /\ subs \subseteq {sub}
  \/ /\ x.op = "off" /\ wanted = FALSE
     /\ \/ x.at = "find" /\ Aligned
        \/ x.at = "drop" /\ sub # 0 /\ x.ep = sub /\ subs = {sub}
        \/ x.at = "tell" /\ sub = 0 /\ subs \subseteq {x.ep}
  \/ /\ x.op = "renew" /\ wanted = TRUE /\ sub # 0 /\ x.ep = sub /\ x.was # sub
     /\ \/ x.at = "tell" /\ subs \subseteq {x.was}
        \/ x.at = "forget" /\ sub \in subs /\ subs \subseteq {x.was, sub}

ChoreShape(x) == x = [who |-> x.who, op |-> x.op, at |-> x.at, ep |-> x.ep, was |-> x.was]

Granted ==
  /\ sub \in Nat /\ issued \in Nat /\ sub <= issued
  /\ granted \in BOOLEAN /\ (sub # 0 => granted = TRUE)
  /\ \A x \in chores : ChoreShape(x) /\ (x.op = "on" /\ x.at # "prompt" => granted = TRUE)
AtRest == chores = {} /\ (wanted = TRUE <=> sub # 0) /\ wanted \in BOOLEAN /\ Aligned
OneChore == \E x \in chores : chores = {x} /\ Midway(x)

Subscribed == Granted /\ (crossed = FALSE => AtRest \/ OneChore) /\ crossed \in BOOLEAN

-----------------------------------------------------------------------------
(* The cursor.                                                             *)

FrameState ==
  {f \in [type : {"new", "read", "unread"}, chan : Chan, at : 0..(MaxPosts + 1)] : f.type = "new" => f.at # 0}
CallShape(k) ==
  k = [n |-> k.n, t |-> k.t, op |-> k.op, chan |-> k.chan, at |-> k.at, served |-> k.served,
       page |-> k.page]
CallTyped(k, T) ==
  /\ CallShape(k) /\ k.t \in T /\ k.chan \in Chan /\ k.at \in 0..(MaxPosts + 1)
  /\ k.op \in {"load", "jump", "reload", "summary", "read", "unread"}
  /\ k.served \in {"no", "yes", "failed"}
  /\ k.page \in [Chan -> Nat \X (0..(MaxPosts + 1))]
  /\ k.op \in {"load", "jump", "reload"} => \A c \in Chan : k.page[c][1] <= MaxPosts + 1
  /\ k.op = "unread" => k.at # 0

Typed ==
  /\ limit \in Limits
  /\ log \in [Chan -> 1..(MaxPosts + 1)] /\ cursor \in [Chan -> 0..(MaxPosts + 1)]
  /\ shown \in [Chan -> Nat] /\ wish \in [Chan -> [i : Nat, t : SUBSET Tab]]
  /\ tab \in [limit.tabs -> TabState] /\ in \in [limit.tabs -> Seq(FrameState)]
  /\ \A k \in calls : CallTyped(k, limit.tabs)
Routed == \A r \in routes : r.t \in limit.tabs /\ r.ping[1] \in Chan

\* Whatever will or may become the cursor of c is no further than h.
CallWithin(k, c, h) ==
  /\ k.op = "summary" => k.page[c][2] <= h
  /\ k.op = "read" /\ k.chan = c => k.at <= h
  /\ k.op = "unread" /\ k.chan = c => k.at <= h + 1
FrameWithin(f, c, h) == f.chan = c /\ f.type # "new" => f.at <= h
Within(c, h) ==
  /\ cursor[c] <= h
  /\ \A t \in limit.tabs : tab[t].lastRead[c] <= h
  /\ \A t \in limit.tabs : \A q \in DOMAIN in[t] : FrameWithin(in[t][q], c, h)
  /\ \A k \in calls : CallWithin(k, c, h)
Honest == \A c \in Chan \ blind : Within(c, shown[c])

\* A pane the user is looking at has been shown to the end.
Watches(s, h) == s.focused = TRUE /\ s.pane = "shown" => Newest(s.list[s.active]) <= h[s.active]
Watched == \A t \in limit.tabs : Watches(tab[t], shown)

Marking(k, c) == k.op \in {"read", "unread"} /\ k.chan = c /\ k.served = "no"
\* While a mark of "unread" stands, no other mark of the channel is under way,
\* and the tab it was made in keeps it.
Stands(c) ==
  /\ \A k \in calls : Marking(k, c) => k.op = "unread" /\ k.at = wish[c].i
  /\ \E t \in limit.tabs : wish[c].t = {t} /\ c \in tab[t].manual
  /\ cursor[c] < wish[c].i \/ \E k \in calls : Marking(k, c) /\ k.op = "unread"
Wished == \A c \in Chan : wish[c].i # 0 => Stands(c)
-----------------------------------------------------------------------------
(***************************************************************************)
(* The subscription follows the opt-in.                                    *)
(***************************************************************************)
subscription == <<granted, sub, issued, chores, wanted, crossed, subs>>

LEMMA ChoreMade ==
  ASSUME NEW w, NEW o, NEW a, NEW e
  PROVE  LET x == Chore(w, o, a, e)
         IN  /\ ChoreShape(x)
             /\ x.op = o /\ x.at = a /\ x.ep = e /\ x.was = 0
BY DEF Chore, ChoreShape

LEMMA ChoreMoved ==
  ASSUME NEW x, ChoreShape(x), NEW a, NEW y, y = [x EXCEPT !.at = a]
  PROVE  ChoreShape(y) /\ y.op = x.op /\ y.at = a /\ y.ep = x.ep /\ y.was = x.was
<1>1. PICK w, o, b, f, was : x = [who |-> w, op |-> o, at |-> b, ep |-> f, was |-> was]
  BY DEF ChoreShape
<1>2. [x EXCEPT !.at = a] = [who |-> w, op |-> o, at |-> a, ep |-> f, was |-> was]
  BY <1>1
<1> QED BY <1>1, <1>2 DEF ChoreShape

LEMMA ChoreGiven ==
  ASSUME NEW x, ChoreShape(x), NEW e, NEW y, y = [x EXCEPT !.ep = e]
  PROVE  ChoreShape(y) /\ y.op = x.op /\ y.at = x.at /\ y.ep = e /\ y.was = x.was
<1>1. PICK w, o, b, f, was : x = [who |-> w, op |-> o, at |-> b, ep |-> f, was |-> was]
  BY DEF ChoreShape
<1>2. [x EXCEPT !.ep = e] = [who |-> w, op |-> o, at |-> b, ep |-> e, was |-> was]
  BY <1>1
<1> QED BY <1>1, <1>2 DEF ChoreShape

LEMMA SubscribedInit == AlertsInit => Subscribed
<1> SUFFICES ASSUME AlertsInit PROVE Subscribed OBVIOUS
<1>1. sub = 0 \/ sub = 1
  BY DEF AlertsInit
<1>2. /\ issued = sub /\ subs = {sub} \ {0} /\ chores = {} /\ crossed = FALSE
      /\ granted = wanted /\ wanted \in BOOLEAN
  BY DEF AlertsInit
<1>3. wanted = TRUE <=> sub # 0
  <2>1. CASE "opted" \in limit.ops
    <3>1. wanted = TRUE BY <2>1 DEF AlertsInit
    <3>2. sub = 1 BY <2>1 DEF AlertsInit
    <3> QED BY <3>1, <3>2
  <2>2. CASE "opted" \notin limit.ops
    <3>1. ~wanted BY <2>2 DEF AlertsInit
    <3>2. sub = 0 BY <2>2 DEF AlertsInit
    <3> QED BY <1>2, <3>1, <3>2
  <2> QED BY <2>1, <2>2
<1>4. Granted BY <1>1, <1>2, <1>3 DEF Granted
<1>5. AtRest BY <1>1, <1>2, <1>3 DEF AtRest, Aligned
<1> QED BY <1>2, <1>4, <1>5 DEF Subscribed

\* Only these steps touch the subscription.
LEMMA SubscriptionSteps ==
  ASSUME AlertsNext
  PROVE  \/ UNCHANGED subscription
         \/ \E t \in limit.tabs : ConnectAndRenew(t) \/ \E want \in BOOLEAN : SetEnabled(t, want)
         \/ \E x \in chores : ChoreNext(x)
         \/ Rotate \/ \E q \in pushes : PushArrives(q)
<1> SUFFICES ASSUME ~(\E t \in limit.tabs : ConnectAndRenew(t) \/ \E want \in BOOLEAN : SetEnabled(t, want)),
                    ~(\E x \in chores : ChoreNext(x)),
                    ~Rotate, ~(\E q \in pushes : PushArrives(q))
             PROVE  UNCHANGED subscription
  OBVIOUS
<1> USE DEF subscription, browser
<1>1. ASSUME NEW t \in limit.tabs, TabAlerts(t) PROVE UNCHANGED subscription
  <2>1. CASE UserNext(t) /\ UNCHANGED alertvars BY <2>1 DEF alertvars
  <2>2. CASE TakeAndAlert(t) BY <2>2 DEF TakeAndAlert
  <2>3. CASE DropAndMiss(t) BY <2>3 DEF DropAndMiss
  <2>4. CASE Unregister(t) BY <2>4 DEF Unregister, delivery
  <2>5. CASE \E c \in Chan : NotificationClick(c, t) BY <2>5 DEF NotificationClick
  <2> QED BY <1>1, <2>1, <2>2, <2>3, <2>4, <2>5 DEF TabAlerts
<1>2. ASSUME \E k \in calls : CallNext(k) /\ UNCHANGED alertvars PROVE UNCHANGED subscription
  BY <1>2 DEF alertvars
<1>3. ASSUME PostPings PROVE UNCHANGED subscription BY <1>3 DEF PostPings
<1>4. ASSUME WorkerNext PROVE UNCHANGED subscription
  <2>1. CASE \E p \in jobs : SendPushNotifications(p) BY <2>1 DEF SendPushNotifications
  <2>2. CASE \E k \in checks, fails \in BOOLEAN : MaybeShowAsks(k, fails) BY <2>2 DEF MaybeShowAsks
  <2>3. CASE \E k \in checks : MaybeShow(k) BY <2>3 DEF MaybeShow
  <2>4. CASE \E r \in routes : RouteToPermalink(r) BY <2>4 DEF RouteToPermalink
  <2> QED BY <1>4, <2>1, <2>2, <2>3, <2>4 DEF WorkerNext
<1> QED BY <1>1, <1>2, <1>3, <1>4 DEF AlertsNext

LEMMA PushKeeps ==
  ASSUME Subscribed, NEW q, PushArrives(q)
  PROVE  Subscribed'
<1>1. UNCHANGED <<granted, sub, issued, chores, wanted, crossed>>
  BY DEF PushArrives, browser
<1>2. subs' = subs \/ (q[1] # sub /\ subs' = subs \ {q[1]})
  BY DEF PushArrives
<1>3. Granted' BY <1>1 DEF Subscribed, Granted
<1>4. Aligned => Aligned' BY <1>1, <1>2 DEF Aligned
<1>5. AtRest => AtRest' BY <1>1, <1>4 DEF AtRest
<1>6. ASSUME NEW x \in chores, Midway(x) PROVE Midway(x)'
  BY <1>1, <1>2, <1>4, <1>6 DEF Midway
<1>7. OneChore => OneChore' BY <1>1, <1>6 DEF OneChore
<1> QED BY <1>1, <1>3, <1>5, <1>7 DEF Subscribed

LEMMA StartKeeps ==
  ASSUME Subscribed, NEW t, NEW want \in BOOLEAN, SetEnabled(t, want)
  PROVE  Subscribed'
<1>1. UNCHANGED <<granted, sub, issued, subs>> /\ wanted' = want
  BY DEF SetEnabled
<1>2. PICK x : /\ chores' = chores \cup {x} /\ crossed' = (crossed \/ chores # {})
               /\ ChoreShape(x)
               /\ IF want THEN x.op = "on" /\ x.at = "prompt" ELSE x.op = "off" /\ x.at = "find"
  BY ChoreMade DEF SetEnabled, Started
<1>3. Granted' BY <1>1, <1>2 DEF Subscribed, Granted
<1>4. crossed' \in BOOLEAN BY <1>2
<1>5. ASSUME crossed' = FALSE PROVE OneChore'
  <2>1. crossed = FALSE /\ chores = {} BY <1>2, <1>5 DEF Subscribed
  <2>2. AtRest BY <2>1 DEF Subscribed, OneChore
  <2>3. Aligned' BY <1>1, <2>2 DEF AtRest, Aligned
  <2>4. Midway(x)' BY <1>1, <1>2, <2>3 DEF Midway
  <2> QED BY <1>2, <2>1, <2>4 DEF OneChore
<1> QED BY <1>3, <1>4, <1>5 DEF Subscribed

LEMMA RenewKeeps ==
  ASSUME Subscribed, NEW t, ConnectAndRenew(t)
  PROVE  Subscribed'
<1>1. UNCHANGED <<granted, sub, issued, subs, wanted>>
  BY DEF ConnectAndRenew
<1>2. CASE UNCHANGED <<chores, crossed>>
  <2>1. AtRest => AtRest' BY <1>1, <1>2 DEF AtRest, Aligned
  <2>2. OneChore => OneChore' BY <1>1, <1>2 DEF OneChore, Midway, Aligned
  <2>3. Granted' BY <1>1, <1>2 DEF Subscribed, Granted
  <2> QED BY <1>2, <2>1, <2>2, <2>3 DEF Subscribed
<1>3. CASE ~UNCHANGED <<chores, crossed>>
  <2>1. PICK x : /\ chores' = chores \cup {x} /\ crossed' = (crossed \/ chores # {} \/ ~wanted)
                 /\ ChoreShape(x) /\ x.op = "on" /\ x.at = "subscribe" /\ granted
    BY <1>3, ChoreMade DEF ConnectAndRenew
  <2>2. granted' = TRUE
    BY <1>1, <2>1 DEF Subscribed, Granted
  <2>3. Granted' BY <1>1, <2>1, <2>2 DEF Subscribed, Granted
  <2>4. crossed' \in BOOLEAN BY <2>1
  <2>5. ASSUME crossed' = FALSE PROVE OneChore'
    <3>1. crossed = FALSE /\ chores = {} /\ wanted BY <2>1, <2>5 DEF Subscribed
    <3>2. AtRest BY <3>1 DEF Subscribed, OneChore
    <3>3. Aligned' /\ wanted' = TRUE BY <1>1, <3>1, <3>2 DEF AtRest, Aligned
    <3>4. Midway(x)' BY <2>1, <3>3 DEF Midway
    <3> QED BY <2>1, <3>1, <3>4 DEF OneChore
  <2> QED BY <2>3, <2>4, <2>5 DEF Subscribed
<1> QED BY <1>2, <1>3

LEMMA RotateKeeps ==
  ASSUME Subscribed, Rotate
  PROVE  Subscribed'
<1>1. PICK x : /\ x = [Chore(NoTab, "renew", "tell", issued + 1) EXCEPT !.was = sub]
               /\ ChoreShape(x) /\ x.op = "renew" /\ x.at = "tell" /\ x.ep = issued + 1 /\ x.was = sub
  <2>1. [Chore(NoTab, "renew", "tell", issued + 1) EXCEPT !.was = sub]
          = [who |-> NoTab, op |-> "renew", at |-> "tell", ep |-> issued + 1, was |-> sub]
    BY DEF Chore
  <2> QED BY <2>1 DEF ChoreShape
<1>2. /\ UNCHANGED <<granted, subs, wanted>> /\ sub # 0 /\ sub' = issued + 1 /\ issued' = issued + 1
      /\ chores' = chores \cup {x} /\ crossed' = (crossed \/ chores # {})
  BY <1>1 DEF Rotate, Started
<1>3. Granted' BY <1>1, <1>2 DEF Subscribed, Granted
<1>4. crossed' \in BOOLEAN BY <1>2
<1>5. ASSUME crossed' = FALSE PROVE OneChore'
  <2>1. crossed = FALSE /\ chores = {} BY <1>2, <1>5 DEF Subscribed
  <2>2. AtRest BY <2>1 DEF Subscribed, OneChore
  <2>3. wanted = TRUE /\ subs = {sub} BY <1>2, <2>2 DEF AtRest, Aligned
  <2>4. sub' # 0 /\ sub' # sub
    <3>1. sub \in Nat /\ issued \in Nat /\ sub <= issued BY DEF Subscribed, Granted
    <3> QED BY <1>2, <3>1
  <2>5. Midway(x)' BY <1>1, <1>2, <2>3, <2>4 DEF Midway
  <2> QED BY <1>2, <2>1, <2>5 DEF OneChore
<1> QED BY <1>3, <1>4, <1>5 DEF Subscribed

\* The only chore under way is the one that goes on.
LEMMA OnlyOne ==
  ASSUME Subscribed, NEW x \in chores, crossed = FALSE
  PROVE  chores = {x} /\ Midway(x)
<1>1. OneChore BY DEF Subscribed, AtRest
<1>2. PICK y \in chores : chores = {y} /\ Midway(y) BY <1>1 DEF OneChore
<1>3. x = y BY <1>2
<1> QED BY <1>2, <1>3

LEMMA PromptKeeps ==
  ASSUME Subscribed, NEW x \in chores, NEW yes \in BOOLEAN, AnswerPrompt(x, yes)
  PROVE  Subscribed'
<1>1. /\ UNCHANGED <<sub, issued, subs, crossed>> /\ x.op = "on" /\ x.at = "prompt"
      /\ granted' = yes /\ (yes \/ ~granted) /\ ChoreShape(x)
  BY DEF AnswerPrompt, Subscribed, Granted
<1>2. Aligned => Aligned' BY <1>1 DEF Aligned
<1>3. CASE yes
  <2>1. PICK y : y = [x EXCEPT !.at = "subscribe"] OBVIOUS
  <2>2. ChoreShape(y) /\ y.op = "on" /\ y.at = "subscribe" BY <1>1, <2>1, ChoreMoved
  <2>3. wanted' = wanted /\ chores' = (chores \ {x}) \cup {y}
    BY <1>3, <2>1 DEF AnswerPrompt, GoesOn
  <2>4. granted' = TRUE BY <1>1, <1>3
  <2>5. Granted' BY <1>1, <2>2, <2>3, <2>4 DEF Subscribed, Granted
  <2>6. ASSUME crossed = FALSE PROVE OneChore'
    <3>1. chores = {x} /\ Midway(x) BY <2>6, OnlyOne
    <3>2. wanted = TRUE /\ Aligned BY <1>1, <3>1 DEF Midway
    <3>3. Midway(y)' BY <1>2, <2>2, <2>3, <3>2 DEF Midway
    <3> QED BY <2>3, <3>1, <3>3 DEF OneChore
  <2> QED BY <1>1, <2>5, <2>6 DEF Subscribed
<1>4. CASE ~yes
  <2>1. chores' = chores \ {x} /\ wanted' = (wanted /\ chores # {x})
    BY <1>4 DEF AnswerPrompt, Ends
  <2>2. granted' = FALSE BY <1>1, <1>4
  <2>3. granted = FALSE BY <1>1, <1>4 DEF Subscribed, Granted
  <2>4. sub = 0 BY <2>3 DEF Subscribed, Granted
  <2>5. Granted' BY <1>1, <2>1, <2>2, <2>3, <2>4 DEF Subscribed, Granted
  <2>6. ASSUME crossed = FALSE PROVE AtRest'
    <3>1. chores = {x} /\ Midway(x) BY <2>6, OnlyOne
    <3>2. Aligned' BY <1>1, <1>2, <3>1 DEF Midway
    <3>3. chores' = {} BY <2>1, <3>1
    <3>4. wanted' = FALSE BY <2>1, <3>1
    <3>5. sub' = 0 BY <1>1, <2>4
    <3> QED BY <3>2, <3>3, <3>4, <3>5 DEF AtRest
  <2> QED BY <1>1, <2>5, <2>6 DEF Subscribed
<1> QED BY <1>3, <1>4

LEMMA EnableKeeps ==
  ASSUME Subscribed, NEW x \in chores, EnablePush(x)
  PROVE  Subscribed'
<1>1. UNCHANGED <<granted, wanted, crossed>> /\ x.op = "on" /\ ChoreShape(x)
  BY DEF EnablePush, Subscribed, Granted
<1>2. CASE x.at = "subscribe"
  <2>1. PICK e, y : e = sub' /\ y = [x EXCEPT !.at = "tell", !.ep = e] OBVIOUS
  <2>2. ChoreShape(y) /\ y.op = "on" /\ y.at = "tell" /\ y.ep = sub'
    <3>1. PICK z : z = [x EXCEPT !.at = "tell"] OBVIOUS
    <3>2. ChoreShape(z) /\ z.op = x.op /\ z.at = "tell" BY <1>1, <3>1, ChoreMoved
    <3>3. y = [z EXCEPT !.ep = e] BY <2>1, <3>1
    <3>4. ChoreShape(y) /\ y.op = z.op /\ y.at = z.at /\ y.ep = e BY <3>2, <3>3, ChoreGiven
    <3> QED BY <1>1, <2>1, <3>2, <3>4
  <2>3. /\ chores' = (chores \ {x}) \cup {y} /\ subs' = subs
        /\ IF sub = 0 THEN sub' = issued + 1 /\ issued' = issued + 1 ELSE sub' = sub /\ issued' = issued
    BY <1>2, <2>1 DEF EnablePush, GoesOn
  <2>4. granted = TRUE BY <1>1, <1>2 DEF Subscribed, Granted
  <2>5. sub \in Nat /\ issued \in Nat /\ sub <= issued BY DEF Subscribed, Granted
  <2>6. sub' \in Nat /\ issued' \in Nat /\ sub' <= issued' /\ sub' # 0 BY <2>3, <2>5
  <2>7. \A z \in chores : ChoreShape(z) BY DEF Subscribed, Granted
  <2>8. Granted' BY <1>1, <2>2, <2>3, <2>4, <2>6, <2>7 DEF Granted
  <2>9. ASSUME crossed = FALSE PROVE OneChore'
    <3>1. chores = {x} /\ Midway(x) BY <2>9, OnlyOne
    <3>2. wanted = TRUE /\ subs = {sub} \ {0} BY <1>1, <1>2, <3>1 DEF Midway, Aligned
    <3>3. subs' \subseteq {sub'} BY <2>3, <3>2
    <3>4. Midway(y)' BY <1>1, <2>2, <2>6, <3>2, <3>3 DEF Midway
    <3> QED BY <2>3, <3>1, <3>4 DEF OneChore
  <2> QED BY <1>1, <2>8, <2>9 DEF Subscribed
<1>3. CASE x.at = "tell"
  <2>1. subs' = subs \cup {x.ep} /\ chores' = chores \ {x} /\ sub' = sub /\ issued' = issued
    BY <1>3 DEF EnablePush, Ends
  <2>2. Granted' BY <1>1, <2>1 DEF Subscribed, Granted
  <2>3. ASSUME crossed = FALSE PROVE AtRest'
    <3>1. chores = {x} /\ Midway(x) BY <2>3, OnlyOne
    <3>2. wanted = TRUE /\ sub # 0 /\ x.ep = sub /\ subs \subseteq {sub} BY <1>1, <1>3, <3>1 DEF Midway
    <3>3. subs' = {sub'} /\ chores' = {} BY <2>1, <3>1, <3>2
    <3> QED BY <1>1, <2>1, <3>2, <3>3 DEF AtRest, Aligned
  <2> QED BY <1>1, <2>2, <2>3 DEF Subscribed
<1> QED BY <1>2, <1>3 DEF EnablePush

LEMMA DisableKeeps ==
  ASSUME Subscribed, NEW x \in chores, DisablePush(x)
  PROVE  Subscribed'
<1>1. UNCHANGED <<granted, wanted, crossed, issued>> /\ x.op = "off" /\ ChoreShape(x)
  BY DEF DisablePush, Subscribed, Granted
<1>2. /\ sub \in Nat /\ issued \in Nat /\ sub <= issued
      /\ \A z \in chores : ChoreShape(z) /\ (z.op = "on" /\ z.at # "prompt" => granted = TRUE)
  BY DEF Subscribed, Granted
<1>3. CASE x.at = "find" /\ sub = 0
  <2>1. sub' = sub /\ subs' = subs /\ chores' = chores \ {x} BY <1>3 DEF DisablePush, Ends
  <2>2. Granted' BY <1>1, <2>1 DEF Subscribed, Granted
  <2>3. ASSUME crossed = FALSE PROVE AtRest'
    <3>1. chores = {x} /\ Midway(x) BY <2>3, OnlyOne
    <3>2. wanted = FALSE /\ Aligned BY <1>1, <1>3, <3>1 DEF Midway
    <3> QED BY <1>1, <1>3, <2>1, <3>1, <3>2 DEF AtRest, Aligned
  <2> QED BY <1>1, <2>2, <2>3 DEF Subscribed
<1>4. CASE x.at = "find" /\ sub # 0
  <2>1. PICK e, y : e = sub /\ y = [x EXCEPT !.at = "drop", !.ep = e] OBVIOUS
  <2>2. ChoreShape(y) /\ y.op = "off" /\ y.at = "drop" /\ y.ep = sub
    <3>1. PICK z : z = [x EXCEPT !.at = "drop"] OBVIOUS
    <3>2. ChoreShape(z) /\ z.op = x.op /\ z.at = "drop" BY <1>1, <3>1, ChoreMoved
    <3>3. y = [z EXCEPT !.ep = e] BY <2>1, <3>1
    <3>4. ChoreShape(y) /\ y.op = z.op /\ y.at = z.at /\ y.ep = e BY <3>2, <3>3, ChoreGiven
    <3> QED BY <1>1, <2>1, <3>2, <3>4
  <2>3. sub' = sub /\ subs' = subs /\ chores' = (chores \ {x}) \cup {y}
    BY <1>4, <2>1 DEF DisablePush, GoesOn
  <2>4. Granted' BY <1>1, <2>2, <2>3 DEF Subscribed, Granted
  <2>5. ASSUME crossed = FALSE PROVE OneChore'
    <3>1. chores = {x} /\ Midway(x) BY <2>5, OnlyOne
    <3>2. wanted = FALSE /\ subs = {sub} BY <1>1, <1>4, <3>1 DEF Midway, Aligned
    <3>3. Midway(y)' BY <1>1, <1>4, <2>2, <2>3, <3>2 DEF Midway
    <3> QED BY <2>3, <3>1, <3>3 DEF OneChore
  <2> QED BY <1>1, <2>4, <2>5 DEF Subscribed
<1>5. CASE x.at = "drop"
  <2>1. PICK y : y = [x EXCEPT !.at = "tell"] OBVIOUS
  <2>2. ChoreShape(y) /\ y.op = "off" /\ y.at = "tell" /\ y.ep = x.ep BY <1>1, <2>1, ChoreMoved
  <2>3. sub' = (IF sub = x.ep THEN 0 ELSE sub) /\ subs' = subs /\ chores' = (chores \ {x}) \cup {y}
    BY <1>5, <2>1 DEF DisablePush, GoesOn
  <2>4. granted \in BOOLEAN /\ (sub # 0 => granted = TRUE) BY DEF Subscribed, Granted
  <2>5. sub' \in Nat /\ sub' <= issued /\ (sub' # 0 => sub # 0) BY <1>2, <2>3
  <2>6. \A z \in chores' : ChoreShape(z) /\ (z.op = "on" /\ z.at # "prompt" => granted = TRUE)
    BY <1>2, <2>2, <2>3
  <2>7. Granted' BY <1>1, <1>2, <2>4, <2>5, <2>6 DEF Granted
  <2>8. ASSUME crossed = FALSE PROVE OneChore'
    <3>1. chores = {x} /\ Midway(x) BY <2>8, OnlyOne
    <3>2. wanted = FALSE /\ x.ep = sub /\ subs = {sub} BY <1>1, <1>5, <3>1 DEF Midway
    <3>3. Midway(y)' BY <1>1, <2>2, <2>3, <3>2 DEF Midway
    <3> QED BY <2>3, <3>1, <3>3 DEF OneChore
  <2> QED BY <1>1, <2>7, <2>8 DEF Subscribed
<1>6. CASE x.at = "tell"
  <2>1. subs' = subs \ {x.ep} /\ chores' = chores \ {x} /\ sub' = sub BY <1>6 DEF DisablePush, Ends
  <2>2. Granted' BY <1>1, <2>1 DEF Subscribed, Granted
  <2>3. ASSUME crossed = FALSE PROVE AtRest'
    <3>1. chores = {x} /\ Midway(x) BY <2>3, OnlyOne
    <3>2. wanted = FALSE /\ sub = 0 /\ subs \subseteq {x.ep} BY <1>1, <1>6, <3>1 DEF Midway
    <3>3. subs' = {} /\ chores' = {} BY <2>1, <3>1, <3>2
    <3> QED BY <1>1, <2>1, <3>2, <3>3 DEF AtRest, Aligned
  <2> QED BY <1>1, <2>2, <2>3 DEF Subscribed
<1> QED BY <1>3, <1>4, <1>5, <1>6 DEF DisablePush

LEMMA ChangeKeeps ==
  ASSUME Subscribed, NEW x \in chores, PushSubscriptionChange(x)
  PROVE  Subscribed'
<1>1. UNCHANGED <<granted, wanted, crossed, issued, sub>> /\ x.op = "renew" /\ ChoreShape(x)
  BY DEF PushSubscriptionChange, Subscribed, Granted
<1>2. CASE x.at = "tell"
  <2>1. PICK y : y = [x EXCEPT !.at = "forget"] OBVIOUS
  <2>2. ChoreShape(y) /\ y.op = "renew" /\ y.at = "forget" /\ y.ep = x.ep /\ y.was = x.was
    BY <1>1, <2>1, ChoreMoved
  <2>3. subs' = subs \cup {x.ep} /\ chores' = (chores \ {x}) \cup {y}
    BY <1>2, <2>1 DEF PushSubscriptionChange, GoesOn
  <2>4. Granted' BY <1>1, <2>2, <2>3 DEF Subscribed, Granted
  <2>5. ASSUME crossed = FALSE PROVE OneChore'
    <3>1. chores = {x} /\ Midway(x) BY <2>5, OnlyOne
    <3>2. wanted = TRUE /\ sub # 0 /\ x.ep = sub /\ x.was # sub /\ subs \subseteq {x.was}
      BY <1>1, <1>2, <3>1 DEF Midway
    <3>3. sub' \in subs' /\ subs' \subseteq {x.was, sub'} BY <1>1, <2>3, <3>2
    <3>4. Midway(y)' BY <1>1, <2>2, <3>2, <3>3 DEF Midway
    <3> QED BY <2>3, <3>1, <3>4 DEF OneChore
  <2> QED BY <1>1, <2>4, <2>5 DEF Subscribed
<1>3. CASE x.at = "forget"
  <2>1. subs' = subs \ {x.was} /\ chores' = chores \ {x}
    BY <1>3 DEF PushSubscriptionChange, Ends
  <2>2. Granted' BY <1>1, <2>1 DEF Subscribed, Granted
  <2>3. ASSUME crossed = FALSE PROVE AtRest'
    <3>1. chores = {x} /\ Midway(x) BY <2>3, OnlyOne
    <3>2. wanted = TRUE /\ sub # 0 /\ x.was # sub /\ sub \in subs /\ subs \subseteq {x.was, sub}
      BY <1>1, <1>3, <3>1 DEF Midway
    <3>3. subs' = {sub'} /\ chores' = {} BY <1>1, <2>1, <3>1, <3>2
    <3> QED BY <1>1, <3>2, <3>3 DEF AtRest, Aligned
  <2> QED BY <1>1, <2>2, <2>3 DEF Subscribed
<1> QED BY <1>2, <1>3 DEF PushSubscriptionChange

LEMMA SubscribedNext ==
  ASSUME Subscribed, [AlertsNext]_allvars
  PROVE  Subscribed'
<1>1. CASE UNCHANGED subscription
  <2>1. Granted' BY <1>1 DEF subscription, Subscribed, Granted
  <2>2. AtRest => AtRest' BY <1>1 DEF subscription, AtRest, Aligned
  <2>3. OneChore => OneChore' BY <1>1 DEF subscription, OneChore, Midway, Aligned
  <2> QED BY <1>1, <2>1, <2>2, <2>3 DEF subscription, Subscribed
<1>2. ASSUME NEW x \in chores, ChoreNext(x) PROVE Subscribed'
  <2>1. CASE \E yes \in BOOLEAN : AnswerPrompt(x, yes) BY <2>1, PromptKeeps
  <2>2. CASE EnablePush(x) BY <2>2, EnableKeeps
  <2>3. CASE DisablePush(x) BY <2>3, DisableKeeps
  <2>4. CASE PushSubscriptionChange(x) BY <2>4, ChangeKeeps
  <2>5. CASE ChoreFails(x)
    <3>1. UNCHANGED <<granted, sub, issued>> /\ chores' = chores \ {x} /\ crossed' = TRUE
      BY <2>5 DEF ChoreFails, Ends
    <3>2. Granted' BY <3>1 DEF Subscribed, Granted
    <3> QED BY <3>1, <3>2 DEF Subscribed
  <2> QED BY <1>2, <2>1, <2>2, <2>3, <2>4, <2>5 DEF ChoreNext
<1>3. UNCHANGED allvars => UNCHANGED subscription
  BY DEF allvars, alertvars, browser, subscription
<1> QED BY <1>1, <1>2, <1>3, SubscriptionSteps, RenewKeeps, StartKeeps, RotateKeeps, PushKeeps

\* When toggles did not overlap and nothing failed, the browser is subscribed
\* exactly when the last toggle asked for it, and the server knows that
\* endpoint only, for any number of tabs, toggles and rotations: at most one
\* chore is under way, and it knows what it has left to do.
THEOREM TheSubscriptionFollows == AlertsSpec => []SubscriptionFollows
<1>1. Subscribed => SubscriptionFollows
  <2> SUFFICES ASSUME Subscribed, chores = {}, ~crossed
               PROVE  (wanted <=> sub # 0) /\ subs = {sub} \ {0}
    BY DEF SubscriptionFollows
  <2>1. crossed = FALSE BY DEF Subscribed
  <2>2. AtRest BY <2>1 DEF Subscribed, OneChore
  <2>3. wanted <=> wanted = TRUE BY <2>2 DEF AtRest
  <2> QED BY <2>2, <2>3 DEF AtRest, Aligned
<1> QED BY <1>1, SubscribedInit, SubscribedNext, PTL DEF AlertsSpec

-----------------------------------------------------------------------------
(***************************************************************************)
(* Sets of message ids have a newest, and what the reducers make of a tab. *)
(***************************************************************************)
LEMMA LeastNat ==
  ASSUME NEW T \in SUBSET Nat, T # {}
  PROVE  \E x \in T : \A y \in T : x <= y
<1> DEFINE R == OpToRel(<, Nat)
<1>1. IsWellFoundedOn(R, Nat) BY NatLessThanWellFounded
<1>2. \A x, y \in Nat : x < y => <<x, y>> \in R
  BY DEF OpToRel
<1> HIDE DEF R
<1>3. PICK x \in T : \A y \in T : ~(<<y, x>> \in R)
  BY <1>1, WFMin
<1>4. \A y \in T : x <= y
  <2> TAKE y \in T
  <2>1. x \in Nat /\ y \in Nat OBVIOUS
  <2>2. ~(y < x) BY <1>2, <1>3, <2>1
  <2> QED BY <2>1, <2>2
<1> QED BY <1>4

LEMMA Greatest ==
  ASSUME NEW n \in Nat, NEW S \in SUBSET (0..n), S # {}
  PROVE  Max(S) \in S /\ \A y \in S : y <= Max(S)
<1> DEFINE T == {m \in Nat : \A y \in S : y <= m}
<1>1. n \in T OBVIOUS
<1>2. PICK m \in T : \A y \in T : m <= y BY <1>1, LeastNat
<1>3. m \in S
  <2> SUFFICES ASSUME m \notin S PROVE FALSE OBVIOUS
  <2>1. m # 0
    <3>1. PICK x \in S : TRUE OBVIOUS
    <3>2. x <= m /\ x # m /\ x \in Nat OBVIOUS
    <3> QED BY <3>2
  <2>2. m - 1 \in T BY <2>1
  <2> QED BY <1>2, <2>2
<1>4. \A y \in S : m >= y OBVIOUS
<1>5. \E x \in S : \A y \in S : x >= y BY <1>3, <1>4
<1>6. Max(S) \in S /\ \A y \in S : Max(S) >= y
  BY <1>5 DEF Max
<1> QED BY <1>6

Bound == MaxPosts + 1
LEMMA BoundIsNat == MaxPosts \in Nat /\ Bound \in Nat /\ Bound # 0 /\ Id = 1..Bound
BY LimitsAssumption DEF Bound, Id

LEMMA NewestIs ==
  ASSUME NEW S \in SUBSET Id
  PROVE  /\ Newest(S) \in 0..Bound
         /\ S = {} => Newest(S) = 0
         /\ S # {} => Newest(S) \in S
         /\ \A y \in S : y <= Newest(S)
<1>1. CASE S = {} BY <1>1, BoundIsNat DEF Newest
<1>2. CASE S # {}
  <2>1. S \in SUBSET (0..Bound) BY BoundIsNat
  <2>2. Max(S) \in S /\ \A y \in S : y <= Max(S) BY <1>2, <2>1, BoundIsNat, Greatest
  <2>3. Newest(S) = Max(S) BY <1>2 DEF Newest
  <2> QED BY <1>2, <2>1, <2>2, <2>3
<1> QED BY <1>1, <1>2

\* A message more is the newest, or the newest stays.
LEMMA NewestGrows ==
  ASSUME NEW S \in SUBSET Id, NEW i \in Id
  PROVE  Newest(S \cup {i}) = i \/ Newest(S \cup {i}) <= Newest(S)
<1>1. S \cup {i} \in SUBSET Id OBVIOUS
<1>2. Newest(S \cup {i}) \in S \cup {i} BY <1>1, NewestIs
<1> QED BY <1>2, NewestIs

LEMMA CountIsNat ==
  ASSUME NEW S, NEW n \in Nat, S \subseteq 1..n
  PROVE  Cardinality(S) \in Nat
<1>1. IsFiniteSet(1..n) BY FS_Interval
<1> QED BY <1>1, FS_Subset, FS_CardinalityType

\* All a reader of TabState has to know of two states of a tab.
Alike(s, u) ==
  /\ u.active = s.active /\ u.focused = s.focused /\ u.pane = s.pane
  /\ u.list = s.list /\ u.manual = s.manual

LEMMA ClearedIs ==
  ASSUME NEW s \in TabState, NEW c \in Chan
  PROVE  Cleared(s, c) \in TabState /\ Alike(s, Cleared(s, c)) /\ Cleared(s, c).lastRead = s.lastRead
BY DEF Cleared, TabState, Alike

LEMMA BumpedIs ==
  ASSUME NEW s \in TabState, NEW c \in Chan
  PROVE  BumpUnread(s, c) \in TabState /\ Alike(s, BumpUnread(s, c)) /\ BumpUnread(s, c).lastRead = s.lastRead
BY DEF BumpUnread, TabState, Alike

LEMMA SetUnreadIs ==
  ASSUME NEW s \in TabState, NEW c \in Chan, NEW n \in Nat
  PROVE  SetUnread(s, c, n) \in TabState /\ Alike(s, SetUnread(s, c, n)) /\ SetUnread(s, c, n).lastRead = s.lastRead
BY DEF SetUnread, TabState, Alike

LEMMA SetLastReadIs ==
  ASSUME NEW s \in TabState, NEW c \in Chan, NEW i \in 0..Bound
  PROVE  /\ SetLastRead(s, c, i) \in TabState /\ Alike(s, SetLastRead(s, c, i))
         /\ \A d \in Chan : SetLastRead(s, c, i).lastRead[d] = IF d = c THEN i ELSE s.lastRead[d]
BY DEF SetLastRead, TabState, Alike, Bound

LEMMA RemarkedIs ==
  ASSUME NEW s \in TabState, NEW c \in Chan, NEW i \in 0..Bound, NEW u, u = [s EXCEPT !.marked[c] = i]
  PROVE  u \in TabState /\ Alike(s, u) /\ u.lastRead = s.lastRead
BY DEF TabState, Alike, Bound

LEMMA CountAfterIs ==
  ASSUME NEW s \in TabState, NEW c \in Chan, NEW k
  PROVE  CountAfter(s, c, k) \in Nat
<1>1. s.list[c] \subseteq 1..Bound BY BoundIsNat DEF TabState
<1> QED BY <1>1, BoundIsNat, CountIsNat DEF CountAfter

LEMMA MarkedIs ==
  ASSUME NEW s \in TabState
  PROVE  LET c == s.active
             top == Newest(s.list[c])
             u == Marked(s)
         IN  /\ u \in TabState /\ Alike(s, u) /\ c \in Chan /\ top \in 0..Bound
             /\ \A d \in Chan : u.lastRead[d] = IF Posts(s) /\ d = c THEN top ELSE s.lastRead[d]
<1> DEFINE c == s.active
           top == Newest(s.list[c])
           u == Marked(s)
<1>1. c \in Chan /\ top \in 0..Bound
  <2>1. c \in Chan /\ s.list[c] \in SUBSET Id BY DEF TabState
  <2> QED BY <2>1, NewestIs
<1> HIDE DEF c, top
<1>2. CASE ~Marks(s)
  <2>1. u = s BY <1>2 DEF Marked, Posts
  <2> QED BY <1>1, <1>2, <2>1 DEF Alike, Posts, c, top
<1>3. CASE Marks(s) /\ ~Posts(s)
  <2>1. u = Cleared(s, c) BY <1>3 DEF Marked, c
  <2>2. u \in TabState /\ Alike(s, u) /\ u.lastRead = s.lastRead BY <1>1, <2>1, ClearedIs
  <2> QED BY <1>1, <1>3, <2>2 DEF c, top
<1>4. CASE Posts(s)
  <2>1. PICK v : v = Cleared(s, c) OBVIOUS
  <2>2. PICK w : w = SetLastRead(v, c, top) OBVIOUS
  <2>3. v \in TabState /\ Alike(s, v) /\ v.lastRead = s.lastRead BY <1>1, <2>1, ClearedIs
  <2>4. /\ w \in TabState /\ Alike(v, w)
        /\ \A d \in Chan : w.lastRead[d] = IF d = c THEN top ELSE v.lastRead[d]
    BY <1>1, <2>2, <2>3, SetLastReadIs
  <2>5. u = [w EXCEPT !.marked[c] = top]
    BY <1>4, <2>1, <2>2 DEF Marked, Posts, c, top
  <2>6. u \in TabState /\ Alike(w, u) /\ u.lastRead = w.lastRead
    BY <1>1, <2>4, <2>5, RemarkedIs
  <2>7. Alike(s, u) BY <2>3, <2>4, <2>6 DEF Alike
  <2> QED BY <1>1, <1>4, <2>3, <2>4, <2>6, <2>7 DEF c, top
<1> QED BY <1>2, <1>3, <1>4

\* Calls under way, made and served.
Op == {"load", "jump", "reload", "summary", "read", "unread"}
Blank(k) == \A d \in Chan : k.page[d] = <<0, 0>>
\* The call k is a new one of tab t.
NewCall(k, T, t, op, c, at) ==
  /\ CallTyped(k, T) /\ Blank(k)
  /\ k.t = t /\ k.op = op /\ k.chan = c /\ k.at = at /\ k.served = "no"

LEMMA AskedIs ==
  ASSUME NEW K, NEW T, NEW t \in T, NEW op \in Op, NEW c \in Chan, NEW at \in 0..Bound,
         op # "unread" \/ at # 0
  PROVE  NewCall(Asked(K, t, op, c, at), T, t, op, c, at)
<1>1. PICK k : k = Asked(K, t, op, c, at) OBVIOUS
<1>2. PICK n : k = [n |-> n, t |-> t, op |-> op, chan |-> c, at |-> at, served |-> "no",
                    page |-> [d \in Chan |-> <<0, 0>>]]
  BY <1>1 DEF Asked
<1>3. k.page \in [Chan -> Nat \X (0..(MaxPosts + 1))] /\ \A d \in Chan : k.page[d] = <<0, 0>>
  BY <1>2, BoundIsNat DEF Bound
<1>4. CallShape(k) BY <1>2 DEF CallShape
<1>5. 0 <= MaxPosts + 1 BY BoundIsNat
<1>6. NewCall(k, T, t, op, c, at) BY <1>2, <1>3, <1>4, <1>5 DEF CallTyped, Blank, Bound, Op, NewCall
<1> QED BY <1>1, <1>6

SameCall(k, m) ==
  m.t = k.t /\ m.op = k.op /\ m.chan = k.chan /\ m.at = k.at /\ m.page = k.page
LEMMA ServedIs ==
  ASSUME NEW T, NEW k, CallTyped(k, T), NEW v \in {"no", "yes", "failed"},
         NEW m, m = [k EXCEPT !.served = v]
  PROVE  CallTyped(m, T) /\ SameCall(k, m) /\ m.served = v
<1>1. PICK n, t, op, c, at, sv, page :
        k = [n |-> n, t |-> t, op |-> op, chan |-> c, at |-> at, served |-> sv, page |-> page]
  BY DEF CallTyped, CallShape
<1>2. m = [n |-> n, t |-> t, op |-> op, chan |-> c, at |-> at, served |-> v, page |-> page]
  BY <1>1
<1>3. CallShape(m) /\ SameCall(k, m) /\ m.served = v BY <1>1, <1>2 DEF CallShape, SameCall
<1> QED BY <1>3 DEF CallTyped, SameCall

LEMMA PagedIs ==
  ASSUME NEW T, NEW k, CallTyped(k, T),
         NEW g \in [Chan -> Nat \X (0..(MaxPosts + 1))],
         k.op # "summary" => \A c \in Chan : g[c][1] <= Bound,
         NEW m, m = [k EXCEPT !.page = g]
  PROVE  /\ CallTyped(m, T) /\ m.t = k.t /\ m.op = k.op /\ m.chan = k.chan /\ m.at = k.at
         /\ m.page = g /\ m.served = k.served
<1>1. PICK n, t, op, c, at, sv, page :
        k = [n |-> n, t |-> t, op |-> op, chan |-> c, at |-> at, served |-> sv, page |-> page]
  BY DEF CallTyped, CallShape
<1>2. m = [n |-> n, t |-> t, op |-> op, chan |-> c, at |-> at, served |-> sv, page |-> g]
  BY <1>1
<1>3. /\ CallShape(m) /\ m.t = k.t /\ m.op = k.op /\ m.chan = k.chan /\ m.at = k.at
      /\ m.page = g /\ m.served = k.served
  BY <1>1, <1>2 DEF CallShape
<1> QED BY <1>3 DEF CallTyped, Bound

-----------------------------------------------------------------------------
(***************************************************************************)
(* What the steps have in common.                                          *)
(***************************************************************************)
Grows ==
  /\ limit' = limit /\ blind \subseteq blind'
  /\ shown' \in [Chan -> Nat] /\ \A c \in Chan : shown[c] <= shown'[c]
\* The frames under way to a tab are those that were, or some of them.
FramesKept ==
  /\ in' \in [limit.tabs -> Seq(FrameState)]
  /\ \A r \in limit.tabs : \A q \in DOMAIN in'[r] : \E p \in DOMAIN in[r] : in'[r][q] = in[r][p]
\* What the user is shown, if anything.
ShownMore == shown' = shown \/ \E c \in Chan, i \in Nat : Shows(c, i)
Fine(k) == \A c \in Chan \ blind' : CallWithin(k, c, shown'[c])

LEMMA ShowsGrows ==
  ASSUME Typed, limit' = limit, blind \subseteq blind',
         ShownMore
  PROVE  Grows
<1>1. CASE shown' = shown
  <2>1. shown \in [Chan -> Nat] BY DEF Typed
  <2> QED BY <1>1, <2>1 DEF Grows
<1>2. ASSUME NEW c \in Chan, NEW i \in Nat, Shows(c, i) PROVE Grows
  BY <1>2 DEF Shows, Larger, Typed, Grows
<1> QED BY <1>1, <1>2 DEF ShownMore

LEMMA NothingShown ==
  ASSUME Typed, UNCHANGED <<shown, limit, blind>>
  PROVE  Grows
<1>1. shown \in [Chan -> Nat] BY DEF Typed
<1> QED BY <1>1 DEF Grows

LEMMA HonestKeeps ==
  ASSUME Typed, Honest, Grows,
         \A c \in Chan \ blind' : cursor'[c] = cursor[c] \/ cursor'[c] <= shown'[c],
         \A t \in limit.tabs, c \in Chan \ blind' :
           tab'[t].lastRead[c] = tab[t].lastRead[c] \/ tab'[t].lastRead[c] <= shown'[c],
         \A t \in limit.tabs : \A q \in DOMAIN in'[t] :
           \/ \E p \in DOMAIN in[t] : in'[t][q] = in[t][p]
           \/ \A c \in Chan \ blind' : FrameWithin(in'[t][q], c, shown'[c]),
         \A k \in calls' : k \in calls \/ Fine(k)
  PROVE  Honest'
<1> SUFFICES ASSUME NEW c \in Chan \ blind' PROVE Within(c, shown[c])'
  BY DEF Honest
<1>1. Within(c, shown[c]) /\ shown[c] \in Nat /\ shown'[c] \in Nat /\ shown[c] <= shown'[c] /\ limit' = limit
  BY DEF Honest, Grows, Typed
<1>2. cursor'[c] <= shown'[c]
  BY <1>1, BoundIsNat DEF Within, Typed, Bound
<1>3. \A t \in limit.tabs : tab'[t].lastRead[c] <= shown'[c]
  <2> SUFFICES ASSUME NEW t \in limit.tabs, tab'[t].lastRead[c] = tab[t].lastRead[c]
               PROVE  tab'[t].lastRead[c] <= shown'[c]
    OBVIOUS
  <2>1. tab[t].lastRead[c] <= shown[c] BY <1>1 DEF Within
  <2>2. tab[t].lastRead[c] \in Nat BY BoundIsNat DEF Typed, TabState
  <2> QED BY <1>1, <2>1, <2>2
<1>4. \A t \in limit.tabs : \A q \in DOMAIN in'[t] : FrameWithin(in'[t][q], c, shown'[c])
  <2> SUFFICES ASSUME NEW t \in limit.tabs, NEW q \in DOMAIN in'[t],
                      NEW p \in DOMAIN in[t], in'[t][q] = in[t][p]
               PROVE  FrameWithin(in'[t][q], c, shown'[c])
    OBVIOUS
  <2>1. FrameWithin(in[t][p], c, shown[c]) BY <1>1 DEF Within
  <2>2. in[t][p].at \in Nat
    <3>1. in[t] \in Seq(FrameState) BY DEF Typed
    <3>2. in[t][p] \in FrameState BY <3>1
    <3> QED BY <3>2, BoundIsNat DEF FrameState
  <2> QED BY <1>1, <2>1, <2>2 DEF FrameWithin
<1>5. \A k \in calls' : CallWithin(k, c, shown'[c])
  <2> SUFFICES ASSUME NEW k \in calls PROVE CallWithin(k, c, shown'[c])
    BY DEF Fine
  <2>1. CallWithin(k, c, shown[c]) BY <1>1 DEF Within
  <2>2. k.page[c][2] \in Nat /\ k.at \in Nat BY BoundIsNat DEF Typed, CallTyped
  <2> QED BY <1>1, <2>1, <2>2 DEF CallWithin
<1> QED BY <1>1, <1>2, <1>3, <1>4, <1>5 DEF Within

LEMMA WatchedKeeps ==
  ASSUME Typed, Watched, Grows,
         \A t \in limit.tabs : tab'[t] = tab[t] \/ Alike(tab[t], tab'[t]) \/ Watches(tab'[t], shown')
  PROVE  Watched'
<1> SUFFICES ASSUME NEW t \in limit.tabs, ~Watches(tab'[t], shown') PROVE FALSE
  BY DEF Watched, Grows
<1>1. Alike(tab[t], tab'[t]) BY DEF Alike
<1>2. tab[t].active \in Chan /\ tab[t].list[tab[t].active] \in SUBSET Id
  BY DEF Typed, TabState
<1>3. Newest(tab[t].list[tab[t].active]) \in 0..Bound BY <1>2, NewestIs
<1>4. Watches(tab[t], shown) BY DEF Watched
<1>5. /\ shown[tab[t].active] \in Nat /\ shown'[tab[t].active] \in Nat
      /\ shown[tab[t].active] <= shown'[tab[t].active]
  BY <1>2 DEF Typed, Grows
<1> QED BY <1>1, <1>3, <1>4, <1>5, BoundIsNat DEF Watches, Alike

\* Nothing happens to a wish that stands, or it goes.
LEMMA WishedKeeps ==
  ASSUME Typed, Wished, limit' = limit,
         \A c \in Chan : wish[c].i # 0 /\ wish'[c].i # 0 =>
           /\ wish'[c] = wish[c] /\ cursor'[c] = cursor[c]
           /\ \A k \in calls' : Marking(k, c) => k \in calls
           /\ \A k \in calls : Marking(k, c) => k \in calls'
           /\ \A t \in limit.tabs : wish[c].t = {t} /\ c \in tab[t].manual => c \in tab'[t].manual,
         \A c \in Chan : wish[c].i = 0 => wish'[c].i = 0
  PROVE  Wished'
<1> SUFFICES ASSUME NEW c \in Chan, wish'[c].i # 0 PROVE Stands(c)'
  BY DEF Wished
<1>1. Stands(c) /\ wish[c].i # 0 BY DEF Wished
<1>2. /\ wish'[c] = wish[c] /\ cursor'[c] = cursor[c]
      /\ \A k \in calls' : Marking(k, c) => k \in calls
      /\ \A k \in calls : Marking(k, c) => k \in calls'
      /\ \A t \in limit.tabs : wish[c].t = {t} /\ c \in tab[t].manual => c \in tab'[t].manual
  BY <1>1
<1> QED BY <1>1, <1>2 DEF Stands

LEMMA MarkDoes ==
  ASSUME Typed, NEW t \in limit.tabs, NEW s \in TabState, NEW K, NEW S, NEW B \in BOOLEAN,
         MarkActiveChannelRead(t, s, K, S, B)
  PROVE  /\ \E u \in TabState :
              /\ tab' = [tab EXCEPT ![t] = u] /\ Alike(s, u)
              /\ \A d \in Chan : u.lastRead[d] =
                   IF Posts(s) /\ d = s.active THEN Newest(s.list[s.active]) ELSE s.lastRead[d]
         /\ ~Posts(s) => calls' = K /\ blind' = blind /\ wish' = wish
         /\ Posts(s) =>
              /\ s.active \notin s.manual
              /\ \E k : /\ calls' = K \cup {k} /\ CallTyped(k, limit.tabs) /\ Blank(k)
                        /\ k.op = "read" /\ k.chan = s.active
                        /\ k.at = Newest(s.list[s.active])
              /\ blind' = IF B \/ s.pane # "shown" THEN blind \cup {s.active} ELSE blind
              /\ wish' = IF wish[s.active].t # {t} THEN [wish EXCEPT ![s.active] = None] ELSE wish
<1>1. /\ Marked(s) \in TabState /\ Alike(s, Marked(s)) /\ s.active \in Chan
      /\ Newest(s.list[s.active]) \in 0..Bound
      /\ \A d \in Chan : Marked(s).lastRead[d] =
           IF Posts(s) /\ d = s.active THEN Newest(s.list[s.active]) ELSE s.lastRead[d]
  BY MarkedIs
<1>2. tab' = [tab EXCEPT ![t] = Marked(s)] BY DEF MarkActiveChannelRead
<1>3. ASSUME Posts(s)
      PROVE  \E k : /\ calls' = K \cup {k} /\ CallTyped(k, limit.tabs) /\ Blank(k)
                    /\ k.op = "read" /\ k.chan = s.active
                    /\ k.at = Newest(s.list[s.active])
  <2>1. PICK k : k = Asked(K, t, "read", s.active, Newest(s.list[s.active])) OBVIOUS
  <2>2. calls' = K \cup {k} BY <1>3, <2>1 DEF MarkActiveChannelRead
  <2>3. /\ CallTyped(k, limit.tabs) /\ Blank(k)
        /\ k.op = "read" /\ k.chan = s.active /\ k.at = Newest(s.list[s.active])
    <3>1. PICK T, op, c, at : T = limit.tabs /\ op = "read" /\ c = s.active /\ at = Newest(s.list[s.active])
      OBVIOUS
    <3>2. /\ t \in T /\ op \in Op /\ c \in Chan /\ at \in 0..Bound /\ (op # "unread" \/ at # 0)
      BY <1>1, <3>1 DEF Op
    <3>3. k = Asked(K, t, op, c, at) BY <2>1, <3>1
    <3>4. /\ CallTyped(k, T) /\ Blank(k)
          /\ k.t = t /\ k.op = op /\ k.chan = c /\ k.at = at /\ k.served = "no"
      <4>1. NewCall(Asked(K, t, op, c, at), T, t, op, c, at) BY <3>2, AskedIs
      <4> QED BY <3>3, <4>1 DEF NewCall
    <3> QED BY <3>1, <3>4
  <2> QED BY <2>2, <2>3
<1>4. Posts(s) => s.active \notin s.manual BY DEF Posts, Marks
<1>5. ~Posts(s) => calls' = K /\ blind' = blind /\ wish' = wish
  BY DEF MarkActiveChannelRead
<1>6. Posts(s) => blind' = IF B \/ s.pane # "shown" THEN blind \cup {s.active} ELSE blind
  BY DEF MarkActiveChannelRead
<1>7. Posts(s) => wish' = IF wish[s.active].t # {t} THEN [wish EXCEPT ![s.active] = None] ELSE wish
  BY DEF MarkActiveChannelRead
<1> QED BY <1>1, <1>2, <1>3, <1>4, <1>5, <1>6, <1>7

\* The trailing mark of a handler keeps what it found: K are calls that were
\* under way (all of them, or without one that is answered), s is what the
\* handler made of its tab.
Kept(K) == K \subseteq calls /\ \A k \in calls \ K : k.served # "no"
Core == Typed /\ Honest /\ Watched /\ Wished

LEMMA NoneIs == None.i = 0 /\ None.t = {} /\ None \in [i : Nat, t : SUBSET Tab]
BY DEF None

LEMMA MarkKeeps ==
  ASSUME Core, NEW t \in limit.tabs, NEW s \in TabState, NEW K, NEW S, NEW B \in BOOLEAN,
         MarkActiveChannelRead(t, s, K, S, B), Kept(K),
         UNCHANGED <<log, cursor, limit>>, FramesKept,
         ShownMore,
         s.lastRead = tab[t].lastRead, s.manual = tab[t].manual,
         Watches(s, shown'), B = TRUE \/ s.focused = TRUE
  PROVE  Core'
<1>1. PICK u \in TabState :
        /\ tab' = [tab EXCEPT ![t] = u] /\ Alike(s, u)
        /\ \A d \in Chan : u.lastRead[d] =
             IF Posts(s) /\ d = s.active THEN Newest(s.list[s.active]) ELSE s.lastRead[d]
  BY MarkDoes DEF Core
<1>2. ~Posts(s) => calls' = K /\ blind' = blind /\ wish' = wish
  BY MarkDoes DEF Core
<1>3. Posts(s) =>
        /\ s.active \notin s.manual
        /\ \E k : /\ calls' = K \cup {k} /\ CallTyped(k, limit.tabs) /\ Blank(k)
                  /\ k.op = "read" /\ k.chan = s.active
                  /\ k.at = Newest(s.list[s.active])
        /\ blind' = IF B \/ s.pane # "shown" THEN blind \cup {s.active} ELSE blind
        /\ wish' = IF wish[s.active].t # {t} THEN [wish EXCEPT ![s.active] = None] ELSE wish
  <2>1. Typed BY DEF Core
  <2>2. Posts(s) =>
          /\ s.active \notin s.manual
          /\ \E k : /\ calls' = K \cup {k} /\ CallTyped(k, limit.tabs) /\ Blank(k)
                    /\ k.op = "read" /\ k.chan = s.active
                    /\ k.at = Newest(s.list[s.active])
    BY <2>1, MarkDoes
  <2>3. Posts(s) => blind' = IF B \/ s.pane # "shown" THEN blind \cup {s.active} ELSE blind
    BY <2>1, MarkDoes
  <2>4. Posts(s) => wish' = IF wish[s.active].t # {t} THEN [wish EXCEPT ![s.active] = None] ELSE wish
    BY <2>1, MarkDoes
  <2> QED BY <2>2, <2>3, <2>4
<1>4. limit' = limit /\ blind \subseteq blind' BY <1>2, <1>3
<1>5. Grows BY <1>4, ShowsGrows DEF Core
<1>6. s.active \in Chan /\ tab \in [limit.tabs -> TabState] BY DEF TabState, Core, Typed
<1>7. tab' \in [limit.tabs -> TabState] /\ tab'[t] = u /\ \A r \in limit.tabs \ {t} : tab'[r] = tab[r]
  BY <1>1, <1>6
<1>8. Typed'
  <2>1. \A k \in calls' : CallTyped(k, limit.tabs)
    <3>1. \A k \in K : CallTyped(k, limit.tabs) BY DEF Kept, Core, Typed
    <3> QED BY <1>2, <1>3, <3>1
  <2>2. wish' \in [Chan -> [i : Nat, t : SUBSET Tab]]
    <3>1. wish \in [Chan -> [i : Nat, t : SUBSET Tab]] BY DEF Core, Typed
    <3> QED BY <1>2, <1>3, <1>6, <3>1, NoneIs
  <2> QED BY <1>5, <1>7, <2>1, <2>2 DEF Core, Typed, Grows, FramesKept
<1>9. Honest'
  <2>1. ASSUME Posts(s), s.active \notin blind'
        PROVE  Newest(s.list[s.active]) <= shown'[s.active]
    BY <1>3, <2>1 DEF Watches
  <2>2. ASSUME NEW r \in limit.tabs, NEW c \in Chan \ blind'
        PROVE  tab'[r].lastRead[c] = tab[r].lastRead[c] \/ tab'[r].lastRead[c] <= shown'[c]
    BY <1>1, <1>7, <2>1
  <2>3. ASSUME NEW k \in calls' PROVE k \in calls \/ Fine(k)
    <3>1. CASE k \in K BY <3>1 DEF Kept
    <3>2. CASE k \notin K
      <4>1. Posts(s) /\ Blank(k) /\ k.op = "read" /\ k.chan = s.active /\ k.at = Newest(s.list[s.active])
        BY <1>2, <1>3, <2>3, <3>2
      <4> QED BY <2>1, <4>1 DEF Fine, CallWithin
    <3> QED BY <3>1, <3>2
  <2>4. \A c \in Chan \ blind' : cursor'[c] = cursor[c] OBVIOUS
  <2> QED BY <1>5, <2>2, <2>3, <2>4, HonestKeeps DEF Core, FramesKept
<1>10. Watched'
  <2>1. Watches(u, shown') BY <1>1 DEF Watches, Alike
  <2> QED BY <1>5, <1>7, <2>1, WatchedKeeps DEF Core
<1>11. Wished'
  <2>1. ASSUME NEW c \in Chan, wish[c].i # 0, wish'[c].i # 0
        PROVE  /\ wish'[c] = wish[c] /\ cursor'[c] = cursor[c]
               /\ \A k \in calls' : Marking(k, c) => k \in calls
               /\ \A k \in calls : Marking(k, c) => k \in calls'
               /\ \A r \in limit.tabs : wish[c].t = {r} /\ c \in tab[r].manual => c \in tab'[r].manual
    <3>1. wish'[c] = wish[c]
      BY <1>2, <1>3, <1>6, <2>1, NoneIs DEF Core, Typed
    <3>2. Posts(s) => c # s.active
      <4> SUFFICES ASSUME Posts(s), c = s.active PROVE FALSE OBVIOUS
      <4>1. wish[c].t = {t} BY <1>3, <1>6, <2>1, NoneIs DEF Core, Typed
      <4>2. PICK r \in limit.tabs : wish[c].t = {r} /\ c \in tab[r].manual
        BY <2>1 DEF Core, Wished, Stands
      <4>3. r = t BY <4>1, <4>2
      <4> QED BY <1>3, <4>2, <4>3
    <3>3. \A k \in calls' : Marking(k, c) => k \in calls
      BY <1>2, <1>3, <3>2 DEF Marking, Kept
    <3>4. \A k \in calls : Marking(k, c) => k \in calls'
      BY <1>2, <1>3 DEF Marking, Kept
    <3>5. u.manual = s.manual BY <1>1 DEF Alike
    <3> QED BY <1>7, <3>1, <3>3, <3>4, <3>5
  <2>2. ASSUME NEW c \in Chan, wish[c].i = 0 PROVE wish'[c].i = 0
    BY <1>2, <1>3, <1>6, <2>2, NoneIs DEF Core, Typed
  <2> QED BY <2>1, <2>2, WishedKeeps DEF Core
<1> QED BY <1>8, <1>9, <1>10, <1>11 DEF Core

\* A step of a tab that marks nothing read by itself: s is what becomes of it.
TabStep(t, s) ==
  /\ tab' = [tab EXCEPT ![t] = s] /\ UNCHANGED <<log, cursor, limit, blind>>
  /\ FramesKept
  /\ ShownMore
  /\ \A k \in calls' : CallTyped(k, limit.tabs) /\ (k \in calls \/ Fine(k))
  /\ \A k \in calls \ calls' : k.served # "no"
LastReadKept(t, s) ==
  \A c \in Chan \ blind : s.lastRead[c] = tab[t].lastRead[c] \/ s.lastRead[c] <= shown'[c]
WishKept(t, s) ==
  /\ wish' \in [Chan -> [i : Nat, t : SUBSET Tab]]
  /\ \A c \in Chan : wish'[c] = wish[c] \/ wish'[c].i = 0
  /\ \A c \in Chan : wish'[c].i # 0 =>
       /\ c \in tab[t].manual => c \in s.manual
       /\ \A k \in calls' \ calls : ~Marking(k, c)

LEMMA TabHonest ==
  ASSUME Typed, Honest, Watched, NEW t \in limit.tabs, NEW s \in TabState, TabStep(t, s),
         LastReadKept(t, s), Watches(s, shown') \/ Alike(tab[t], s),
         wish' \in [Chan -> [i : Nat, t : SUBSET Tab]]
  PROVE  (Typed /\ Honest /\ Watched)'
<1>1. Grows
  <2>1. limit' = limit /\ blind \subseteq blind' BY DEF TabStep
  <2>2. ShownMore BY DEF TabStep
  <2> QED BY <2>1, <2>2, ShowsGrows
<1>2. tab' \in [limit.tabs -> TabState] /\ tab'[t] = s /\ \A r \in limit.tabs \ {t} : tab'[r] = tab[r]
  BY DEF TabStep, Typed
<1>3. Typed' BY <1>1, <1>2 DEF TabStep, Typed, Grows, FramesKept
<1>4. Honest'
  <2>1. blind' = blind /\ cursor' = cursor BY DEF TabStep
  <2>2. \A r \in limit.tabs, c \in Chan \ blind' :
          tab'[r].lastRead[c] = tab[r].lastRead[c] \/ tab'[r].lastRead[c] <= shown'[c]
    BY <1>2, <2>1 DEF LastReadKept
  <2>3. \A k \in calls' : k \in calls \/ Fine(k) BY DEF TabStep
  <2>4. \A r \in limit.tabs : \A q \in DOMAIN in'[r] : \E p \in DOMAIN in[r] : in'[r][q] = in[r][p]
    BY DEF TabStep, FramesKept
  <2> QED BY <1>1, <2>1, <2>2, <2>3, <2>4, HonestKeeps
<1>5. Watched' BY <1>1, <1>2, WatchedKeeps
<1> QED BY <1>3, <1>4, <1>5

LEMMA TabKeeps ==
  ASSUME Core, NEW t \in limit.tabs, NEW s \in TabState, TabStep(t, s), LastReadKept(t, s),
         Watches(s, shown') \/ Alike(tab[t], s), WishKept(t, s)
  PROVE  Core'
<1>1. (Typed /\ Honest /\ Watched)' BY TabHonest DEF Core, WishKept
<1>2. tab'[t] = s /\ \A r \in limit.tabs \ {t} : tab'[r] = tab[r]
  BY DEF TabStep, Core, Typed
<1>3. ASSUME NEW c \in Chan, wish[c].i # 0, wish'[c].i # 0
      PROVE  /\ wish'[c] = wish[c] /\ cursor'[c] = cursor[c]
             /\ \A k \in calls' : Marking(k, c) => k \in calls
             /\ \A k \in calls : Marking(k, c) => k \in calls'
             /\ \A r \in limit.tabs : wish[c].t = {r} /\ c \in tab[r].manual => c \in tab'[r].manual
  <2>1. wish'[c] = wish[c] /\ cursor'[c] = cursor[c] BY <1>3 DEF WishKept, TabStep
  <2>2. \A k \in calls' : Marking(k, c) => k \in calls BY <1>3 DEF WishKept
  <2>3. \A k \in calls : Marking(k, c) => k \in calls' BY DEF TabStep, Marking
  <2>4. c \in tab[t].manual => c \in s.manual BY <1>3 DEF WishKept
  <2> QED BY <1>2, <2>1, <2>2, <2>3, <2>4
<1>4. \A c \in Chan : wish[c].i = 0 => wish'[c].i = 0 BY DEF WishKept
<1>5. limit' = limit BY DEF TabStep
<1> QED BY <1>1, <1>3, <1>4, <1>5, WishedKeeps DEF Core

\* The parts of TabStep and WishKept for what most steps leave alone.
LEMMA SameFrames ==
  ASSUME Typed, in' = in
  PROVE  FramesKept
BY DEF Typed, FramesKept

LEMMA BlankIsFine ==
  ASSUME Typed, Grows, NEW k, Blank(k), k.op \notin {"read", "unread"}
  PROVE  Fine(k)
<1> SUFFICES ASSUME NEW c \in Chan \ blind' PROVE CallWithin(k, c, shown'[c])
  BY DEF Fine
<1>1. k.page[c] = <<0, 0>> /\ shown'[c] \in Nat BY DEF Blank, Grows
<1> QED BY <1>1 DEF CallWithin

LEMMA ShowsAll ==
  ASSUME Typed, NEW c \in Chan, NEW i \in Nat, Shows(c, i)
  PROVE  i <= shown'[c] /\ shown[c] <= shown'[c]
BY DEF Shows, Larger, Typed

LEMMA FocusKeeps ==
  ASSUME Core, NEW t \in limit.tabs, Focus(t)
  PROVE  Core'
<1>1. PICK s : s = [tab[t] EXCEPT !.focused = TRUE] OBVIOUS
<1>2. /\ s \in TabState /\ s.focused = TRUE /\ s.lastRead = tab[t].lastRead /\ s.manual = tab[t].manual
      /\ s.active \in Chan /\ s.list[s.active] \in SUBSET Id
  <2>1. tab[t] \in TabState BY DEF Core, Typed
  <2> QED BY <1>1, <2>1 DEF TabState
<1>3. MarkActiveChannelRead(t, s, calls, strayed, FALSE) /\ in' = in /\ UNCHANGED <<log, cursor, limit>>
  BY <1>1 DEF Focus, server
<1>4. IF s.pane = "shown" THEN Shows(s.active, Newest(s.list[s.active])) ELSE Unchanged
  BY <1>1 DEF Focus
<1>5. Newest(s.list[s.active]) \in Nat BY <1>2, NewestIs, BoundIsNat
<1>6. ShownMore BY <1>2, <1>4, <1>5 DEF ShownMore, Unchanged
<1>7. Watches(s, shown')
  BY <1>2, <1>4, <1>5, ShowsAll DEF Watches, Core
<1>8. Kept(calls) BY DEF Kept
<1>9. Typed BY DEF Core
<1>10. FramesKept
  BY <1>3, <1>9, SameFrames
<1> QED BY <1>2, <1>3, <1>6, <1>7, <1>8, <1>10, MarkKeeps

LEMMA BlurKeeps ==
  ASSUME Core, NEW t \in limit.tabs, Blur(t)
  PROVE  Core'
<1>1. PICK s : s = [tab[t] EXCEPT !.focused = FALSE] OBVIOUS
<1>2. /\ s \in TabState /\ s.focused = FALSE /\ s.lastRead = tab[t].lastRead /\ s.manual = tab[t].manual
  <2>1. tab[t] \in TabState BY DEF Core, Typed
  <2> QED BY <1>1, <2>1 DEF TabState
<1>3. Typed BY DEF Core
<1>4. /\ tab' = [tab EXCEPT ![t] = s] /\ calls' = calls /\ UNCHANGED <<blind, wish, log, cursor, limit, in>>
      /\ Unchanged
  BY <1>1 DEF Blur, Quiet, server
<1>5. TabStep(t, s) BY <1>3, <1>4, SameFrames DEF TabStep, Typed, ShownMore, Unchanged
<1>6. LastReadKept(t, s) BY <1>2 DEF LastReadKept
<1>7. Watches(s, shown') BY <1>2 DEF Watches
<1>8. WishKept(t, s) BY <1>2, <1>3, <1>4 DEF WishKept, Typed
<1> QED BY <1>2, <1>5, <1>6, <1>7, <1>8, TabKeeps

\* A step that makes one call k: what TabStep asks of its calls.
LEMMA OneCallMore ==
  ASSUME Typed, NEW k, NEW K, calls' = K \cup {k}, Kept(K), CallTyped(k, limit.tabs), Fine(k)
  PROVE  /\ \A m \in calls' : CallTyped(m, limit.tabs) /\ (m \in calls \/ Fine(m))
         /\ \A m \in calls \ calls' : m.served # "no"
         /\ \A m \in calls' \ calls : m = k
BY DEF Typed, Kept

LEMMA SelectKeeps ==
  ASSUME Core, NEW t \in limit.tabs, NEW c \in Chan, SelectChannel(t, c)
  PROVE  Core'
<1>1. Typed /\ tab[t] \in TabState BY DEF Core, Typed
<1>2. PICK v, s : /\ v = Cleared(tab[t], c)
                  /\ s = [v EXCEPT !.active = c, !.manual = @ \ {c}, !.pane = "loading", !.focused = TRUE]
  OBVIOUS
<1>3. v \in TabState /\ Alike(tab[t], v) /\ v.lastRead = tab[t].lastRead
  BY <1>1, <1>2, ClearedIs
<1>4. s \in TabState /\ s.pane = "loading" /\ s.lastRead = v.lastRead /\ s.manual = v.manual \ {c}
  BY <1>2, <1>3 DEF TabState
<1>5. /\ tab' = [tab EXCEPT ![t] = s] /\ UNCHANGED <<log, cursor, limit, blind, in>> /\ Unchanged
      /\ wish' = [wish EXCEPT ![c] = None]
  BY <1>2 DEF SelectChannel, server
<1>6. PICK T, op, k : T = limit.tabs /\ op = "load" /\ k = Asked(calls, t, op, c, 0) OBVIOUS
<1>7. calls' = calls \cup {k} BY <1>6 DEF SelectChannel
<1>8. CallTyped(k, T) /\ Blank(k) /\ k.op = op
  <2>1. op \in Op /\ op # "unread" BY <1>6 DEF Op
  <2>2. PICK at : at = 0 OBVIOUS
  <2>3. at \in 0..Bound /\ t \in T /\ k = Asked(calls, t, op, c, at) BY <1>6, <2>2, BoundIsNat
  <2>4. NewCall(Asked(calls, t, op, c, at), T, t, op, c, at) BY <2>1, <2>3, AskedIs
  <2> QED BY <2>3, <2>4 DEF NewCall
<1>9. Fine(k)
  <2>1. Grows BY <1>1, <1>5, ShowsGrows DEF ShownMore, Unchanged
  <2> QED BY <1>1, <1>6, <1>8, <2>1, BlankIsFine
<1>10. Kept(calls) BY DEF Kept
<1>11. TabStep(t, s)
  BY <1>1, <1>5, <1>6, <1>7, <1>8, <1>9, <1>10, SameFrames, OneCallMore DEF TabStep, ShownMore, Unchanged
<1>12. LastReadKept(t, s) BY <1>3, <1>4 DEF LastReadKept
<1>13. Watches(s, shown') BY <1>4 DEF Watches
<1>14. WishKept(t, s)
  <2>1. \A m \in calls' \ calls : \A d \in Chan : ~Marking(m, d)
    BY <1>6, <1>7, <1>8 DEF Marking
  <2>2. wish \in [Chan -> [i : Nat, t : SUBSET Tab]] BY <1>1 DEF Typed
  <2>3. \A d \in Chan \ {c} : d \in tab[t].manual => d \in s.manual
    BY <1>3, <1>4 DEF Alike
  <2> QED BY <1>5, <2>1, <2>2, <2>3, NoneIs DEF WishKept
<1> QED BY <1>4, <1>11, <1>12, <1>13, <1>14, TabKeeps

LEMMA JumpKeeps ==
  ASSUME Core, NEW t \in limit.tabs, NEW c \in Chan, Jump(t, c)
  PROVE  Core'
<1>1. Typed /\ tab[t] \in TabState BY DEF Core, Typed
<1>2. PICK v, w, s : /\ v = Cleared(tab[t], c)
                     /\ w = IF c = tab[t].active THEN tab[t] ELSE [v EXCEPT !.active = c, !.pane = "loading"]
                     /\ s = [w EXCEPT !.focused = TRUE]
  OBVIOUS
<1>3. v \in TabState /\ Alike(tab[t], v) /\ v.lastRead = tab[t].lastRead
  BY <1>1, <1>2, ClearedIs
<1>4. /\ w \in TabState /\ w.lastRead = tab[t].lastRead /\ w.manual = tab[t].manual
      /\ w.active = c /\ (c = tab[t].active \/ w.pane = "loading")
  <2>1. CASE c = tab[t].active BY <1>1, <1>2, <2>1
  <2>2. CASE c # tab[t].active
    <3>1. w = [v EXCEPT !.active = c, !.pane = "loading"] BY <1>2, <2>2
    <3> QED BY <1>3, <3>1 DEF TabState, Alike
  <2> QED BY <2>1, <2>2
<1>5. /\ s \in TabState /\ s.lastRead = w.lastRead /\ s.manual = w.manual /\ s.active = w.active
      /\ s.pane = w.pane /\ s.list = w.list /\ w.list[c] \in SUBSET Id
  BY <1>2, <1>4 DEF TabState
<1>6. /\ tab' = [tab EXCEPT ![t] = s] /\ UNCHANGED <<log, cursor, limit, blind, in, wish>>
      /\ IF w.pane = "shown" THEN Shows(c, Newest(w.list[c])) ELSE Unchanged
  BY <1>2 DEF Jump, server
<1>7. Newest(w.list[c]) \in Nat BY <1>5, NewestIs, BoundIsNat
<1>8. ShownMore BY <1>6, <1>7 DEF ShownMore, Unchanged
<1>9. Grows BY <1>1, <1>6, <1>8, ShowsGrows
<1>10. PICK T, op, k : T = limit.tabs /\ op = "jump" /\ k = Asked(calls, t, op, c, 0) OBVIOUS
<1>11. calls' = calls \cup {k} BY <1>10 DEF Jump
<1>12. CallTyped(k, T) /\ Blank(k) /\ k.op = op
  <2>1. op \in Op /\ op # "unread" /\ 0 \in 0..Bound BY <1>10, BoundIsNat DEF Op
  <2>2. /\ t \in T /\ op \in Op /\ c \in Chan /\ 0 \in 0..Bound /\ (op # "unread" \/ 0 # 0)
        /\ k = Asked(calls, t, op, c, 0)
    BY <1>10, <2>1
  <2>3. NewCall(Asked(calls, t, op, c, 0), T, t, op, c, 0) BY <2>2, AskedIs
  <2> QED BY <2>2, <2>3 DEF NewCall
<1>13. Fine(k) BY <1>1, <1>9, <1>10, <1>12, BlankIsFine
<1>14. Kept(calls) BY DEF Kept
<1>15. TabStep(t, s)
  BY <1>1, <1>6, <1>8, <1>10, <1>11, <1>12, <1>13, <1>14, SameFrames, OneCallMore DEF TabStep
<1>16. LastReadKept(t, s) BY <1>4, <1>5 DEF LastReadKept
<1>17. Watches(s, shown')
  BY <1>1, <1>4, <1>5, <1>6, <1>7, ShowsAll DEF Watches
<1>18. WishKept(t, s)
  <2>1. \A m \in calls' \ calls : \A d \in Chan : ~Marking(m, d)
    BY <1>10, <1>11, <1>12 DEF Marking
  <2> QED BY <1>1, <1>4, <1>5, <1>6, <2>1 DEF WishKept, Typed
<1> QED BY <1>5, <1>15, <1>16, <1>17, <1>18, TabKeeps

LEMMA ToggleReadKeeps ==
  ASSUME Core, NEW t \in limit.tabs, NEW i \in Id, ToggleRead(t, i)
  PROVE  Core'
<1>1. Typed /\ tab[t] \in TabState BY DEF Core, Typed
<1>2. PICK c : c = tab[t].active OBVIOUS
<1>3. c \in Chan /\ i \in 0..Bound /\ i \in Nat BY <1>1, <1>2, BoundIsNat DEF TabState
<1>4. PICK v, w, s : /\ v = Cleared(tab[t], c) /\ w = SetLastRead(v, c, i)
                     /\ s = [w EXCEPT !.marked[c] = i, !.manual = @ \ {c}]
  OBVIOUS
<1>5. v \in TabState /\ Alike(tab[t], v) /\ v.lastRead = tab[t].lastRead
  BY <1>1, <1>3, <1>4, ClearedIs
<1>6. /\ w \in TabState /\ Alike(v, w)
      /\ \A d \in Chan : w.lastRead[d] = IF d = c THEN i ELSE v.lastRead[d]
  BY <1>3, <1>4, <1>5, SetLastReadIs
<1>7. PICK x : x = [w EXCEPT !.marked[c] = i] OBVIOUS
<1>8. x \in TabState /\ Alike(w, x) /\ x.lastRead = w.lastRead BY <1>3, <1>6, <1>7, RemarkedIs
<1>9. s = [x EXCEPT !.manual = @ \ {c}] BY <1>4, <1>7
<1>10. /\ s \in TabState /\ s.lastRead = x.lastRead /\ s.manual = x.manual \ {c} /\ s.active = x.active
       /\ s.pane = x.pane /\ s.list = x.list /\ s.focused = x.focused
  BY <1>8, <1>9 DEF TabState
<1>11. /\ tab' = [tab EXCEPT ![t] = s] /\ UNCHANGED <<log, cursor, limit, blind, in>>
       /\ Shows(c, i) /\ wish' = [wish EXCEPT ![c] = None]
  BY <1>2, <1>4 DEF ToggleRead, server
<1>12. i <= shown'[c] BY <1>1, <1>3, <1>11, ShowsAll
<1>13. Grows BY <1>1, <1>3, <1>11, ShowsGrows DEF ShownMore
<1>14. PICK T, op, k : T = limit.tabs /\ op = "read" /\ k = Asked(calls, t, op, c, i) OBVIOUS
<1>15. calls' = calls \cup {k} BY <1>2, <1>14 DEF ToggleRead
<1>16. CallTyped(k, T) /\ k.op = op /\ k.chan = c /\ k.at = i
  <2>1. op \in Op /\ op # "unread" BY <1>14 DEF Op
  <2>2. /\ t \in T /\ op \in Op /\ c \in Chan /\ i \in 0..Bound /\ (op # "unread" \/ i # 0)
        /\ k = Asked(calls, t, op, c, i)
    BY <1>3, <1>14, <2>1
  <2>3. NewCall(Asked(calls, t, op, c, i), T, t, op, c, i) BY <2>2, AskedIs
  <2> QED BY <2>2, <2>3 DEF NewCall
<1>17. Fine(k) BY <1>12, <1>14, <1>16 DEF Fine, CallWithin
<1>18. Kept(calls) BY DEF Kept
<1>19. TabStep(t, s)
  BY <1>1, <1>3, <1>11, <1>14, <1>15, <1>16, <1>17, <1>18, SameFrames, OneCallMore DEF TabStep, ShownMore
<1>20. LastReadKept(t, s) BY <1>5, <1>6, <1>8, <1>10, <1>12 DEF LastReadKept
<1>21. Watches(s, shown') \/ Alike(tab[t], s)
  <2>1. Watches(tab[t], shown) BY DEF Core, Watched
  <2>2. tab[t].list[c] \in SUBSET Id BY <1>1, <1>3 DEF TabState
  <2>3. Newest(tab[t].list[c]) \in Nat BY <2>2, NewestIs, BoundIsNat
  <2>4. shown[c] <= shown'[c] /\ shown[c] \in Nat /\ shown'[c] \in Nat
    BY <1>1, <1>3, <1>13 DEF Typed, Grows
  <2>5. /\ s.active = c /\ s.list = tab[t].list /\ s.focused = tab[t].focused /\ s.pane = tab[t].pane
    BY <1>2, <1>5, <1>6, <1>8, <1>10 DEF Alike
  <2> QED BY <1>2, <2>1, <2>3, <2>4, <2>5 DEF Watches
<1>22. WishKept(t, s)
  <2>1. \A m \in calls' \ calls : \A d \in Chan \ {c} : ~Marking(m, d)
    BY <1>15, <1>16 DEF Marking
  <2>2. wish \in [Chan -> [i : Nat, t : SUBSET Tab]] BY <1>1 DEF Typed
  <2>3. \A d \in Chan \ {c} : d \in tab[t].manual => d \in s.manual
    BY <1>5, <1>6, <1>8, <1>10 DEF Alike
  <2> QED BY <1>3, <1>11, <2>1, <2>2, <2>3, NoneIs DEF WishKept
<1> QED BY <1>10, <1>19, <1>20, <1>21, <1>22, TabKeeps

LEMMA StandsKeeps ==
  ASSUME NEW c \in Chan, Stands(c), limit' = limit, wish'[c] = wish[c],
         cursor'[c] = cursor[c],
         \A k \in calls' : Marking(k, c) => k \in calls,
         \A k \in calls : Marking(k, c) => k \in calls',
         \A t \in limit.tabs : c \in tab[t].manual => c \in tab'[t].manual
  PROVE  Stands(c)'
BY DEF Stands

LEMMA ToggleUnreadKeeps ==
  ASSUME Core, NEW t \in limit.tabs, NEW i \in Id, ToggleUnread(t, i)
  PROVE  Core'
<1>1. Typed /\ tab[t] \in TabState BY DEF Core, Typed
<1>2. PICK c : c = tab[t].active OBVIOUS
<1>3. c \in Chan /\ i \in 1..Bound /\ i - 1 \in 0..Bound /\ i \in 0..Bound /\ i # 0
  BY <1>1, <1>2, BoundIsNat DEF TabState
<1>4. PICK n, v, w, x, s :
        /\ n = CountAfter(tab[t], c, i - 1)
        /\ v = SetLastRead(tab[t], c, i - 1) /\ w = SetUnread(v, c, n) /\ x = [w EXCEPT !.marked[c] = 0]
        /\ s = [w EXCEPT !.marked[c] = 0, !.manual = @ \cup {c}]
  OBVIOUS
<1>5. n \in Nat BY <1>1, <1>3, <1>4, CountAfterIs
<1>6. /\ v \in TabState /\ Alike(tab[t], v)
      /\ \A d \in Chan : v.lastRead[d] = IF d = c THEN i - 1 ELSE tab[t].lastRead[d]
  BY <1>1, <1>3, <1>4, SetLastReadIs
<1>7. w \in TabState /\ Alike(v, w) /\ w.lastRead = v.lastRead BY <1>3, <1>4, <1>5, <1>6, SetUnreadIs
<1>8. x \in TabState /\ Alike(w, x) /\ x.lastRead = w.lastRead BY <1>3, <1>4, <1>7, BoundIsNat, RemarkedIs
<1>9. s = [x EXCEPT !.manual = @ \cup {c}] BY <1>4
<1>10. /\ s \in TabState /\ s.lastRead = x.lastRead /\ s.manual = x.manual \cup {c} /\ s.active = x.active
       /\ s.pane = x.pane /\ s.list = x.list /\ s.focused = x.focused
  BY <1>3, <1>8, <1>9 DEF TabState
<1>11. PICK crossing \in BOOLEAN :
         crossing = (\E k \in calls : k.op \in {"read", "unread"} /\ k.chan = c /\ k.served = "no")
  OBVIOUS
<1>12. /\ tab' = [tab EXCEPT ![t] = s] /\ UNCHANGED <<log, cursor, limit, blind, in>> /\ Unchanged
       /\ wish' = [wish EXCEPT ![c] = IF crossing THEN None ELSE [i |-> i, t |-> {t}]]
       /\ i <= tab[t].lastRead[c]
  BY <1>2, <1>4, <1>11 DEF ToggleUnread, server
<1>13. Grows BY <1>1, <1>12, ShowsGrows DEF ShownMore, Unchanged
<1>14. c \notin blind => i <= shown'[c]
  <2>1. c \notin blind => tab[t].lastRead[c] <= shown[c] BY <1>3 DEF Core, Honest, Within
  <2>2. shown[c] \in Nat /\ shown'[c] = shown[c] /\ tab[t].lastRead[c] \in Nat
    BY <1>1, <1>3, <1>12, BoundIsNat DEF Typed, Unchanged, TabState
  <2> QED BY <1>3, <1>12, <2>1, <2>2, BoundIsNat
<1>15. PICK T, op, k : T = limit.tabs /\ op = "unread" /\ k = Asked(calls, t, op, c, i) OBVIOUS
<1>16. calls' = calls \cup {k} BY <1>2, <1>15 DEF ToggleUnread
<1>17. CallTyped(k, T) /\ k.op = op /\ k.chan = c /\ k.at = i /\ k.served = "no"
  <2>1. op \in Op BY <1>15 DEF Op
  <2>2. /\ t \in T /\ op \in Op /\ c \in Chan /\ i \in 0..Bound /\ (op # "unread" \/ i # 0)
        /\ k = Asked(calls, t, op, c, i)
    BY <1>3, <1>15, <2>1
  <2>3. NewCall(Asked(calls, t, op, c, i), T, t, op, c, i) BY <2>2, AskedIs
  <2> QED BY <2>2, <2>3 DEF NewCall
<1>18. Fine(k)
  <2> SUFFICES ASSUME NEW d \in Chan \ blind' PROVE CallWithin(k, d, shown'[d]) BY DEF Fine
  <2>1. shown'[d] \in Nat /\ blind' = blind BY <1>12, <1>13 DEF Grows
  <2> QED BY <1>3, <1>14, <1>15, <1>17, <2>1, BoundIsNat DEF CallWithin
<1>19. Kept(calls) BY DEF Kept
<1>20. TabStep(t, s)
  BY <1>1, <1>3, <1>12, <1>15, <1>16, <1>17, <1>18, <1>19, SameFrames, OneCallMore DEF TabStep, ShownMore, Unchanged
<1>21. LastReadKept(t, s)
  <2> SUFFICES ASSUME NEW d \in Chan \ blind
               PROVE  s.lastRead[d] = tab[t].lastRead[d] \/ s.lastRead[d] <= shown'[d]
    BY DEF LastReadKept
  <2>1. shown'[d] \in Nat BY <1>13 DEF Grows
  <2> QED BY <1>3, <1>6, <1>7, <1>8, <1>10, <1>14, <2>1, BoundIsNat
<1>22. Watches(s, shown') \/ Alike(tab[t], s)
  <2>1. Watches(tab[t], shown) BY DEF Core, Watched
  <2>2. shown' = shown BY <1>12 DEF Unchanged
  <2>3. /\ s.active = tab[t].active /\ s.list = tab[t].list /\ s.focused = tab[t].focused
        /\ s.pane = tab[t].pane
    BY <1>6, <1>7, <1>8, <1>10 DEF Alike
  <2> QED BY <2>1, <2>2, <2>3 DEF Watches
<1>23. wish \in [Chan -> [i : Nat, t : SUBSET Tab]] BY <1>1 DEF Typed
<1>24. wish' \in [Chan -> [i : Nat, t : SUBSET Tab]]
  <2>1. t \in Tab BY <1>1, LimitsAssumption DEF Typed
  <2>2. [i |-> i, t |-> {t}] \in [i : Nat, t : SUBSET Tab] BY <1>3, <2>1, BoundIsNat
  <2> QED BY <1>3, <1>12, <1>23, <2>2, NoneIs
<1>25. (Typed /\ Honest /\ Watched)'
  BY <1>10, <1>20, <1>21, <1>22, <1>24, TabHonest DEF Core
<1>26. tab'[t] = s /\ \A r \in limit.tabs \ {t} : tab'[r] = tab[r] BY <1>1, <1>12 DEF Typed
<1>27. s.manual = tab[t].manual \cup {c} BY <1>6, <1>7, <1>8, <1>10 DEF Alike
<1>28. Wished'
  <2> SUFFICES ASSUME NEW d \in Chan, wish'[d].i # 0 PROVE Stands(d)'
    BY DEF Wished
  <2>1. CASE d # c
    <3>1. wish'[d] = wish[d] /\ Stands(d) BY <1>12, <1>23, <2>1 DEF Core, Wished
    <3>2. \A m \in calls' : Marking(m, d) => m \in calls BY <1>16, <1>17, <2>1 DEF Marking
    <3>3. \A r \in limit.tabs : d \in tab[r].manual => d \in tab'[r].manual BY <1>26, <1>27
    <3> QED BY <1>12, <1>16, <3>1, <3>2, <3>3, StandsKeeps
  <2>2. CASE d = c
    <3>1. ~crossing /\ wish'[c] = [i |-> i, t |-> {t}]
      BY <1>3, <1>12, <1>23, <2>2, NoneIs
    <3>2. \A m \in calls' : Marking(m, c) => m = k BY <1>11, <1>16, <3>1 DEF Marking
    <3>3. Marking(k, c) BY <1>15, <1>17 DEF Marking
    <3>4. wish'[c].i = i /\ wish'[c].t = {t} BY <3>1
    <3>5. k.op = "unread" /\ k.at = i /\ k \in calls' BY <1>15, <1>16, <1>17
    <3>6. c \in tab'[t].manual /\ t \in limit'.tabs BY <1>12, <1>26, <1>27
    <3>7. \A m \in calls' : Marking(m, c)' => m.op = "unread" /\ m.at = wish'[c].i
      BY <3>2, <3>4, <3>5 DEF Marking
    <3>8. \E r \in limit'.tabs : wish'[c].t = {r} /\ c \in tab'[r].manual BY <3>4, <3>6
    <3>9. \E m \in calls' : Marking(m, c)' /\ m.op = "unread" BY <3>3, <3>5 DEF Marking
    <3> QED BY <2>2, <3>7, <3>8, <3>9 DEF Stands
  <2> QED BY <2>1, <2>2
<1> QED BY <1>25, <1>28 DEF Core

-----------------------------------------------------------------------------
(* The steps of the server.                                                *)
LEMMA BroadcastIs ==
  ASSUME Typed, NEW f \in FrameState, NEW S, Broadcast(f, S)
  PROVE  /\ in' \in [limit.tabs -> Seq(FrameState)]
         /\ \A r \in limit.tabs : \A q \in DOMAIN in'[r] :
              (\E p \in DOMAIN in[r] : in'[r][q] = in[r][p]) \/ in'[r][q] = f
<1>1. in' = [r \in limit.tabs |-> IF tab[r].link = "up" THEN Append(in[r], f) ELSE in[r]]
  BY DEF Broadcast
<1>2. \A r \in limit.tabs : in[r] \in Seq(FrameState) BY DEF Typed
<1>3. \A r \in limit.tabs : Append(in[r], f) \in Seq(FrameState) BY <1>2
<1>4. in' \in [limit.tabs -> Seq(FrameState)] BY <1>1, <1>2, <1>3
<1>5. ASSUME NEW r \in limit.tabs, NEW q \in DOMAIN in'[r]
      PROVE  (\E p \in DOMAIN in[r] : in'[r][q] = in[r][p]) \/ in'[r][q] = f
  <2>1. CASE in'[r] = in[r] BY <2>1
  <2>2. CASE in'[r] = Append(in[r], f)
    <3>1. in[r] \in Seq(FrameState) BY <1>2
    <3>2. q \in 1..(Len(in[r]) + 1) BY <2>2, <3>1
    <3>3. CASE q = Len(in[r]) + 1 BY <2>2, <3>1, <3>3
    <3>4. CASE q # Len(in[r]) + 1
      <4>1. q \in DOMAIN in[r] /\ in'[r][q] = in[r][q] BY <2>2, <3>1, <3>2, <3>4
      <4> QED BY <4>1
    <3> QED BY <3>3, <3>4
  <2> QED BY <1>1, <2>1, <2>2
<1> QED BY <1>4, <1>5

\* A step of the server leaves the tabs alone.
ServerStep == UNCHANGED <<tab, limit, shown, blind>>
LEMMA ServerHonest ==
  ASSUME Typed, Honest, Watched, ServerStep,
         log' \in [Chan -> 1..Bound], cursor' \in [Chan -> 0..Bound],
         in' \in [limit.tabs -> Seq(FrameState)], wish' \in [Chan -> [i : Nat, t : SUBSET Tab]],
         \A c \in Chan \ blind : cursor'[c] = cursor[c] \/ cursor'[c] <= shown[c],
         \A t \in limit.tabs : \A q \in DOMAIN in'[t] :
           \/ \E p \in DOMAIN in[t] : in'[t][q] = in[t][p]
           \/ \A c \in Chan \ blind : FrameWithin(in'[t][q], c, shown[c]),
         \A k \in calls' : CallTyped(k, limit.tabs) /\ (k \in calls \/ Fine(k))
  PROVE  (Typed /\ Honest /\ Watched)'
<1>1. tab' = tab /\ limit' = limit /\ shown' = shown /\ blind' = blind BY DEF ServerStep
<1>2. Grows
  <2>1. shown \in [Chan -> Nat] BY DEF Typed
  <2>2. \A c \in Chan : shown[c] <= shown[c] BY <2>1
  <2> QED BY <1>1, <2>1, <2>2 DEF Grows
<1>3. Typed' BY <1>1 DEF Typed, Bound
<1>4. Honest'
  <2>1. \A t \in limit.tabs, c \in Chan \ blind' : tab'[t].lastRead[c] = tab[t].lastRead[c]
    BY <1>1
  <2> QED BY <1>1, <1>2, <2>1, HonestKeeps
<1>5. Watched' BY <1>1 DEF Watched, Watches
<1> QED BY <1>3, <1>4, <1>5

LEMMA PostKeeps ==
  ASSUME Core, NEW c \in Chan, NEW pings \in BOOLEAN, Post(c, pings)
  PROVE  Core'
<1>1. Typed BY DEF Core
<1>2. PICK n : n = log[c] + 1 OBVIOUS
<1>3. limit.posts \in 0..MaxPosts BY <1>1, LimitsAssumption DEF Typed
<1>4. n \in 1..Bound
  <2>1. log[c] \in 1..(MaxPosts + 1) /\ log[c] <= limit.posts BY <1>1 DEF Typed, Post
  <2> QED BY <1>2, <1>3, <2>1, BoundIsNat DEF Bound
<1>5. /\ log' = [log EXCEPT ![c] = n] /\ UNCHANGED <<tab, limit, shown, blind, cursor, calls, wish>>
      /\ Broadcast(Frame("new", c, n), strayed)
  BY <1>2 DEF Post, Unchanged, bounds
<1>6. PICK f, S : f = Frame("new", c, n) /\ S = strayed OBVIOUS
<1>7. f \in FrameState /\ f.type = "new" BY <1>4, <1>6, BoundIsNat DEF Frame, FrameState, Bound
<1>8. Broadcast(f, S) BY <1>5, <1>6
<1>9. /\ in' \in [limit.tabs -> Seq(FrameState)]
      /\ \A r \in limit.tabs : \A q \in DOMAIN in'[r] :
           (\E p \in DOMAIN in[r] : in'[r][q] = in[r][p]) \/ in'[r][q] = f
  BY <1>1, <1>7, <1>8, BroadcastIs
<1>10. \A d \in Chan : FrameWithin(f, d, shown[d]) BY <1>7 DEF FrameWithin
<1>11. log' \in [Chan -> 1..Bound] /\ cursor' \in [Chan -> 0..Bound] /\ wish' \in [Chan -> [i : Nat, t : SUBSET Tab]]
  BY <1>1, <1>4, <1>5 DEF Typed, Bound
<1>12. \A k \in calls' : CallTyped(k, limit.tabs) /\ (k \in calls \/ Fine(k)) BY <1>1, <1>5 DEF Typed
<1>13. ServerStep BY <1>5 DEF ServerStep
<1>14. (Typed /\ Honest /\ Watched)'
  BY <1>5, <1>9, <1>10, <1>11, <1>12, <1>13, ServerHonest DEF Core
<1>15. Wished' BY <1>5 DEF Core, Wished, Stands, Marking
<1> QED BY <1>14, <1>15 DEF Core

\* A call that is served, or fails, is still the call it was.
LEMMA CallServed ==
  ASSUME Typed, Honest, Grows, NEW k \in calls, NEW m, SameCall(k, m), CallTyped(m, limit.tabs),
         calls' = (calls \ {k}) \cup {m}, m.served # "no"
  PROVE  /\ \A j \in calls' : CallTyped(j, limit.tabs) /\ (j \in calls \/ Fine(j))
         /\ \A c \in Chan, j \in calls' : Marking(j, c) => j \in calls
         /\ \A c \in Chan, j \in calls : Marking(j, c) /\ ~Marking(k, c) => j \in calls'
<1>1. Fine(m)
  <2> SUFFICES ASSUME NEW c \in Chan \ blind' PROVE CallWithin(m, c, shown'[c]) BY DEF Fine
  <2>1. CallWithin(k, c, shown[c]) BY DEF Grows, Honest, Within
  <2>2. shown[c] \in Nat /\ shown'[c] \in Nat /\ shown[c] <= shown'[c] BY DEF Grows, Typed
  <2>3. k.page[c][2] \in Nat /\ k.at \in Nat
    <3>1. CallTyped(k, limit.tabs) BY DEF Typed
    <3>2. k.page[c] \in Nat \X (0..(MaxPosts + 1)) BY <3>1 DEF CallTyped
    <3>3. k.at \in 0..(MaxPosts + 1) BY <3>1 DEF CallTyped
    <3> QED BY <3>2, <3>3, BoundIsNat
  <2> QED BY <2>1, <2>2, <2>3 DEF CallWithin, SameCall
<1>2. \A j \in calls' : CallTyped(j, limit.tabs) /\ (j \in calls \/ Fine(j)) BY <1>1 DEF Typed
<1>3. \A c \in Chan, j \in calls' : Marking(j, c) => j \in calls BY DEF Marking
<1>4. \A c \in Chan, j \in calls : Marking(j, c) /\ ~Marking(k, c) => j \in calls' OBVIOUS
<1> QED BY <1>2, <1>3, <1>4

LEMMA MarkReadKeeps ==
  ASSUME Core, NEW k \in calls, MarkRead(k)
  PROVE  Core'
<1>1. Typed /\ CallTyped(k, limit.tabs) BY DEF Core, Typed
<1>2. PICK c, m : c = k.chan /\ m = [k EXCEPT !.served = "yes"] OBVIOUS
<1>3. k.op = "read" /\ k.served = "no" /\ c \in Chan /\ k.at \in 0..Bound
  BY <1>1, <1>2 DEF MarkRead, CallTyped, Bound
<1>4. CallTyped(m, limit.tabs) /\ SameCall(k, m) /\ m.served = "yes" BY <1>1, <1>2, ServedIs
<1>5. /\ cursor' = [cursor EXCEPT ![c] = Larger(cursor[c], k.at)] /\ calls' = (calls \ {k}) \cup {m}
      /\ UNCHANGED <<tab, limit, shown, blind, log, wish>>
  BY <1>2 DEF MarkRead, Unchanged, bounds
<1>6. PICK f, S : f = Frame("read", c, k.at) /\ Broadcast(f, S)
  BY <1>2 DEF MarkRead
<1>7. f \in FrameState /\ f.chan = c /\ f.at = k.at BY <1>3, <1>6 DEF Frame, FrameState, Bound
<1>8. /\ in' \in [limit.tabs -> Seq(FrameState)]
      /\ \A r \in limit.tabs : \A q \in DOMAIN in'[r] :
           (\E p \in DOMAIN in[r] : in'[r][q] = in[r][p]) \/ in'[r][q] = f
  BY <1>1, <1>6, <1>7, BroadcastIs
<1>9. ServerStep BY <1>5 DEF ServerStep
<1>10. Grows BY <1>1, <1>5, NothingShown
<1>11. ASSUME NEW d \in Chan \ blind
       PROVE  /\ cursor'[d] = cursor[d] \/ cursor'[d] <= shown[d]
              /\ FrameWithin(f, d, shown[d])
  <2>1. cursor[d] <= shown[d] /\ CallWithin(k, d, shown[d]) BY DEF Core, Honest, Within
  <2>2. d = c => k.at <= shown[d] BY <1>2, <1>3, <2>1 DEF CallWithin
  <2>3. cursor'[d] = cursor[d] \/ (d = c /\ cursor'[d] = k.at)
    BY <1>1, <1>3, <1>5 DEF Larger, Typed
  <2> QED BY <1>7, <2>2, <2>3 DEF FrameWithin
<1>12. log' \in [Chan -> 1..Bound] /\ wish' \in [Chan -> [i : Nat, t : SUBSET Tab]]
  BY <1>1, <1>5 DEF Typed, Bound
<1>13. cursor' \in [Chan -> 0..Bound]
  <2>1. cursor \in [Chan -> 0..Bound] BY <1>1 DEF Typed, Bound
  <2> QED BY <1>3, <1>5, <2>1 DEF Larger
<1>14. \A j \in calls' : CallTyped(j, limit.tabs) /\ (j \in calls \/ Fine(j))
  BY <1>1, <1>4, <1>5, <1>10, CallServed DEF Core
<1>15. (Typed /\ Honest /\ Watched)'
  BY <1>8, <1>9, <1>11, <1>12, <1>13, <1>14, ServerHonest DEF Core
<1>16. Wished'
  <2> SUFFICES ASSUME NEW d \in Chan, wish'[d].i # 0 PROVE Stands(d)'
    BY DEF Wished
  <2>1. Stands(d) BY <1>5 DEF Core, Wished
  <2>2. d # c BY <1>2, <1>3, <2>1 DEF Stands, Marking
  <2>3. cursor'[d] = cursor[d] BY <1>1, <1>5, <2>2 DEF Typed
  <2>4. \A j \in calls' : Marking(j, d) => j \in calls BY <1>4, <1>5 DEF Marking
  <2>5. \A j \in calls : Marking(j, d) => j \in calls' BY <1>2, <1>5, <2>2 DEF Marking
  <2> QED BY <1>5, <2>1, <2>3, <2>4, <2>5, StandsKeeps
<1> QED BY <1>15, <1>16 DEF Core

LEMMA MarkUnreadKeeps ==
  ASSUME Core, NEW k \in calls, MarkUnread(k)
  PROVE  Core'
<1>1. Typed /\ CallTyped(k, limit.tabs) BY DEF Core, Typed
<1>2. PICK c, m : c = k.chan /\ m = [k EXCEPT !.served = "yes"] OBVIOUS
<1>3. k.op = "unread" /\ k.served = "no" /\ c \in Chan /\ k.at \in 1..Bound
  BY <1>1, <1>2, BoundIsNat DEF MarkUnread, CallTyped, Bound
<1>4. CallTyped(m, limit.tabs) /\ SameCall(k, m) /\ m.served = "yes" BY <1>1, <1>2, ServedIs
<1>5. /\ cursor' = [cursor EXCEPT ![c] = k.at - 1] /\ calls' = (calls \ {k}) \cup {m}
      /\ UNCHANGED <<tab, limit, shown, blind, log, wish>>
  BY <1>2 DEF MarkUnread, Unchanged, bounds
<1>6. PICK f, S : f = Frame("unread", c, k.at - 1) /\ Broadcast(f, S)
  BY <1>2 DEF MarkUnread
<1>7. f \in FrameState /\ f.chan = c /\ f.at = k.at - 1 /\ k.at - 1 \in 0..Bound
  <2>1. k.at - 1 \in 0..(MaxPosts + 1) BY <1>3, BoundIsNat DEF Bound
  <2> QED BY <1>3, <1>6, <2>1 DEF Frame, FrameState, Bound
<1>8. /\ in' \in [limit.tabs -> Seq(FrameState)]
      /\ \A r \in limit.tabs : \A q \in DOMAIN in'[r] :
           (\E p \in DOMAIN in[r] : in'[r][q] = in[r][p]) \/ in'[r][q] = f
  BY <1>1, <1>6, <1>7, BroadcastIs
<1>9. ServerStep BY <1>5 DEF ServerStep
<1>10. Grows BY <1>1, <1>5, NothingShown
<1>11. ASSUME NEW d \in Chan \ blind
       PROVE  /\ cursor'[d] = cursor[d] \/ cursor'[d] <= shown[d]
              /\ FrameWithin(f, d, shown[d])
  <2>1. CallWithin(k, d, shown[d]) /\ shown[d] \in Nat BY <1>1 DEF Core, Honest, Within, Typed
  <2>2. d = c => k.at - 1 <= shown[d] BY <1>2, <1>3, <2>1, BoundIsNat DEF CallWithin
  <2>3. cursor'[d] = cursor[d] \/ (d = c /\ cursor'[d] = k.at - 1)
    BY <1>1, <1>3, <1>5 DEF Typed
  <2> QED BY <1>7, <2>2, <2>3 DEF FrameWithin
<1>12. log' \in [Chan -> 1..Bound] /\ wish' \in [Chan -> [i : Nat, t : SUBSET Tab]]
  BY <1>1, <1>5 DEF Typed, Bound
<1>13. cursor' \in [Chan -> 0..Bound]
  BY <1>1, <1>5, <1>7 DEF Typed, Bound
<1>14. \A j \in calls' : CallTyped(j, limit.tabs) /\ (j \in calls \/ Fine(j))
  BY <1>1, <1>4, <1>5, <1>10, CallServed DEF Core
<1>15. (Typed /\ Honest /\ Watched)'
  BY <1>8, <1>9, <1>11, <1>12, <1>13, <1>14, ServerHonest DEF Core
<1>16. Wished'
  <2> SUFFICES ASSUME NEW d \in Chan, wish'[d].i # 0 PROVE Stands(d)'
    BY DEF Wished
  <2>1. Stands(d) BY <1>5 DEF Core, Wished
  <2>2. \A j \in calls' : Marking(j, d) => j \in calls BY <1>4, <1>5 DEF Marking
  <2>3. CASE d # c
    <3>1. cursor'[d] = cursor[d] BY <1>1, <1>5, <2>3 DEF Typed
    <3>2. \A j \in calls : Marking(j, d) => j \in calls' BY <1>2, <1>5, <2>3 DEF Marking
    <3> QED BY <1>5, <2>1, <2>2, <3>1, <3>2, StandsKeeps
  <2>4. CASE d = c
    <3>1. Marking(k, c) BY <1>2, <1>3 DEF Marking
    <3>2. k.at = wish[c].i BY <2>1, <2>4, <3>1 DEF Stands
    <3>3. cursor'[c] < wish'[c].i
      <4>1. cursor'[c] = k.at - 1 BY <1>1, <1>3, <1>5 DEF Typed
      <4> QED BY <1>3, <1>5, <3>2, <4>1, BoundIsNat
    <3>4. \A j \in calls' : Marking(j, c)' => j.op = "unread" /\ j.at = wish'[c].i
      BY <1>5, <2>1, <2>2, <2>4 DEF Stands, Marking
    <3>5. \E t \in limit'.tabs : wish'[c].t = {t} /\ c \in tab'[t].manual
      BY <1>5, <2>1, <2>4 DEF Stands
    <3> QED BY <2>4, <3>3, <3>4, <3>5 DEF Stands
  <2> QED BY <2>3, <2>4
<1> QED BY <1>15, <1>16 DEF Core

LEMMA QueryKeeps ==
  ASSUME Core, NEW k \in calls, ServeQuery(k)
  PROVE  Core'
<1>1. Typed /\ CallTyped(k, limit.tabs) BY DEF Core, Typed
<1>2. PICK g : g = [c \in Chan |-> IF k.op = "summary"
                                     THEN <<Cardinality({i \in All(c) : i > cursor[c]}), cursor[c]>>
                                     ELSE <<log[c], 0>>]
  OBVIOUS
<1>3. ASSUME NEW c \in Chan
      PROVE  /\ g[c] \in Nat \X (0..(MaxPosts + 1))
             /\ k.op # "summary" => g[c] = <<log[c], 0>> /\ g[c][1] <= Bound
             /\ k.op = "summary" => g[c][2] = cursor[c]
  <2>1. log[c] \in 1..Bound /\ cursor[c] \in 0..(MaxPosts + 1) BY <1>1 DEF Typed, Bound
  <2>2. Cardinality({i \in All(c) : i > cursor[c]}) \in Nat
    <3>1. log[c] \in Nat /\ {i \in All(c) : i > cursor[c]} \subseteq 1..log[c] BY <2>1, BoundIsNat DEF All
    <3> QED BY <3>1, CountIsNat
  <2>3. log[c] \in Nat /\ log[c] <= Bound /\ 0 \in 0..(MaxPosts + 1) BY <2>1, BoundIsNat
  <2>4. CASE k.op = "summary" BY <1>2, <2>1, <2>2, <2>4
  <2>5. CASE k.op # "summary" BY <1>2, <2>3, <2>5
  <2> QED BY <2>4, <2>5
<1>4. g \in [Chan -> Nat \X (0..(MaxPosts + 1))] BY <1>2, <1>3
<1>5. PICK m : m = [k EXCEPT !.served = "yes", !.page = g] OBVIOUS
<1>6. k.op \notin {"read", "unread"} BY DEF ServeQuery
<1>7. k.op # "summary" => \A c \in Chan : g[c][1] <= Bound BY <1>3
<1>8. CallTyped(m, limit.tabs) /\ m.op = k.op /\ m.chan = k.chan /\ m.page = g /\ m.served = "yes"
  <2>1. PICK x : x = [k EXCEPT !.served = "yes"] OBVIOUS
  <2>2. CallTyped(x, limit.tabs) /\ SameCall(k, x) /\ x.served = "yes" BY <1>1, <2>1, ServedIs
  <2>3. m = [x EXCEPT !.page = g] BY <1>5, <2>1
  <2>4. x.op # "summary" => \A c \in Chan : g[c][1] <= Bound BY <1>7, <2>2 DEF SameCall
  <2>5. /\ CallTyped(m, limit.tabs) /\ m.op = x.op /\ m.chan = x.chan
        /\ m.page = g /\ m.served = x.served
    BY <1>4, <2>2, <2>3, <2>4, PagedIs
  <2> QED BY <2>2, <2>5 DEF SameCall
<1>9. /\ calls' = (calls \ {k}) \cup {m}
      /\ UNCHANGED <<tab, limit, shown, blind, log, cursor, in, wish>>
  BY <1>2, <1>5 DEF ServeQuery, server, bounds, ghosts
<1>10. Fine(m)
  <2> SUFFICES ASSUME NEW c \in Chan \ blind' PROVE CallWithin(m, c, shown'[c]) BY DEF Fine
  <2>1. cursor[c] <= shown[c] BY <1>9 DEF Core, Honest, Within
  <2> QED BY <1>3, <1>6, <1>8, <1>9, <2>1 DEF CallWithin
<1>11. \A j \in calls' : CallTyped(j, limit.tabs) /\ (j \in calls \/ Fine(j))
  BY <1>1, <1>8, <1>9, <1>10 DEF Typed
<1>12. (Typed /\ Honest /\ Watched)'
  <2>1. ServerStep BY <1>9 DEF ServerStep
  <2>2. log' \in [Chan -> 1..Bound] /\ cursor' \in [Chan -> 0..Bound] /\ wish' \in [Chan -> [i : Nat, t : SUBSET Tab]]
    BY <1>1, <1>9 DEF Typed, Bound
  <2>3. FramesKept BY <1>1, <1>9, SameFrames
  <2>4. \A c \in Chan : cursor'[c] = cursor[c] BY <1>9
  <2> QED BY <1>11, <2>1, <2>2, <2>3, <2>4, ServerHonest DEF Core, FramesKept
<1>13. Wished'
  <2> SUFFICES ASSUME NEW d \in Chan, wish'[d].i # 0 PROVE Stands(d)'
    BY DEF Wished
  <2>1. Stands(d) BY <1>9 DEF Core, Wished
  <2>2. \A j \in calls' : Marking(j, d) => j \in calls BY <1>8, <1>9 DEF Marking
  <2>3. \A j \in calls : Marking(j, d) => j \in calls' BY <1>6, <1>9 DEF Marking
  <2> QED BY <1>9, <2>1, <2>2, <2>3, StandsKeeps
<1> QED BY <1>12, <1>13 DEF Core

LEMMA FailKeeps ==
  ASSUME Core, NEW k \in calls, Fail(k)
  PROVE  Core'
<1>1. Typed /\ CallTyped(k, limit.tabs) BY DEF Core, Typed
<1>2. PICK m : m = [k EXCEPT !.served = "failed"] OBVIOUS
<1>3. CallTyped(m, limit.tabs) /\ SameCall(k, m) /\ m.served = "failed" BY <1>1, <1>2, ServedIs
<1>4. /\ calls' = (calls \ {k}) \cup {m}
      /\ UNCHANGED <<tab, limit, shown, blind, log, cursor, in>>
      /\ wish' = IF k.op = "unread" /\ k.served = "no" THEN [wish EXCEPT ![k.chan] = None] ELSE wish
  BY <1>2 DEF Fail, server, Unchanged
<1>5. wish \in [Chan -> [i : Nat, t : SUBSET Tab]] /\ k.chan \in Chan BY <1>1 DEF Typed, CallTyped
<1>6. wish' \in [Chan -> [i : Nat, t : SUBSET Tab]] BY <1>4, <1>5, NoneIs
<1>7. (Typed /\ Honest /\ Watched)'
  <2>1. Grows BY <1>1, <1>4, NothingShown
  <2>2. \A j \in calls' : CallTyped(j, limit.tabs) /\ (j \in calls \/ Fine(j))
    BY <1>1, <1>3, <1>4, <2>1, CallServed DEF Core
  <2>3. ServerStep BY <1>4 DEF ServerStep
  <2>4. log' \in [Chan -> 1..Bound] /\ cursor' \in [Chan -> 0..Bound] BY <1>1, <1>4 DEF Typed, Bound
  <2>5. FramesKept BY <1>1, <1>4, SameFrames
  <2>6. \A c \in Chan : cursor'[c] = cursor[c] BY <1>4
  <2> QED BY <1>6, <2>2, <2>3, <2>4, <2>5, <2>6, ServerHonest DEF Core, FramesKept
<1>8. Wished'
  <2> SUFFICES ASSUME NEW d \in Chan, wish'[d].i # 0 PROVE Stands(d)'
    BY DEF Wished
  <2>1. wish'[d] = wish[d] BY <1>4, <1>5, NoneIs
  <2>2. Stands(d) BY <2>1 DEF Core, Wished
  <2>3. ~Marking(k, d)
    <3> SUFFICES ASSUME Marking(k, d) PROVE FALSE OBVIOUS
    <3>1. k.op = "unread" BY <2>2 DEF Stands
    <3>2. wish'[d] = None BY <1>4, <1>5, <3>1 DEF Marking
    <3> QED BY <3>2, NoneIs
  <2>4. \A j \in calls' : Marking(j, d) => j \in calls BY <1>3, <1>4 DEF Marking
  <2>5. \A j \in calls : Marking(j, d) => j \in calls' BY <1>4, <2>3
  <2> QED BY <1>4, <2>1, <2>2, <2>4, <2>5, StandsKeeps
<1> QED BY <1>7, <1>8 DEF Core

-----------------------------------------------------------------------------
(* Answers.                                                                *)
LEMMA AnswerMarkKeeps ==
  ASSUME Core, NEW k \in calls, AnswerMark(k)
  PROVE  Core'
<1>1. Typed /\ CallTyped(k, limit.tabs) BY DEF Core, Typed
<1>2. PICK t, c : t = k.t /\ c = k.chan OBVIOUS
<1>3. t \in limit.tabs /\ c \in Chan /\ tab[t] \in TabState BY <1>1, <1>2 DEF CallTyped, Typed
<1>4. /\ calls' = calls \ {k} /\ k.served # "no"
      /\ UNCHANGED <<limit, shown, blind, log, cursor, in, wish>> /\ Unchanged
  BY DEF AnswerMark, server, bounds, ghosts, Unchanged
<1>5. \E s \in TabState : tab' = [tab EXCEPT ![t] = s] /\ Alike(tab[t], s) /\ s.lastRead = tab[t].lastRead
  <2>1. CASE k.op = "read" /\ k.served = "failed"
    <3>1. PICK s : s = [tab[t] EXCEPT !.marked[c] = 0] OBVIOUS
    <3>2. s \in TabState /\ Alike(tab[t], s) /\ s.lastRead = tab[t].lastRead
      BY <1>3, <3>1, BoundIsNat, RemarkedIs
    <3>3. tab' = [tab EXCEPT ![t] = s] BY <1>2, <2>1, <3>1 DEF AnswerMark
    <3> QED BY <3>2, <3>3
  <2>2. CASE ~(k.op = "read" /\ k.served = "failed")
    <3>1. tab' = tab BY <2>2 DEF AnswerMark
    <3>2. tab' = [tab EXCEPT ![t] = tab[t]] BY <1>1, <1>3, <3>1 DEF Typed
    <3> QED BY <1>3, <3>2 DEF Alike
  <2> QED BY <2>1, <2>2
<1>6. PICK s \in TabState : tab' = [tab EXCEPT ![t] = s] /\ Alike(tab[t], s) /\ s.lastRead = tab[t].lastRead
  BY <1>5
<1>7. TabStep(t, s) BY <1>1, <1>4, <1>6, SameFrames DEF TabStep, Typed, ShownMore, Unchanged
<1>8. LastReadKept(t, s) BY <1>6 DEF LastReadKept
<1>9. WishKept(t, s) BY <1>1, <1>4, <1>6 DEF WishKept, Typed, Alike
<1> QED BY <1>3, <1>6, <1>7, <1>8, <1>9, TabKeeps

LEMMA LoadedIs ==
  ASSUME Typed, NEW k \in calls, k.op \in {"load", "jump", "reload"}, k.served # "no"
  PROVE  LET s == Loaded(k)
             u == tab[k.t]
         IN  /\ s \in TabState /\ s.lastRead = u.lastRead /\ s.manual = u.manual
             /\ s.focused = u.focused /\ s.active = u.active
             /\ s = u \/ s.active = k.chan
<1>1. CallTyped(k, limit.tabs) BY DEF Typed
<1>2. PICK u : u = tab[k.t] OBVIOUS
<1>3. u \in TabState /\ k.chan \in Chan /\ k.served \in {"yes", "failed"}
  BY <1>1, <1>2 DEF Typed, CallTyped
<1>4. CASE k.chan # u.active
  <2>1. Loaded(k) = u BY <1>2, <1>4 DEF Loaded
  <2> QED BY <1>2, <1>3, <2>1
<1>5. CASE k.chan = u.active /\ k.served = "yes"
  <2>1. PICK S, s : S = 1..k.page[k.chan][1] /\ s = [u EXCEPT !.list[k.chan] = S, !.pane = "shown"] OBVIOUS
  <2>2. S \in SUBSET Id
    <3>1. k.page[k.chan] \in Nat \X (0..(MaxPosts + 1)) /\ k.page[k.chan][1] <= Bound
      BY <1>1, <1>3 DEF CallTyped, Bound
    <3> QED BY <2>1, <3>1, BoundIsNat
  <2>3. Loaded(k) = s BY <1>2, <1>5, <2>1 DEF Loaded
  <2>4. PICK v : v = [u EXCEPT !.list[k.chan] = S] OBVIOUS
  <2>5. /\ v \in TabState /\ v.lastRead = u.lastRead /\ v.manual = u.manual
        /\ v.focused = u.focused /\ v.active = u.active
    BY <1>3, <2>2, <2>4 DEF TabState
  <2>6. s = [v EXCEPT !.pane = "shown"] BY <2>1, <2>4
  <2>7. /\ s \in TabState /\ s.lastRead = u.lastRead /\ s.manual = u.manual
        /\ s.focused = u.focused /\ s.active = u.active
    BY <2>5, <2>6 DEF TabState
  <2> QED BY <1>2, <1>5, <2>3, <2>7
<1>6. CASE k.chan = u.active /\ k.served = "failed"
  <2>1. PICK s : s = [u EXCEPT !.pane = "error"] OBVIOUS
  <2>2. Loaded(k) = s BY <1>2, <1>6, <2>1 DEF Loaded
  <2>3. /\ s \in TabState /\ s.lastRead = u.lastRead /\ s.manual = u.manual
        /\ s.focused = u.focused /\ s.active = u.active
    BY <1>3, <2>1 DEF TabState
  <2> QED BY <1>2, <1>6, <2>2, <2>3
<1> QED BY <1>3, <1>4, <1>5, <1>6

LEMMA AnswerLoadKeeps ==
  ASSUME Core, NEW k \in calls, AnswerLoad(k)
  PROVE  Core'
<1>1. Typed /\ CallTyped(k, limit.tabs) BY DEF Core, Typed
<1>2. PICK t, s, c : t = k.t /\ s = Loaded(k) /\ c = k.chan OBVIOUS
<1>3. t \in limit.tabs /\ c \in Chan BY <1>1, <1>2 DEF CallTyped
<1>4. k.op \in {"load", "jump", "reload"} /\ k.served # "no" BY DEF AnswerLoad
<1>5. /\ s \in TabState /\ s.lastRead = tab[t].lastRead /\ s.manual = tab[t].manual
      /\ s.focused = tab[t].focused /\ s.active = tab[t].active
      /\ s = tab[t] \/ s.active = c
  BY <1>1, <1>2, <1>4, LoadedIs
<1>6. s.list[c] \in SUBSET Id /\ s.focused \in BOOLEAN /\ s.active \in Chan BY <1>3, <1>5 DEF TabState
<1>7. Newest(s.list[c]) \in Nat BY <1>6, NewestIs, BoundIsNat
<1>8. IF s.pane = "shown" /\ s.active = c /\ s.focused THEN Shows(c, Newest(s.list[c])) ELSE Unchanged
  BY <1>2 DEF AnswerLoad
<1>9. ShownMore BY <1>3, <1>7, <1>8 DEF ShownMore, Unchanged
<1>10. Watches(s, shown')
  <2> SUFFICES ASSUME s.focused = TRUE, s.pane = "shown"
               PROVE  Newest(s.list[s.active]) <= shown'[s.active]
    BY DEF Watches
  <2>1. CASE s.active = c BY <1>1, <1>3, <1>7, <1>8, <2>1, ShowsAll
  <2>2. CASE s.active # c
    <3>1. s = tab[t] /\ shown' = shown BY <1>5, <1>8, <2>2 DEF Unchanged
    <3>2. Watches(tab[t], shown) BY <1>3 DEF Core, Watched
    <3> QED BY <3>1, <3>2 DEF Watches
  <2> QED BY <2>1, <2>2
<1>11. PICK K : K = calls \ {k} OBVIOUS
<1>12. Kept(K) BY <1>4, <1>11 DEF Kept
<1>13. UNCHANGED <<log, cursor, limit, in>> BY DEF AnswerLoad, server, bounds
<1>14. FramesKept BY <1>1, <1>13, SameFrames
<1>15. \/ \E S : MarkActiveChannelRead(t, s, K, S, TabUnfocused(s))
       \/ \E S : Quiet(t, s, K, S)
  BY <1>2, <1>11 DEF AnswerLoad
<1>16. ASSUME NEW S, MarkActiveChannelRead(t, s, K, S, TabUnfocused(s)) PROVE Core'
  <2>1. PICK B \in BOOLEAN : B = TabUnfocused(s) BY <1>6 DEF TabUnfocused
  <2>2. MarkActiveChannelRead(t, s, K, S, B) BY <1>16, <2>1
  <2>3. B = TRUE \/ s.focused = TRUE BY <1>6, <2>1 DEF TabUnfocused
  <2> QED BY <1>3, <1>5, <1>9, <1>10, <1>12, <1>13, <1>14, <2>2, <2>3, MarkKeeps
<1>17. ASSUME NEW S, Quiet(t, s, K, S) PROVE Core'
  <2>1. tab' = [tab EXCEPT ![t] = s] /\ calls' = K /\ UNCHANGED <<blind, wish>> BY <1>17 DEF Quiet
  <2>2. TabStep(t, s) BY <1>1, <1>4, <1>9, <1>11, <1>13, <1>14, <2>1 DEF TabStep, Typed
  <2>3. LastReadKept(t, s) BY <1>5 DEF LastReadKept
  <2>4. WishKept(t, s) BY <1>1, <1>5, <1>11, <2>1 DEF WishKept, Typed
  <2> QED BY <1>3, <1>5, <1>10, <2>2, <2>3, <2>4, TabKeeps
<1> QED BY <1>15, <1>16, <1>17

LEMMA SummedIs ==
  ASSUME Typed, NEW k \in calls, NEW s \in TabState
  PROVE  LET u == Summed(s, k)
         IN  /\ u \in TabState /\ Alike(s, u) /\ u.link = s.link
             /\ \A c \in Chan : u.lastRead[c] = s.lastRead[c] \/ u.lastRead[c] = k.page[c][2]
<1>1. CallTyped(k, limit.tabs) BY DEF Typed
<1>2. \A c \in Chan : k.page[c] \in Nat \X (0..(MaxPosts + 1)) BY <1>1 DEF CallTyped
<1>3. PICK f, g : /\ f = [c \in Chan |-> k.page[c][1]]
                  /\ g = [c \in Chan |-> IF k.page[c][2] = 0 THEN s.lastRead[c] ELSE k.page[c][2]]
  OBVIOUS
<1>4. f \in [Chan -> Nat] BY <1>2, <1>3
<1>5. g \in [Chan -> 0..(MaxPosts + 1)]
  <2>1. s.lastRead \in [Chan -> 0..(MaxPosts + 1)] BY DEF TabState
  <2> QED BY <1>2, <1>3, <2>1
<1>6. PICK v : v = [s EXCEPT !.unread = f] OBVIOUS
<1>7. v \in TabState /\ Alike(s, v) /\ v.link = s.link /\ v.lastRead = s.lastRead
  BY <1>4, <1>6 DEF TabState, Alike
<1>8. Summed(s, k) = [v EXCEPT !.lastRead = g]
  BY <1>3, <1>6 DEF Summed
<1>9. PICK u : u = [v EXCEPT !.lastRead = g] OBVIOUS
<1>10. u \in TabState /\ Alike(v, u) /\ u.link = v.link /\ u.lastRead = g
  BY <1>5, <1>7, <1>9 DEF TabState, Alike
<1>11. \A c \in Chan : g[c] = s.lastRead[c] \/ g[c] = k.page[c][2] BY <1>3
<1> QED BY <1>7, <1>8, <1>9, <1>10, <1>11 DEF Alike

LEMMA AnswerSummaryKeeps ==
  ASSUME Core, NEW k \in calls, NEW near \in BOOLEAN, AnswerSummary(k, near)
  PROVE  Core'
<1>1. Typed /\ CallTyped(k, limit.tabs) BY DEF Core, Typed
<1>2. PICK t, s : t = k.t /\ s = IF k.served = "yes" THEN Summed(tab[t], k) ELSE tab[t] OBVIOUS
<1>3. t \in limit.tabs /\ tab[t] \in TabState /\ k.op = "summary" /\ k.served # "no"
  BY <1>1, <1>2 DEF CallTyped, Typed, AnswerSummary
<1>4. /\ s \in TabState /\ Alike(tab[t], s)
      /\ \A c \in Chan : s.lastRead[c] = tab[t].lastRead[c] \/ s.lastRead[c] = k.page[c][2]
  <2>1. CASE k.served = "yes" BY <1>1, <1>2, <1>3, <2>1, SummedIs
  <2>2. CASE k.served # "yes" BY <1>2, <1>3, <2>2 DEF Alike
  <2> QED BY <2>1, <2>2
<1>5. PICK K, T, op, c, at, m :
        /\ K = calls \ {k} /\ T = limit.tabs /\ op = "reload" /\ c = s.active /\ at = 0
        /\ m = Asked(K, t, op, c, at)
  OBVIOUS
<1>6. CallTyped(m, T) /\ Blank(m) /\ m.op = op
  <2>1. op \in Op /\ op # "unread" /\ c \in Chan /\ at \in 0..Bound /\ t \in T
    BY <1>3, <1>4, <1>5, BoundIsNat DEF Op, TabState
  <2>2. /\ t \in T /\ op \in Op /\ c \in Chan /\ at \in 0..Bound /\ (op # "unread" \/ at # 0)
        /\ m = Asked(K, t, op, c, at)
    BY <1>5, <2>1
  <2>3. NewCall(Asked(K, t, op, c, at), T, t, op, c, at) BY <2>2, AskedIs
  <2> QED BY <2>2, <2>3 DEF NewCall
<1>7. PICK x : x = [s EXCEPT !.pane = "loading"] OBVIOUS
<1>8. x \in TabState /\ x.pane = "loading" /\ x.lastRead = s.lastRead /\ x.manual = s.manual
  BY <1>4, <1>7 DEF TabState
<1>9. UNCHANGED <<log, cursor, limit, in, shown, blind, wish>> BY DEF AnswerSummary, server, bounds
<1>10. \/ calls' = K \cup {m} /\ tab' = [tab EXCEPT ![t] = x]
       \/ calls' = K /\ tab' = [tab EXCEPT ![t] = s]
  BY <1>2, <1>5, <1>7 DEF AnswerSummary
<1>11. PICK u : tab' = [tab EXCEPT ![t] = u] /\ (u = x \/ (u = s /\ calls' = K)) BY <1>10
<1>12. u \in TabState /\ u.lastRead = s.lastRead /\ u.manual = s.manual BY <1>4, <1>8, <1>11
<1>13. Grows BY <1>1, <1>9, NothingShown
<1>14. Fine(m) BY <1>1, <1>5, <1>6, <1>13, BlankIsFine
<1>15. ShownMore BY <1>9 DEF ShownMore
<1>16. Kept(K) BY <1>3, <1>5 DEF Kept
<1>17. /\ \A j \in calls' : CallTyped(j, limit.tabs) /\ (j \in calls \/ Fine(j))
       /\ \A j \in calls \ calls' : j.served # "no"
       /\ \A j \in calls' \ calls : j = m
  <2>1. CASE calls' = K BY <1>1, <1>3, <1>5, <2>1 DEF Typed
  <2>2. CASE calls' = K \cup {m} BY <1>1, <1>5, <1>6, <1>14, <1>16, <2>2, OneCallMore
  <2> QED BY <1>10, <2>1, <2>2
<1>18. TabStep(t, u)
  BY <1>1, <1>9, <1>11, <1>15, <1>17, SameFrames DEF TabStep
<1>19. LastReadKept(t, u)
  <2> SUFFICES ASSUME NEW d \in Chan \ blind, s.lastRead[d] = k.page[d][2]
               PROVE  s.lastRead[d] <= shown'[d]
    BY <1>4, <1>12 DEF LastReadKept
  <2>1. k.page[d][2] <= shown[d] BY <1>3 DEF Core, Honest, Within, CallWithin
  <2> QED BY <1>9, <2>1
<1>20. Watches(u, shown') \/ Alike(tab[t], u) BY <1>4, <1>8, <1>11 DEF Watches
<1>21. WishKept(t, u)
  <2>1. \A j \in calls' \ calls : \A d \in Chan : ~Marking(j, d)
    BY <1>5, <1>6, <1>17 DEF Marking
  <2>2. s.manual = tab[t].manual BY <1>4 DEF Alike
  <2> QED BY <1>1, <1>9, <1>12, <2>1, <2>2 DEF WishKept, Typed
<1> QED BY <1>3, <1>12, <1>18, <1>19, <1>20, <1>21, TabKeeps

-----------------------------------------------------------------------------
(* Frames and the socket.                                                  *)
LEMMA TakenIs ==
  ASSUME Typed, NEW t \in limit.tabs, in[t] # <<>>, in' = [in EXCEPT ![t] = Tail(in[t])]
  PROVE  /\ Head(in[t]) \in FrameState /\ \E p \in DOMAIN in[t] : Head(in[t]) = in[t][p]
         /\ FramesKept
<1>1. PICK w : w = in[t] OBVIOUS
<1>2. w \in Seq(FrameState) /\ w # <<>> /\ in \in [limit.tabs -> Seq(FrameState)] BY <1>1 DEF Typed
<1>3. Head(w) = w[1] /\ 1 \in DOMAIN w /\ w[1] \in FrameState /\ Tail(w) \in Seq(FrameState)
  BY <1>2
<1>4. \A q \in DOMAIN Tail(w) : q + 1 \in DOMAIN w /\ Tail(w)[q] = w[q + 1] BY <1>2
<1>5. in' \in [limit.tabs -> Seq(FrameState)] BY <1>1, <1>2, <1>3
<1>6. \A r \in limit.tabs : \A q \in DOMAIN in'[r] : \E p \in DOMAIN in[r] : in'[r][q] = in[r][p]
  BY <1>1, <1>2, <1>4
<1> QED BY <1>1, <1>3, <1>5, <1>6 DEF FramesKept

LEMMA NewKeeps ==
  ASSUME Core, NEW t \in limit.tabs, NEW c \in Chan, NEW i \in Id, OnNew(t, c, i),
         UNCHANGED <<log, cursor, limit>>, FramesKept
  PROVE  Core'
<1>1. Typed /\ tab[t] \in TabState /\ Watches(tab[t], shown) BY DEF Core, Typed, Watched
<1>2. PICK s : s = [tab[t] EXCEPT !.list[c] = @ \cup {i}] OBVIOUS
<1>3. /\ s \in TabState /\ s.lastRead = tab[t].lastRead /\ s.manual = tab[t].manual
      /\ s.active = tab[t].active /\ s.focused = tab[t].focused /\ s.pane = tab[t].pane
      /\ s.list[c] = tab[t].list[c] \cup {i} /\ \A d \in Chan \ {c} : s.list[d] = tab[t].list[d]
      /\ tab[t].list[c] \in SUBSET Id /\ s.active \in Chan /\ s.focused \in BOOLEAN
  BY <1>1, <1>2 DEF TabState
<1>4. CASE Unseen(s, c)
  <2>1. PICK u : u = BumpUnread(s, c) OBVIOUS
  <2>2. u \in TabState /\ Alike(s, u) /\ u.lastRead = s.lastRead BY <1>3, <2>1, BumpedIs
  <2>3. /\ tab' = [tab EXCEPT ![t] = u] /\ calls' = calls /\ UNCHANGED <<blind, wish, shown>>
    BY <1>2, <1>4, <2>1 DEF OnNew, Quiet
  <2>4. TabStep(t, u) BY <1>1, <2>3 DEF TabStep, ShownMore, Typed
  <2>5. LastReadKept(t, u) BY <1>3, <2>2 DEF LastReadKept
  <2>6. Watches(u, shown')
    <3>1. s.active # c \/ s.focused = FALSE BY <1>3, <1>4 DEF Unseen, TabUnfocused
    <3>2. s.focused = TRUE => s.list[s.active] = tab[t].list[s.active] BY <1>3, <3>1
    <3> QED BY <1>1, <1>3, <2>2, <2>3, <3>2 DEF Watches, Alike
  <2>7. WishKept(t, u) BY <1>1, <1>3, <2>2, <2>3 DEF WishKept, Typed, Alike
  <2> QED BY <2>2, <2>4, <2>5, <2>6, <2>7, TabKeeps
<1>5. CASE ~Unseen(s, c)
  <2>1. s.active = c /\ s.focused = TRUE BY <1>3, <1>5 DEF Unseen, TabUnfocused
  <2>2. /\ MarkActiveChannelRead(t, s, calls, strayed, FALSE)
        /\ IF s.pane = "shown" /\ s.focused THEN Shows(c, i) ELSE Unchanged
    BY <1>2, <1>5 DEF OnNew
  <2>3. i \in Nat BY BoundIsNat
  <2>4. ShownMore BY <2>2, <2>3 DEF ShownMore, Unchanged
  <2>5. Watches(s, shown')
    <3> SUFFICES ASSUME s.pane = "shown" PROVE Newest(s.list[c]) <= shown'[c]
      BY <2>1 DEF Watches
    <3>1. i <= shown'[c] /\ shown[c] <= shown'[c]
      <4>1. Shows(c, i) BY <2>1, <2>2
      <4> QED BY <1>1, <2>3, <4>1, ShowsAll
    <3>2. Newest(tab[t].list[c]) <= shown[c] BY <1>1, <1>3, <2>1 DEF Watches
    <3>4. Newest(tab[t].list[c]) \in Nat /\ Newest(s.list[c]) \in Nat
      <4>1. s.list[c] \in SUBSET Id BY <1>3
      <4> QED BY <1>3, <4>1, NewestIs, BoundIsNat
    <3>5. shown[c] \in Nat /\ shown'[c] \in Nat
      <4>1. Shows(c, i) BY <2>1, <2>2
      <4> QED BY <1>1, <2>3, <4>1 DEF Typed, Shows, Larger
    <3>6. Newest(s.list[c]) = i \/ Newest(s.list[c]) <= Newest(tab[t].list[c])
      BY <1>3, NewestGrows
    <3> QED BY <2>3, <3>1, <3>2, <3>4, <3>5, <3>6
  <2>6. Kept(calls) BY DEF Kept
  <2> QED BY <1>3, <2>1, <2>2, <2>4, <2>5, <2>6, MarkKeeps
<1> QED BY <1>4, <1>5

\* A frame with a cursor is taken: s is what becomes of the tab.
CursorFrame(t, s, c, i) ==
  /\ tab' = [tab EXCEPT ![t] = s] /\ UNCHANGED <<calls, blind, wish, shown, log, cursor, limit>>
  /\ \A d \in Chan : s.lastRead[d] = IF d = c THEN i ELSE tab[t].lastRead[d]

LEMMA CursorFrameKeeps ==
  ASSUME Core, NEW t \in limit.tabs, NEW c \in Chan, NEW i, c \notin blind => i <= shown[c],
         NEW s \in TabState, Alike(tab[t], s), CursorFrame(t, s, c, i), FramesKept
  PROVE  Core'
<1>1. Typed BY DEF Core
<1>2. TabStep(t, s) BY <1>1 DEF TabStep, ShownMore, Typed, CursorFrame, FramesKept
<1>3. LastReadKept(t, s) BY DEF LastReadKept, CursorFrame
<1>4. WishKept(t, s) BY <1>1 DEF WishKept, Typed, Alike, CursorFrame
<1> QED BY <1>2, <1>3, <1>4, TabKeeps

LEMMA TakeKeeps ==
  ASSUME Core, NEW t \in limit.tabs, Take(t)
  PROVE  Core'
<1>1. Typed /\ tab[t] \in TabState BY DEF Core, Typed
<1>2. PICK f : f = Head(in[t]) OBVIOUS
<1>3. in[t] # <<>> /\ in' = [in EXCEPT ![t] = Tail(in[t])] /\ UNCHANGED <<log, cursor, limit>>
  BY DEF Take, server, bounds
<1>4. /\ f \in FrameState /\ \E p \in DOMAIN in[t] : f = in[t][p]
      /\ FramesKept
  BY <1>1, <1>2, <1>3, TakenIs
<1>5. PICK c, i : c = f.chan /\ i = f.at OBVIOUS
<1>6. c \in Chan /\ i \in 0..Bound /\ (f.type = "new" => i \in Id) /\ f.type \in {"new", "read", "unread"}
  BY <1>4, <1>5, BoundIsNat DEF FrameState, Bound
<1>7. f.type # "new" /\ c \notin blind => i <= shown[c]
  BY <1>4, <1>5, <1>6 DEF Core, Honest, Within, FrameWithin
<1>8. CASE f.type = "new"
  <2>1. OnNew(t, c, i) BY <1>2, <1>5, <1>8 DEF Take
  <2> QED BY <1>3, <1>4, <1>6, <1>8, <2>1, NewKeeps
<1>9. CASE f.type = "read"
  <2>1. OnReadUpdate(t, c, i) BY <1>2, <1>5, <1>9 DEF Take
  <2>2. PICK v, s : v = Cleared(tab[t], c) /\ s = SetLastRead(v, c, i) OBVIOUS
  <2>3. v \in TabState /\ Alike(tab[t], v) /\ v.lastRead = tab[t].lastRead BY <1>1, <1>6, <2>2, ClearedIs
  <2>4. /\ s \in TabState /\ Alike(v, s)
        /\ \A d \in Chan : s.lastRead[d] = IF d = c THEN i ELSE v.lastRead[d]
    BY <1>6, <2>2, <2>3, SetLastReadIs
  <2>5. CursorFrame(t, s, c, i)
    <3>1. tab' = [tab EXCEPT ![t] = s] /\ UNCHANGED <<calls, blind, wish, shown>>
      BY <2>1, <2>2 DEF OnReadUpdate, Quiet, Unchanged
    <3> QED BY <1>3, <2>3, <2>4, <3>1 DEF CursorFrame
  <2>6. Alike(tab[t], s) BY <2>3, <2>4 DEF Alike
  <2>7. c \notin blind => i <= shown[c] BY <1>7, <1>9
  <2> QED BY <1>4, <1>6, <2>4, <2>5, <2>6, <2>7, CursorFrameKeeps
<1>10. CASE f.type = "unread"
  <2>1. OnReadUnread(t, c, i) BY <1>2, <1>5, <1>10 DEF Take
  <2>2. PICK n, v, s :
          n = CountAfter(tab[t], c, i) /\ v = SetLastRead(tab[t], c, i) /\ s = SetUnread(v, c, n)
    OBVIOUS
  <2>3. n \in Nat BY <1>1, <1>6, <2>2, CountAfterIs
  <2>4. /\ v \in TabState /\ Alike(tab[t], v)
        /\ \A d \in Chan : v.lastRead[d] = IF d = c THEN i ELSE tab[t].lastRead[d]
    BY <1>1, <1>6, <2>2, SetLastReadIs
  <2>5. s \in TabState /\ Alike(v, s) /\ s.lastRead = v.lastRead BY <1>6, <2>2, <2>3, <2>4, SetUnreadIs
  <2>6. CursorFrame(t, s, c, i)
    <3>1. tab' = [tab EXCEPT ![t] = s] /\ UNCHANGED <<calls, blind, wish, shown>>
      BY <2>1, <2>2 DEF OnReadUnread, Quiet, Unchanged
    <3> QED BY <1>3, <2>4, <2>5, <3>1 DEF CursorFrame
  <2>7. Alike(tab[t], s) BY <2>4, <2>5 DEF Alike
  <2>8. c \notin blind => i <= shown[c] BY <1>7, <1>10
  <2> QED BY <1>4, <1>6, <2>5, <2>6, <2>7, <2>8, CursorFrameKeeps
<1> QED BY <1>6, <1>8, <1>9, <1>10

LEMMA DropKeeps ==
  ASSUME Core, NEW t \in limit.tabs, NEW told \in BOOLEAN, Drop(t, told)
  PROVE  Core'
<1>1. Typed /\ tab[t] \in TabState BY DEF Core, Typed
<1>2. PICK l, s : /\ l = (IF told THEN "down" ELSE "zombie")
                  /\ s = [tab[t] EXCEPT !.link = l, !.wasOffline = told]
  OBVIOUS
<1>3. s \in TabState /\ Alike(tab[t], s) /\ s.lastRead = tab[t].lastRead
  BY <1>1, <1>2 DEF TabState, Alike
<1>4. tab' = [tab EXCEPT ![t] = s]
  <2>1. tab' = [tab EXCEPT ![t].link = l, ![t].wasOffline = told] BY <1>2 DEF Drop
  <2> QED BY <1>1, <1>2, <2>1 DEF Typed
<1>5. /\ in' = [in EXCEPT ![t] = <<>>]
      /\ UNCHANGED <<log, cursor, limit, calls, blind, wish, shown>>
  BY DEF Drop, server, Unchanged
<1>6. FramesKept
  <2>1. in \in [limit.tabs -> Seq(FrameState)] /\ <<>> \in Seq(FrameState) /\ DOMAIN <<>> = {}
    BY <1>1 DEF Typed
  <2> QED BY <1>5, <2>1 DEF FramesKept
<1>7. TabStep(t, s) BY <1>1, <1>4, <1>5, <1>6 DEF TabStep, ShownMore, Typed
<1>8. LastReadKept(t, s) BY <1>3 DEF LastReadKept
<1>9. WishKept(t, s) BY <1>1, <1>3, <1>5 DEF WishKept, Typed, Alike
<1> QED BY <1>3, <1>7, <1>8, <1>9, TabKeeps

LEMMA ConnectKeeps ==
  ASSUME Core, NEW t \in limit.tabs, Connect(t)
  PROVE  Core'
<1>1. Typed /\ tab[t] \in TabState BY DEF Core, Typed
<1>2. PICK s : s = [tab[t] EXCEPT !.link = "up", !.wasOffline = FALSE] OBVIOUS
<1>3. s \in TabState /\ Alike(tab[t], s) /\ s.lastRead = tab[t].lastRead
  BY <1>1, <1>2 DEF TabState, Alike
<1>4. tab' = [tab EXCEPT ![t] = s]
  <2>1. tab' = [tab EXCEPT ![t].link = "up", ![t].wasOffline = FALSE] BY DEF Connect
  <2> QED BY <1>1, <1>2, <2>1 DEF Typed
<1>5. UNCHANGED <<log, cursor, limit, in, blind, wish, shown>>
  BY DEF Connect, server, bounds, ghosts
<1>6. PICK T, op, c, at, m :
        /\ T = limit.tabs /\ op = "summary" /\ c = tab[t].active /\ at = 0 /\ m = Asked(calls, t, op, c, at)
  OBVIOUS
<1>7. CallTyped(m, T) /\ Blank(m) /\ m.op = op
  <2>1. op \in Op /\ op # "unread" /\ c \in Chan /\ at \in 0..Bound /\ t \in T
    BY <1>1, <1>6, BoundIsNat DEF Op, TabState
  <2>2. /\ t \in T /\ op \in Op /\ c \in Chan /\ at \in 0..Bound /\ (op # "unread" \/ at # 0)
        /\ m = Asked(calls, t, op, c, at)
    BY <1>6, <2>1
  <2>3. NewCall(Asked(calls, t, op, c, at), T, t, op, c, at) BY <2>2, AskedIs
  <2> QED BY <2>2, <2>3 DEF NewCall
<1>8. calls' = calls \/ calls' = calls \cup {m} BY <1>6 DEF Connect
<1>9. Fine(m)
  <2>1. Grows BY <1>1, <1>5, NothingShown
  <2> QED BY <1>1, <1>6, <1>7, <2>1, BlankIsFine
<1>10. /\ \A j \in calls' : CallTyped(j, limit.tabs) /\ (j \in calls \/ Fine(j))
       /\ \A j \in calls \ calls' : j.served # "no"
       /\ \A j \in calls' \ calls : j = m
  BY <1>1, <1>6, <1>7, <1>8, <1>9 DEF Typed
<1>11. TabStep(t, s) BY <1>1, <1>4, <1>5, <1>10, SameFrames DEF TabStep, ShownMore
<1>12. LastReadKept(t, s) BY <1>3 DEF LastReadKept
<1>13. WishKept(t, s)
  <2>1. \A j \in calls' \ calls : \A d \in Chan : ~Marking(j, d) BY <1>6, <1>7, <1>10 DEF Marking
  <2> QED BY <1>1, <1>3, <1>5, <2>1 DEF WishKept, Typed, Alike
<1> QED BY <1>3, <1>11, <1>12, <1>13, TabKeeps

-----------------------------------------------------------------------------
(***************************************************************************)
(* The cursor is honest.                                                   *)
(***************************************************************************)
corevars == <<limit, log, cursor, shown, blind, wish, tab, in, calls>>

LEMMA SameCore ==
  ASSUME Core, UNCHANGED corevars
  PROVE  Core'
<1> USE DEF corevars
<1>1. Typed' BY DEF Core, Typed
<1>2. Honest' BY DEF Core, Honest, Within
<1>3. Watched' BY DEF Core, Watched, Watches
<1>4. Wished' BY DEF Core, Wished, Stands, Marking
<1> QED BY <1>1, <1>2, <1>3, <1>4 DEF Core

LEMMA CoreInit == AlertsInit => Core /\ Routed
<1> SUFFICES ASSUME AlertsInit PROVE Core /\ Routed OBVIOUS
<1>1. Init /\ routes = {} BY DEF AlertsInit
<1>2. /\ limit \in Limits /\ limit.late \subseteq limit.tabs
  BY <1>1, LimitsAssumption DEF Init
<1>3. /\ log = [c \in Chan |-> 1] /\ cursor = [c \in Chan |-> 1] /\ shown = [c \in Chan |-> 1]
      /\ blind = {} /\ wish = [c \in Chan |-> None] /\ in = [t \in limit.tabs |-> <<>>]
  BY <1>1 DEF Init
<1>4. tab = [t \in limit.tabs |->
       [link |-> IF t \in limit.late THEN "start" ELSE "up", wasOffline |-> FALSE, active |-> First,
        focused |-> FALSE, pane |-> IF t \in limit.late THEN "loading" ELSE "shown",
        list |-> [c \in Chan |-> IF c = First /\ t \notin limit.late THEN {1} ELSE {}],
        unread |-> [c \in Chan |-> 0], lastRead |-> [c \in Chan |-> 1],
        marked |-> [c \in Chan |-> 0], manual |-> {}]]
  BY <1>1 DEF Init
<1>5. First \in Chan BY ReadAssumption
<1>6. ASSUME NEW t \in limit.tabs
      PROVE  tab[t] \in TabState /\ tab[t].focused = FALSE /\ \A c \in Chan : tab[t].lastRead[c] = 1
  <2>1. PICK l, p, L :
          /\ l = (IF t \in limit.late THEN "start" ELSE "up")
          /\ p = (IF t \in limit.late THEN "loading" ELSE "shown")
          /\ L = [c \in Chan |-> IF c = First /\ t \notin limit.late THEN {1} ELSE {}]
    OBVIOUS
  <2>2. tab[t] = [link |-> l, wasOffline |-> FALSE, active |-> First, focused |-> FALSE, pane |-> p,
                  list |-> L, unread |-> [c \in Chan |-> 0], lastRead |-> [c \in Chan |-> 1],
                  marked |-> [c \in Chan |-> 0], manual |-> {}]
    BY <1>4, <2>1
  <2>3. L \in [Chan -> SUBSET Id] BY <2>1, BoundIsNat DEF Bound
  <2>4. [c \in Chan |-> 1] \in [Chan -> 0..MaxPosts + 1] /\ [c \in Chan |-> 0] \in [Chan -> 0..MaxPosts + 1]
    BY BoundIsNat DEF Bound
  <2>5. tab[t] \in TabState BY <1>5, <2>1, <2>2, <2>3, <2>4 DEF TabState
  <2> QED BY <2>2, <2>5
<1>7. ASSUME NEW k \in calls
      PROVE  CallTyped(k, limit.tabs) /\ Blank(k) /\ k.op = "summary"
  <2>1. PICK T, t, op, at, x : /\ t \in limit.late /\ T = limit.tabs /\ op = "summary" /\ at = 0
                               /\ x = Asked({}, t, op, First, at) /\ k = [x EXCEPT !.n = 1]
    BY <1>1 DEF Init
  <2>2. CallTyped(x, T) /\ Blank(x) /\ x.op = op
    <3>1. op \in Op /\ op # "unread" /\ at \in 0..Bound /\ t \in T BY <1>2, <2>1, BoundIsNat DEF Op
    <3>2. /\ t \in T /\ op \in Op /\ First \in Chan /\ at \in 0..Bound /\ (op # "unread" \/ at # 0)
          /\ x = Asked({}, t, op, First, at)
      BY <1>5, <2>1, <3>1
    <3>3. NewCall(Asked({}, t, op, First, at), T, t, op, First, at) BY <3>2, AskedIs
    <3> QED BY <3>2, <3>3 DEF NewCall
  <2>3. PICK n, u, o, c, a, sv, page :
          x = [n |-> n, t |-> u, op |-> o, chan |-> c, at |-> a, served |-> sv, page |-> page]
    BY <2>2 DEF CallTyped, CallShape
  <2>4. k = [n |-> 1, t |-> u, op |-> o, chan |-> c, at |-> a, served |-> sv, page |-> page]
    BY <2>1, <2>3
  <2>5. /\ CallShape(k) /\ k.t = x.t /\ k.op = x.op /\ k.chan = x.chan /\ k.at = x.at
        /\ k.served = x.served /\ k.page = x.page
    BY <2>3, <2>4 DEF CallShape
  <2> QED BY <2>1, <2>2, <2>5 DEF CallTyped, Blank
<1>8. Typed
  <2>1. log \in [Chan -> 1..(MaxPosts + 1)] /\ cursor \in [Chan -> 0..(MaxPosts + 1)] /\ shown \in [Chan -> Nat]
    BY <1>3, BoundIsNat DEF Bound
  <2>2. wish \in [Chan -> [i : Nat, t : SUBSET Tab]] BY <1>3, NoneIs
  <2>3. in \in [limit.tabs -> Seq(FrameState)]
    <3>1. <<>> \in Seq(FrameState) OBVIOUS
    <3> QED BY <1>3, <3>1
  <2>4. tab \in [limit.tabs -> TabState]
    <3>1. tab = [t \in limit.tabs |-> tab[t]] BY <1>4
    <3> QED BY <1>6, <3>1
  <2> QED BY <1>2, <1>7, <2>1, <2>2, <2>3, <2>4 DEF Typed
<1>9. Honest
  <2> SUFFICES ASSUME NEW c \in Chan PROVE Within(c, shown[c]) BY DEF Honest
  <2>1. cursor[c] = 1 /\ shown[c] = 1 BY <1>3
  <2>2. \A t \in limit.tabs : tab[t].lastRead[c] = 1 BY <1>6
  <2>3. \A t \in limit.tabs : DOMAIN in[t] = {}
    <3>1. DOMAIN <<>> = {} OBVIOUS
    <3> QED BY <1>3, <3>1
  <2>4. \A k \in calls : CallWithin(k, c, 1) BY <1>7 DEF CallWithin, Blank
  <2> QED BY <2>1, <2>2, <2>3, <2>4 DEF Within
<1>10. Watched BY <1>6 DEF Watched, Watches
<1>11. Wished BY <1>3, NoneIs DEF Wished
<1>12. Routed BY <1>1 DEF Routed
<1> QED BY <1>8, <1>9, <1>10, <1>11, <1>12 DEF Core

\* A step of ReadState, alone or with what Alerts makes of it.
LEMMA ReadSteps ==
  ASSUME Core,
         \/ \E t \in limit.tabs : \/ UserNext(t) \/ Take(t) \/ Connect(t)
                                  \/ \E told \in BOOLEAN : Drop(t, told)
                                  \/ \E c \in Chan : Jump(t, c)
         \/ \E k \in calls : CallNext(k)
         \/ PostNext
  PROVE  Core'
<1>1. ASSUME NEW t \in limit.tabs, UserNext(t) PROVE Core'
  <2>1. CASE Focus(t) BY <2>1, FocusKeeps
  <2>2. CASE Blur(t) BY <2>2, BlurKeeps
  <2>3. CASE \E c \in Chan : SelectChannel(t, c) BY <2>3, SelectKeeps
  <2>4. CASE \E c \in Chan : JumpToMessage(t, c) BY <2>4, JumpKeeps DEF JumpToMessage
  <2>5. CASE \E i \in Id : ToggleRead(t, i) BY <2>5, ToggleReadKeeps
  <2>6. CASE \E i \in Id : ToggleUnread(t, i) BY <2>6, ToggleUnreadKeeps
  <2> QED BY <1>1, <2>1, <2>2, <2>3, <2>4, <2>5, <2>6 DEF UserNext
<1>2. ASSUME NEW k \in calls, CallNext(k) PROVE Core'
  <2>1. CASE MarkRead(k) BY <2>1, MarkReadKeeps
  <2>2. CASE MarkUnread(k) BY <2>2, MarkUnreadKeeps
  <2>3. CASE ServeQuery(k) BY <2>3, QueryKeeps
  <2>4. CASE Fail(k) BY <2>4, FailKeeps
  <2>5. CASE AnswerMark(k) BY <2>5, AnswerMarkKeeps
  <2>6. CASE AnswerLoad(k) BY <2>6, AnswerLoadKeeps
  <2>7. CASE \E near \in BOOLEAN : AnswerSummary(k, near) BY <2>7, AnswerSummaryKeeps
  <2> QED BY <1>2, <2>1, <2>2, <2>3, <2>4, <2>5, <2>6, <2>7 DEF CallNext
<1>3. ASSUME PostNext PROVE Core' BY <1>3, PostKeeps DEF PostNext
<1> QED BY <1>1, <1>2, <1>3, TakeKeeps, ConnectKeeps, DropKeeps, JumpKeeps

\* Everything else that Alerts does leaves the cursors and the tabs alone.
LEMMA AlertSteps ==
  ASSUME AlertsNext, Core, Routed
  PROVE  Core' /\ Routed'
<1> DEFINE Read ==
      \/ \E t \in limit.tabs : \/ UserNext(t) \/ Take(t) \/ Connect(t)
                               \/ \E told \in BOOLEAN : Drop(t, told)
                               \/ \E c \in Chan : Jump(t, c)
      \/ \E k \in calls : CallNext(k)
      \/ PostNext
<1>1. Read => Core' BY ReadSteps
<1>2. UNCHANGED corevars => Core' BY SameCore
<1>3. limit' = limit /\ routes' \subseteq routes => Routed' BY DEF Routed
<1>4. SUFFICES (Read \/ UNCHANGED corevars) /\ Routed'
  BY <1>1, <1>2
<1> HIDE DEF Read
<1>5. ASSUME NEW t \in limit.tabs, TabAlerts(t) PROVE (Read \/ UNCHANGED corevars) /\ Routed'
  <2>1. CASE UserNext(t) /\ UNCHANGED alertvars
    <3>1. limit' = limit
      BY <2>1 DEF UserNext, Focus, Blur, SelectChannel, JumpToMessage, Jump, ToggleRead, ToggleUnread
    <3>2. routes' = routes BY <2>1 DEF alertvars, clicks
    <3> QED BY <1>3, <2>1, <3>1, <3>2 DEF Read
  <2>2. CASE TakeAndAlert(t)
    <3>1. Take(t) /\ limit' = limit /\ routes' = routes BY <2>2 DEF TakeAndAlert, Take, clicks, bounds
    <3> QED BY <1>3, <3>1 DEF Read
  <2>3. CASE DropAndMiss(t)
    <3>1. /\ \E told \in BOOLEAN : Drop(t, told)
          /\ limit' = limit /\ routes' = routes
      BY <2>3 DEF DropAndMiss, Drop, clicks
    <3> QED BY <1>3, <3>1 DEF Read
  <2>4. CASE ConnectAndRenew(t)
    <3>1. Connect(t) /\ limit' = limit /\ routes' = routes
      BY <2>4 DEF ConnectAndRenew, Connect, clicks, bounds
    <3> QED BY <1>3, <3>1 DEF Read
  <2>5. CASE Unregister(t)
    <3>1. UNCHANGED corevars /\ routes' = routes
      BY <2>5 DEF Unregister, vars, corevars, server, bounds, ghosts, clicks
    <3> QED BY <1>3, <3>1 DEF corevars
  <2>6. CASE \E want \in BOOLEAN : SetEnabled(t, want)
    <3>1. UNCHANGED corevars /\ routes' = routes
      BY <2>6 DEF SetEnabled, corevars, server, ghosts, clicks
    <3> QED BY <1>3, <3>1 DEF corevars
  <2>7. CASE \E c \in Chan : NotificationClick(c, t)
    <3>1. PICK c \in Chan : NotificationClick(c, t) BY <2>7
    <3>2. UNCHANGED corevars BY <3>1 DEF NotificationClick, corevars, server, ghosts
    <3>3. \A r \in routes' : r \in routes \/ (r.t = t /\ r.ping[1] = c)
      BY <3>1 DEF NotificationClick
    <3>4. Routed' BY <3>2, <3>3 DEF Routed, corevars
    <3> QED BY <3>2, <3>4
  <2> QED BY <1>5, <2>1, <2>2, <2>3, <2>4, <2>5, <2>6, <2>7 DEF TabAlerts
<1>6. ASSUME NEW k \in calls, CallNext(k), UNCHANGED alertvars PROVE (Read \/ UNCHANGED corevars) /\ Routed'
  <2>1. limit' = limit
    BY <1>6 DEF CallNext, MarkRead, MarkUnread, ServeQuery, Fail, AnswerMark, AnswerLoad, AnswerSummary, bounds
  <2>2. routes' = routes BY <1>6 DEF alertvars, clicks
  <2> QED BY <1>3, <1>6, <2>1, <2>2 DEF Read
<1>7. ASSUME NEW x \in chores, ChoreNext(x) PROVE (Read \/ UNCHANGED corevars) /\ Routed'
  <2>1. UNCHANGED corevars /\ routes' = routes
    BY <1>7 DEF ChoreNext, AnswerPrompt, EnablePush, DisablePush, PushSubscriptionChange, ChoreFails,
       vars, corevars, server, bounds, ghosts, clicks
  <2> QED BY <1>3, <2>1 DEF corevars
<1>8. ASSUME PostPings PROVE (Read \/ UNCHANGED corevars) /\ Routed'
  <2>1. PostNext /\ limit' = limit /\ routes' = routes
    BY <1>8 DEF PostPings, PostNext, Post, bounds, clicks
  <2> QED BY <1>3, <2>1 DEF Read
<1>9. ASSUME WorkerNext PROVE (Read \/ UNCHANGED corevars) /\ Routed'
  <2>1. CASE Rotate
    <3>1. UNCHANGED corevars /\ routes' = routes BY <2>1 DEF Rotate, corevars, server, ghosts, clicks
    <3> QED BY <1>3, <3>1 DEF corevars
  <2>2. CASE \E p \in jobs : SendPushNotifications(p)
    <3>1. UNCHANGED corevars /\ routes' = routes
      BY <2>2 DEF SendPushNotifications, vars, corevars, server, bounds, ghosts, clicks
    <3> QED BY <1>3, <3>1 DEF corevars
  <2>3. CASE \E q \in pushes : PushArrives(q)
    <3>1. UNCHANGED corevars /\ routes' = routes
      BY <2>3 DEF PushArrives, vars, corevars, server, bounds, ghosts, clicks
    <3> QED BY <1>3, <3>1 DEF corevars
  <2>4. CASE \E k \in checks, fails \in BOOLEAN : MaybeShowAsks(k, fails)
    <3>1. UNCHANGED corevars /\ routes' = routes
      BY <2>4 DEF MaybeShowAsks, vars, corevars, server, bounds, ghosts, clicks
    <3> QED BY <1>3, <3>1 DEF corevars
  <2>5. CASE \E k \in checks : MaybeShow(k)
    <3>1. UNCHANGED corevars /\ routes' = routes
      BY <2>5 DEF MaybeShow, corevars, server, bounds, clicks
    <3> QED BY <1>3, <3>1 DEF corevars
  <2>6. CASE \E r \in routes : RouteToPermalink(r)
    <3>1. PICK r \in routes : RouteToPermalink(r) BY <2>6
    <3>2. r.t \in limit.tabs /\ r.ping[1] \in Chan BY DEF Routed
    <3>3. UNCHANGED vars \/ Jump(r.t, r.ping[1]) BY <3>1 DEF RouteToPermalink
    <3>4. limit' = limit BY <3>3 DEF vars, bounds, Jump
    <3>5. UNCHANGED vars => UNCHANGED corevars BY DEF vars, corevars, server, bounds, ghosts
    <3>6. routes' \subseteq routes BY <3>1 DEF RouteToPermalink
    <3> QED BY <1>3, <3>2, <3>3, <3>4, <3>5, <3>6 DEF Read
  <2> QED BY <1>9, <2>1, <2>2, <2>3, <2>4, <2>5, <2>6 DEF WorkerNext
<1> QED BY <1>5, <1>6, <1>7, <1>8, <1>9 DEF AlertsNext

LEMMA HonestCursor == Core => CursorHonest
<1> SUFFICES ASSUME Core PROVE CursorHonest OBVIOUS
<1>1. ReadWasShown BY DEF Core, Honest, Within, ReadWasShown
<1>2. UnreadKept
  <2> SUFFICES ASSUME NEW c \in Chan, wish[c].i # 0,
                      ~(\E k \in calls : k.op = "unread" /\ k.chan = c /\ k.served = "no")
               PROVE  cursor[c] < wish[c].i
    BY DEF UnreadKept
  <2>1. Stands(c) BY DEF Core, Wished
  <2> QED BY <2>1 DEF Stands, Marking
<1> QED BY <1>1, <1>2 DEF CursorHonest

\* Whatever the user, the server and the network do, the cursor in the store
\* never passes a message that was not shown, but for the two named races, and
\* a message marked unread stays unread in the tab it was marked in.
\* (markActiveChannelRead, toggleMessageRead, MarkRead, MarkUnread)
THEOREM TheCursorIsHonest == AlertsSpec => []CursorHonest
<1>1. AlertsInit => Core /\ Routed BY CoreInit
<1>2. Core /\ Routed /\ [AlertsNext]_allvars => (Core /\ Routed)'
  <2> SUFFICES ASSUME Core, Routed, [AlertsNext]_allvars PROVE (Core /\ Routed)' OBVIOUS
  <2>1. CASE AlertsNext BY <2>1, AlertSteps
  <2>2. CASE UNCHANGED allvars
    <3>1. UNCHANGED corevars BY <2>2 DEF allvars, vars, corevars, server, bounds, ghosts
    <3>2. Routed' BY <2>2, <3>1 DEF Routed, corevars, allvars, alertvars, clicks
    <3> QED BY <3>1, <3>2, SameCore
  <2> QED BY <2>1, <2>2
<1>3. Core => CursorHonest BY HonestCursor
<1> QED BY <1>1, <1>2, <1>3, PTL DEF AlertsSpec

-----------------------------------------------------------------------------
(***************************************************************************)
(* Pings reach the user.                                                   *)
(***************************************************************************)
\* Nothing is shown, loaded or announced that has not been posted, and a ping
\* that was shown was noticed.
Posted(s, n) == \A c \in Chan : s.list[c] \subseteq 1..n[c]
PageWithin(k, n) == k.op \in {"load", "jump", "reload"} => \A c \in Chan : k.page[c][1] <= n[c]
Logged ==
  /\ \A c \in Chan : shown[c] <= log[c]
  /\ \A t \in limit.tabs : Posted(tab[t], log)
  /\ \A t \in limit.tabs : \A q \in DOMAIN in[t] : in[t][q].type = "new" => in[t][q].at <= log[in[t][q].chan]
  /\ \A k \in calls : PageWithin(k, log)
  /\ \A p \in pinging : \E c \in Chan : \E i \in 1..log[c] : p = <<c, i>>
  /\ \A p \in pinging : p[2] <= shown[p[1]] => p \in noticed

\* A step of ReadState other than a post.
ReadStep ==
  /\ UNCHANGED <<limit, log, pinging>> /\ blind \subseteq blind'
  /\ \/ shown' = shown /\ noticed \subseteq noticed'
     \/ \E c \in Chan, i \in Nat : i <= log[c] /\ Shows(c, i)
  /\ \A t \in limit.tabs : tab'[t].list = tab[t].list \/ Posted(tab'[t], log)
  /\ \A t \in limit.tabs : \A q \in DOMAIN in'[t] :
       (\E p \in DOMAIN in[t] : in'[t][q] = in[t][p]) \/ in'[t][q].type # "new"
  /\ \A k \in calls' : k \in calls \/ Blank(k) \/ PageWithin(k, log)
\* No frame is lost.
FramesStay ==
  \A t \in limit.tabs : \A q \in DOMAIN in[t] : \E r \in DOMAIN in'[t] : in'[t][r] = in[t][q]

LEMMA LoggedKeeps ==
  ASSUME Typed, Logged, ReadStep
  PROVE  Logged' /\ noticed \subseteq noticed'
<1>1. limit' = limit /\ log' = log /\ pinging' = pinging BY DEF ReadStep
<1>2. \A c \in Chan : shown[c] \in Nat /\ log[c] \in Nat BY BoundIsNat DEF Typed, Bound
<1>3. noticed \subseteq noticed' /\ \A c \in Chan : shown'[c] <= log[c]
  <2>1. CASE shown' = shown /\ noticed \subseteq noticed' BY <2>1 DEF Logged
  <2>2. ASSUME NEW c \in Chan, NEW i \in Nat, i <= log[c], Shows(c, i)
        PROVE  noticed \subseteq noticed' /\ \A d \in Chan : shown'[d] <= log[d]
    BY <1>2, <2>2 DEF Logged, Shows, Larger, Typed
  <2> QED BY <2>1, <2>2 DEF ReadStep
<1>4. \A t \in limit.tabs : Posted(tab'[t], log) BY DEF ReadStep, Logged, Posted
<1>5. \A t \in limit.tabs : \A q \in DOMAIN in'[t] : in'[t][q].type = "new" => in'[t][q].at <= log[in'[t][q].chan]
  BY DEF ReadStep, Logged
<1>6. \A k \in calls' : PageWithin(k, log)
  <2> SUFFICES ASSUME NEW k \in calls', Blank(k) PROVE PageWithin(k, log) BY DEF ReadStep, Logged
  <2>1. \A c \in Chan : k.page[c][1] = 0 BY DEF Blank
  <2> QED BY <1>2, <2>1 DEF PageWithin
<1>7. ASSUME NEW p \in pinging, p[2] <= shown'[p[1]] PROVE p \in noticed'
  <2>1. PICK c \in Chan : \E i \in 1..log[c] : p = <<c, i>> BY DEF Logged
  <2>1a. PICK i \in 1..log[c] : p = <<c, i>> BY <2>1
  <2>2. i \in Nat /\ p[1] = c /\ p[2] = i BY <1>2, <2>1a
  <2>3. CASE i <= shown[c] BY <1>3, <2>2, <2>3 DEF Logged
  <2>4. CASE ~(i <= shown[c])
    <3>1. PICK d \in Chan, j \in Nat : Shows(d, j) BY <1>7, <2>2, <2>4 DEF ReadStep
    <3>2. shown' = [shown EXCEPT ![d] = Larger(shown[d], j)]
      BY <3>1 DEF Shows
    <3>3. d = c /\ i <= j
      BY <1>2, <1>7, <2>2, <2>4, <3>2 DEF Larger, Typed
    <3> QED BY <2>2, <3>1, <3>3 DEF Shows
  <2> QED BY <2>3, <2>4
<1> QED BY <1>1, <1>3, <1>4, <1>5, <1>6, <1>7 DEF Logged

LEMMA NewestPosted ==
  ASSUME Typed, NEW s \in TabState, Posted(s, log), NEW c \in Chan
  PROVE  Newest(s.list[c]) \in Nat /\ Newest(s.list[c]) <= log[c]
<1>1. s.list[c] \in SUBSET Id /\ log[c] \in Nat /\ s.list[c] \subseteq 1..log[c]
  BY BoundIsNat DEF Typed, TabState, Posted, Bound
<1>2. Newest(s.list[c]) \in 0..Bound /\ (s.list[c] = {} => Newest(s.list[c]) = 0)
      /\ (s.list[c] # {} => Newest(s.list[c]) \in s.list[c])
  BY <1>1, NewestIs
<1> QED BY <1>1, <1>2, BoundIsNat

\* What a tab does, s being what becomes of it before the trailing mark.
LEMMA MarkLogged ==
  ASSUME Typed, Logged, NEW t \in limit.tabs, NEW s \in TabState, NEW K, NEW S, NEW B \in BOOLEAN,
         MarkActiveChannelRead(t, s, K, S, B) \/ Quiet(t, s, K, S),
         \A k \in K : k \in calls \/ Blank(k)
  PROVE  /\ \A r \in limit.tabs : tab'[r].list = IF r = t THEN s.list ELSE tab[r].list
         /\ \A k \in calls' : k \in calls \/ Blank(k)
         /\ blind \subseteq blind'
<1>1. tab \in [limit.tabs -> TabState] BY DEF Typed
<1>2. CASE Quiet(t, s, K, S) BY <1>1, <1>2 DEF Quiet
<1>3. CASE MarkActiveChannelRead(t, s, K, S, B)
  <2>1. PICK u \in TabState : tab' = [tab EXCEPT ![t] = u] /\ Alike(s, u)
    BY <1>3, MarkDoes
  <2>2. ~Posts(s) => calls' = K /\ blind' = blind BY <1>3, MarkDoes
  <2>3. Posts(s) => \E k : calls' = K \cup {k} /\ Blank(k) BY <1>3, MarkDoes
  <2>4. blind \subseteq blind' BY <1>3 DEF MarkActiveChannelRead
  <2> QED BY <1>1, <2>1, <2>2, <2>3, <2>4 DEF Alike
<1> QED BY <1>2, <1>3

\* The parts of ReadStep for a step of tab t that ends in a mark or none.
LEMMA TabLogged ==
  ASSUME Typed, Logged, NEW t \in limit.tabs, NEW s \in TabState, NEW K, NEW S, NEW B \in BOOLEAN,
         MarkActiveChannelRead(t, s, K, S, B) \/ Quiet(t, s, K, S),
         \A k \in K : k \in calls \/ Blank(k),
         s.list = tab[t].list \/ Posted(s, log), UNCHANGED <<limit, log, pinging>>,
         \A r \in limit.tabs : \A q \in DOMAIN in'[r] : \E p \in DOMAIN in[r] : in'[r][q] = in[r][p],
         Unchanged \/ \E c \in Chan, i \in Nat : i <= log[c] /\ Shows(c, i)
  PROVE  ReadStep
<1>1. /\ \A r \in limit.tabs : tab'[r].list = IF r = t THEN s.list ELSE tab[r].list
      /\ \A k \in calls' : k \in calls \/ Blank(k)
      /\ blind \subseteq blind'
  BY MarkLogged
<1>2. \A r \in limit.tabs : tab'[r].list = tab[r].list \/ Posted(tab'[r], log)
  BY <1>1 DEF Posted
<1>3. \/ shown' = shown /\ noticed \subseteq noticed'
      \/ \E c \in Chan, i \in Nat : i <= log[c] /\ Shows(c, i)
  BY DEF Unchanged
<1> QED BY <1>1, <1>2, <1>3 DEF ReadStep

\* A step that only makes calls and shows what is loaded.
LEMMA MadeLogged ==
  ASSUME Typed, NEW t \in limit.tabs, NEW s, s.list = tab[t].list, tab' = [tab EXCEPT ![t] = s],
         NEW op \in Op, NEW c \in Chan, NEW at \in 0..Bound, op # "unread" \/ at # 0,
         calls' = calls \cup {Asked(calls, t, op, c, at)},
         UNCHANGED <<limit, log, pinging, blind, in>>,
         Unchanged \/ \E d \in Chan, i \in Nat : i <= log[d] /\ Shows(d, i)
  PROVE  ReadStep
<1>1. PICK T : T = limit.tabs OBVIOUS
<1>2. NewCall(Asked(calls, t, op, c, at), T, t, op, c, at) BY <1>1, AskedIs
<1>3. \A k \in calls' : k \in calls \/ Blank(k) BY <1>2 DEF NewCall
<1>4. \A r \in limit.tabs : tab'[r].list = tab[r].list BY DEF Typed
<1>5. \/ shown' = shown /\ noticed \subseteq noticed'
      \/ \E d \in Chan, i \in Nat : i <= log[d] /\ Shows(d, i)
  BY DEF Unchanged
<1> QED BY <1>3, <1>4, <1>5 DEF ReadStep

LEMMA JumpLogged ==
  ASSUME Typed, Logged, NEW t \in limit.tabs, NEW c \in Chan, Jump(t, c)
  PROVE  ReadStep /\ in' = in
<1>1. tab[t] \in TabState /\ Posted(tab[t], log) BY DEF Typed, Logged
<1>2. PICK v, w, s : /\ v = Cleared(tab[t], c)
                     /\ w = IF c = tab[t].active THEN tab[t] ELSE [v EXCEPT !.active = c, !.pane = "loading"]
                     /\ s = [w EXCEPT !.focused = TRUE]
  OBVIOUS
<1>3. v \in TabState /\ Alike(tab[t], v) BY <1>1, <1>2, ClearedIs
<1>4. w \in TabState /\ w.list = tab[t].list
  <2>1. CASE c = tab[t].active BY <1>1, <1>2, <2>1
  <2>2. CASE c # tab[t].active
    <3>1. w = [v EXCEPT !.active = c, !.pane = "loading"] BY <1>2, <2>2
    <3> QED BY <1>3, <3>1 DEF TabState, Alike
  <2> QED BY <2>1, <2>2
<1>5. s.list = tab[t].list BY <1>2, <1>4 DEF TabState
<1>6. /\ tab' = [tab EXCEPT ![t] = s] /\ UNCHANGED <<limit, log, pinging, blind, in>>
      /\ calls' = calls \cup {Asked(calls, t, "jump", c, 0)}
      /\ IF w.pane = "shown" THEN Shows(c, Newest(w.list[c])) ELSE Unchanged
  BY <1>2 DEF Jump, server
<1>7. Newest(w.list[c]) \in Nat /\ Newest(w.list[c]) <= log[c]
  BY <1>1, <1>4, NewestPosted DEF Posted
<1>8. "jump" \in Op /\ "jump" # "unread" /\ 0 \in 0..Bound BY BoundIsNat DEF Op
<1>9. Unchanged \/ \E d \in Chan, i \in Nat : i <= log[d] /\ Shows(d, i) BY <1>6, <1>7
<1>10. PICK op, at : op = "jump" /\ at = 0 OBVIOUS
<1>11. /\ op \in Op /\ at \in 0..Bound /\ (op # "unread" \/ at # 0)
       /\ calls' = calls \cup {Asked(calls, t, op, c, at)}
  BY <1>6, <1>8, <1>10
<1>12. ReadStep BY <1>5, <1>6, <1>9, <1>11, MadeLogged
<1> QED BY <1>6, <1>12

LEMMA UserLogged ==
  ASSUME Typed, Logged, NEW t \in limit.tabs, UserNext(t)
  PROVE  ReadStep /\ in' = in
<1>1. tab[t] \in TabState /\ Posted(tab[t], log) /\ tab \in [limit.tabs -> TabState] BY DEF Typed, Logged
<1>2. CASE Focus(t)
  <2>1. PICK s, K, S, B : s = [tab[t] EXCEPT !.focused = TRUE] /\ K = calls /\ S = strayed /\ B = FALSE OBVIOUS
  <2>2. s \in TabState /\ s.list = tab[t].list /\ s.active \in Chan /\ Posted(s, log) BY <1>1, <2>1 DEF TabState, Posted
  <2>3. /\ MarkActiveChannelRead(t, s, K, S, B) /\ UNCHANGED <<limit, log, pinging, in>>
        /\ IF s.pane = "shown" THEN Shows(s.active, Newest(s.list[s.active])) ELSE Unchanged
    BY <1>2, <2>1 DEF Focus, server
  <2>4. Newest(s.list[s.active]) \in Nat /\ Newest(s.list[s.active]) <= log[s.active]
    BY <2>2, NewestPosted
  <2>5. Unchanged \/ \E c \in Chan, i \in Nat : i <= log[c] /\ Shows(c, i) BY <2>2, <2>3, <2>4
  <2>6. \A k \in K : k \in calls \/ Blank(k) BY <2>1
  <2>7. B \in BOOLEAN BY <2>1
  <2>8. \A r \in limit.tabs : \A q \in DOMAIN in'[r] : \E p \in DOMAIN in[r] : in'[r][q] = in[r][p]
    BY <2>3
  <2> QED BY <2>2, <2>3, <2>5, <2>6, <2>7, <2>8, TabLogged
<1>3. CASE Blur(t)
  <2>1. PICK s : s = [tab[t] EXCEPT !.focused = FALSE] OBVIOUS
  <2>2. s.list = tab[t].list BY <1>1, <2>1 DEF TabState
  <2>3. /\ tab' = [tab EXCEPT ![t] = s] /\ calls' = calls /\ UNCHANGED <<limit, log, pinging, in, blind>>
        /\ shown' = shown /\ noticed' = noticed
    BY <1>3, <2>1 DEF Blur, Quiet, server, Unchanged
  <2>4. \A r \in limit.tabs : tab'[r].list = tab[r].list BY <1>1, <2>2, <2>3
  <2> QED BY <2>3, <2>4 DEF ReadStep
<1>4. ASSUME NEW c \in Chan, SelectChannel(t, c) PROVE ReadStep /\ in' = in
  <2>1. PICK v, s, op, at :
          /\ v = Cleared(tab[t], c) /\ op = "load" /\ at = 0
          /\ s = [v EXCEPT !.active = c, !.manual = @ \ {c}, !.pane = "loading", !.focused = TRUE]
    OBVIOUS
  <2>2. v \in TabState /\ Alike(tab[t], v) BY <1>1, <2>1, ClearedIs
  <2>3. s.list = tab[t].list BY <2>1, <2>2 DEF TabState, Alike
  <2>4. /\ tab' = [tab EXCEPT ![t] = s] /\ UNCHANGED <<limit, log, pinging, blind, in>> /\ Unchanged
        /\ calls' = calls \cup {Asked(calls, t, op, c, at)}
    BY <1>4, <2>1 DEF SelectChannel, server
  <2>5. op \in Op /\ at \in 0..Bound /\ (op # "unread" \/ at # 0) BY <2>1, BoundIsNat DEF Op
  <2> QED BY <2>3, <2>4, <2>5, MadeLogged
<1>5. CASE \E c \in Chan : JumpToMessage(t, c) BY <1>5, JumpLogged DEF JumpToMessage
<1>6. ASSUME NEW i \in Id, ToggleRead(t, i) PROVE ReadStep /\ in' = in
  <2>1. PICK c, op : c = tab[t].active /\ op = "read" OBVIOUS
  <2>2. c \in Chan /\ i \in 0..Bound /\ i \in Nat BY <1>1, <2>1, BoundIsNat DEF TabState
  <2>3. PICK v, w, s : /\ v = Cleared(tab[t], c) /\ w = SetLastRead(v, c, i)
                       /\ s = [w EXCEPT !.marked[c] = i, !.manual = @ \ {c}]
    OBVIOUS
  <2>4. v \in TabState /\ Alike(tab[t], v) BY <1>1, <2>2, <2>3, ClearedIs
  <2>5. w \in TabState /\ Alike(v, w) BY <2>2, <2>3, <2>4, SetLastReadIs
  <2>6. s.list = tab[t].list BY <2>3, <2>4, <2>5 DEF TabState, Alike
  <2>7. /\ tab' = [tab EXCEPT ![t] = s] /\ UNCHANGED <<limit, log, pinging, blind, in>> /\ Shows(c, i)
        /\ calls' = calls \cup {Asked(calls, t, op, c, i)} /\ i \in tab[t].list[c]
    BY <1>6, <2>1, <2>3 DEF ToggleRead, server
  <2>8. i <= log[c]
    <3>1. i \in 1..log[c] BY <1>1, <2>2, <2>7 DEF Posted
    <3> QED BY <3>1
  <2>9. op \in Op /\ (op # "unread" \/ i # 0) BY <2>1 DEF Op
  <2>10. \E d \in Chan, j \in Nat : j <= log[d] /\ Shows(d, j) BY <2>2, <2>7, <2>8
  <2> QED BY <2>2, <2>6, <2>7, <2>9, <2>10, MadeLogged
<1>7. ASSUME NEW i \in Id, ToggleUnread(t, i) PROVE ReadStep /\ in' = in
  <2>1. PICK c, op, j, n : c = tab[t].active /\ op = "unread" /\ j = i - 1 /\ n = CountAfter(tab[t], c, j) OBVIOUS
  <2>2. c \in Chan /\ i \in 0..Bound /\ i # 0 /\ j \in 0..Bound /\ n \in Nat
    <3>1. c \in Chan BY <1>1, <2>1 DEF TabState
    <3>2. n \in Nat BY <1>1, <2>1, <3>1, CountAfterIs
    <3>3. i \in 0..Bound /\ i # 0 /\ j \in 0..Bound BY <2>1, BoundIsNat
    <3> QED BY <3>1, <3>2, <3>3
  <2>3. PICK v, w, s : /\ v = SetLastRead(tab[t], c, j) /\ w = SetUnread(v, c, n)
                       /\ s = [w EXCEPT !.marked[c] = 0, !.manual = @ \cup {c}]
    OBVIOUS
  <2>4. v \in TabState /\ Alike(tab[t], v) BY <1>1, <2>2, <2>3, SetLastReadIs
  <2>5. w \in TabState /\ Alike(v, w) BY <2>2, <2>3, <2>4, SetUnreadIs
  <2>6. s.list = tab[t].list BY <2>3, <2>4, <2>5 DEF TabState, Alike
  <2>7. /\ tab' = [tab EXCEPT ![t] = s] /\ UNCHANGED <<limit, log, pinging, blind, in>> /\ Unchanged
        /\ calls' = calls \cup {Asked(calls, t, op, c, i)}
    BY <1>7, <2>1, <2>3 DEF ToggleUnread, server
  <2>8. op \in Op /\ (op # "unread" \/ i # 0) BY <2>1, <2>2 DEF Op
  <2> QED BY <2>2, <2>6, <2>7, <2>8, MadeLogged
<1> QED BY <1>2, <1>3, <1>4, <1>5, <1>6, <1>7 DEF UserNext

-----------------------------------------------------------------------------
(* Answers and frames.                                                     *)

\* A step that leaves the lists and the frames alone, or has some fewer.
LEMMA PlainLogged ==
  ASSUME UNCHANGED <<limit, log, pinging, shown, blind>>, noticed \subseteq noticed',
         \A t \in limit.tabs : tab'[t].list = tab[t].list,
         \A t \in limit.tabs : \A q \in DOMAIN in'[t] :
           (\E p \in DOMAIN in[t] : in'[t][q] = in[t][p]) \/ in'[t][q].type # "new",
         \A k \in calls' : k \in calls \/ Blank(k) \/ PageWithin(k, log)
  PROVE  ReadStep
BY DEF ReadStep

LEMMA FramesAppended ==
  ASSUME Typed, NEW f \in FrameState, NEW S, Broadcast(f, S)
  PROVE  /\ FramesStay
         /\ \A t \in limit.tabs : tab[t].link = "up" => \E r \in DOMAIN in'[t] : in'[t][r] = f
         /\ \A r \in limit.tabs : \A q \in DOMAIN in'[r] :
              (\E p \in DOMAIN in[r] : in'[r][q] = in[r][p]) \/ in'[r][q] = f
<1>1. in' = [r \in limit.tabs |-> IF tab[r].link = "up" THEN Append(in[r], f) ELSE in[r]]
  BY DEF Broadcast
<1>2. \A r \in limit.tabs : in[r] \in Seq(FrameState) BY DEF Typed
<1>3. ASSUME NEW w \in Seq(FrameState)
      PROVE  /\ \A q \in DOMAIN w : q \in DOMAIN Append(w, f) /\ Append(w, f)[q] = w[q]
             /\ Len(w) + 1 \in DOMAIN Append(w, f) /\ Append(w, f)[Len(w) + 1] = f
  OBVIOUS
<1>4. \A t \in limit.tabs : in'[t] = Append(in[t], f) \/ (tab[t].link # "up" /\ in'[t] = in[t]) BY <1>1
<1>5. FramesStay BY <1>2, <1>3, <1>4 DEF FramesStay
<1>6. \A t \in limit.tabs : tab[t].link = "up" => \E r \in DOMAIN in'[t] : in'[t][r] = f
  BY <1>2, <1>3, <1>4
<1> QED BY <1>5, <1>6, BroadcastIs

LEMMA CallLogged ==
  ASSUME Typed, Logged, NEW k \in calls, CallNext(k)
  PROVE  ReadStep /\ FramesStay
<1>1. CallTyped(k, limit.tabs) /\ k.t \in limit.tabs /\ k.chan \in Chan /\ tab[k.t] \in TabState
      /\ PageWithin(k, log) /\ tab \in [limit.tabs -> TabState] /\ Posted(tab[k.t], log)
  BY DEF Typed, CallTyped, Logged
<1>2. in' = in => FramesStay /\ \A t \in limit.tabs : \A q \in DOMAIN in'[t] : \E p \in DOMAIN in[t] : in'[t][q] = in[t][p]
  BY DEF FramesStay
<1>3. \A m, v : v \in {"yes", "failed"} /\ m = [k EXCEPT !.served = v] => PageWithin(m, log)
  <2> SUFFICES ASSUME NEW v \in {"yes", "failed"}, NEW m, m = [k EXCEPT !.served = v] PROVE PageWithin(m, log)
    OBVIOUS
  <2>1. SameCall(k, m) BY <1>1, ServedIs
  <2> QED BY <1>1, <2>1 DEF PageWithin, SameCall
<1>4. ASSUME NEW f \in FrameState, NEW S, f.type # "new", Broadcast(f, S), NEW m, PageWithin(m, log),
             calls' = (calls \ {k}) \cup {m}, UNCHANGED <<limit, log, pinging, shown, noticed, blind, tab>>
      PROVE  ReadStep /\ FramesStay
  <2>1. /\ FramesStay
        /\ \A r \in limit.tabs : \A q \in DOMAIN in'[r] :
             (\E p \in DOMAIN in[r] : in'[r][q] = in[r][p]) \/ in'[r][q] = f
    BY <1>4, FramesAppended
  <2> QED BY <1>4, <2>1, PlainLogged
<1>5. CASE MarkRead(k)
  <2>1. PICK f, m : f = Frame("read", k.chan, k.at) /\ m = [k EXCEPT !.served = "yes"] OBVIOUS
  <2>2. f \in FrameState /\ f.type # "new" BY <1>1, <2>1 DEF Frame, FrameState, CallTyped
  <2>3. /\ \E S : Broadcast(f, S)
        /\ calls' = (calls \ {k}) \cup {m} /\ UNCHANGED <<limit, log, pinging, shown, noticed, blind, tab>>
    BY <1>5, <2>1 DEF MarkRead, Unchanged, bounds
  <2>4. PageWithin(m, log) BY <1>3, <2>1
  <2> QED BY <1>4, <2>2, <2>3, <2>4
<1>6. CASE MarkUnread(k)
  <2>1. PICK f, m : f = Frame("unread", k.chan, k.at - 1) /\ m = [k EXCEPT !.served = "yes"] OBVIOUS
  <2>2. f \in FrameState /\ f.type # "new"
    <3>1. k.at \in 0..(MaxPosts + 1) /\ k.at # 0 BY <1>1, <1>6 DEF CallTyped, MarkUnread
    <3>2. k.at - 1 \in 0..(MaxPosts + 1) BY <3>1, BoundIsNat
    <3> QED BY <1>1, <2>1, <3>2 DEF Frame, FrameState
  <2>3. /\ \E S : Broadcast(f, S)
        /\ calls' = (calls \ {k}) \cup {m} /\ UNCHANGED <<limit, log, pinging, shown, noticed, blind, tab>>
    BY <1>6, <2>1 DEF MarkUnread, Unchanged, bounds
  <2>4. PageWithin(m, log) BY <1>3, <2>1
  <2> QED BY <1>4, <2>2, <2>3, <2>4
<1>7. CASE ServeQuery(k)
  <2>1. PICK g : g = [c \in Chan |-> IF k.op = "summary"
                                       THEN <<Cardinality({i \in All(c) : i > cursor[c]}), cursor[c]>>
                                       ELSE <<log[c], 0>>]
    OBVIOUS
  <2>2. PICK m : m = [k EXCEPT !.served = "yes", !.page = g] OBVIOUS
  <2>3. /\ calls' = (calls \ {k}) \cup {m} /\ UNCHANGED <<limit, log, pinging, shown, noticed, blind, tab, in>>
    BY <1>7, <2>1, <2>2 DEF ServeQuery, server, bounds, ghosts
  <2>4. PageWithin(m, log)
    <3>1. PICK n, t, op, c, at, sv, page :
            k = [n |-> n, t |-> t, op |-> op, chan |-> c, at |-> at, served |-> sv, page |-> page]
      BY <1>1 DEF CallTyped, CallShape
    <3>2. m = [n |-> n, t |-> t, op |-> op, chan |-> c, at |-> at, served |-> "yes", page |-> g]
      BY <2>2, <3>1
    <3>3. m.op = k.op /\ m.page = g BY <3>1, <3>2
    <3>4. m.op # "summary" => \A d \in Chan : g[d][1] = log[d] BY <2>1, <3>3
    <3>5. \A d \in Chan : log[d] \in Nat BY BoundIsNat DEF Typed, Bound
    <3> QED BY <3>3, <3>4, <3>5 DEF PageWithin
  <2> QED BY <1>2, <2>3, <2>4, PlainLogged
<1>8. CASE Fail(k)
  <2>1. PICK m : m = [k EXCEPT !.served = "failed"] OBVIOUS
  <2>2. PageWithin(m, log) BY <1>3, <2>1
  <2>3. /\ calls' = (calls \ {k}) \cup {m} /\ UNCHANGED <<limit, log, pinging, shown, noticed, blind, tab, in>>
    BY <1>8, <2>1 DEF Fail, Unchanged, server
  <2> QED BY <1>2, <2>2, <2>3, PlainLogged
<1>9. CASE AnswerMark(k)
  <2>1. calls' = calls \ {k} /\ UNCHANGED <<limit, log, pinging, shown, noticed, blind, in>>
    BY <1>9 DEF AnswerMark, server, bounds, ghosts
  <2>2. \A t \in limit.tabs : tab'[t].list = tab[t].list
    <3>1. CASE tab' = tab BY <3>1
    <3>2. CASE tab' = [tab EXCEPT ![k.t].marked[k.chan] = 0]
      <4>1. PICK u : u = [tab[k.t] EXCEPT !.marked[k.chan] = 0] OBVIOUS
      <4>2. u.list = tab[k.t].list BY <1>1, <4>1 DEF TabState
      <4>3. tab' = [tab EXCEPT ![k.t] = u] BY <1>1, <3>2, <4>1
      <4> QED BY <1>1, <4>2, <4>3
    <3> QED BY <1>9, <3>1, <3>2 DEF AnswerMark
  <2> QED BY <1>2, <2>1, <2>2, PlainLogged
<1>10. CASE AnswerLoad(k)
  <2>1. PICK t, s, c, K : t = k.t /\ s = Loaded(k) /\ c = k.chan /\ K = calls \ {k} OBVIOUS
  <2>2. k.op \in {"load", "jump", "reload"} /\ k.served # "no" BY <1>10 DEF AnswerLoad
  <2>3. /\ s \in TabState /\ s.focused = tab[t].focused
    BY <2>1, <2>2, LoadedIs
  <2>4. Posted(s, log)
    <3>1. k.chan # tab[t].active => s = tab[t] BY <2>1 DEF Loaded
    <3>2. k.chan = tab[t].active /\ k.served = "failed" => s = [tab[t] EXCEPT !.pane = "error"]
      BY <2>1 DEF Loaded
    <3>3. k.chan = tab[t].active /\ k.served = "yes" =>
            s = [tab[t] EXCEPT !.list[c] = 1..k.page[c][1], !.pane = "shown"]
      BY <2>1 DEF Loaded
    <3>4. k.served \in {"yes", "failed"} BY <1>1, <2>2 DEF CallTyped
    <3>5. CASE k.chan = tab[t].active /\ k.served = "yes"
      <4>1. PICK L : L = 1..k.page[c][1] OBVIOUS
      <4>2. s = [tab[t] EXCEPT !.list[c] = L, !.pane = "shown"] BY <3>3, <3>5, <4>1
      <4>3. s.list = [tab[t].list EXCEPT ![c] = L] BY <1>1, <2>1, <4>2 DEF TabState
      <4>4. k.page[c][1] \in Nat /\ k.page[c][1] <= log[c] /\ log[c] \in Nat
        <5>1. k.page[c] \in Nat \X (0..(MaxPosts + 1)) BY <1>1, <2>1 DEF CallTyped
        <5>2. log[c] \in Nat BY <1>1, <2>1, BoundIsNat DEF Typed, Bound
        <5> QED BY <1>1, <2>1, <2>2, <5>1, <5>2 DEF PageWithin
      <4>5. L \subseteq 1..log[c] BY <4>1, <4>4
      <4> QED BY <1>1, <2>1, <4>3, <4>5 DEF Posted, TabState
    <3>6. CASE ~(k.chan = tab[t].active /\ k.served = "yes")
      <4>1. s.list = tab[t].list BY <1>1, <2>1, <3>1, <3>2, <3>4, <3>6 DEF TabState
      <4> QED BY <1>1, <2>1, <4>1 DEF Posted
    <3> QED BY <3>5, <3>6
  <2>5. IF s.pane = "shown" /\ s.active = c /\ s.focused THEN Shows(c, Newest(s.list[c])) ELSE Unchanged
    BY <1>10, <2>1 DEF AnswerLoad
  <2>6. Newest(s.list[c]) \in Nat /\ Newest(s.list[c]) <= log[c] BY <1>1, <2>1, <2>3, <2>4, NewestPosted
  <2>7. Unchanged \/ \E d \in Chan, i \in Nat : i <= log[d] /\ Shows(d, i) BY <1>1, <2>1, <2>5, <2>6
  <2>8. \E S : MarkActiveChannelRead(t, s, K, S, TabUnfocused(s)) \/ Quiet(t, s, K, S)
    BY <1>10, <2>1 DEF AnswerLoad
  <2>9. UNCHANGED <<limit, log, pinging, in>> BY <1>10 DEF AnswerLoad, server, bounds
  <2>10. TabUnfocused(s) \in BOOLEAN BY <2>3 DEF TabUnfocused
  <2>11. \A m \in K : m \in calls BY <2>1
  <2>12. PICK B \in BOOLEAN : \E S : MarkActiveChannelRead(t, s, K, S, B) \/ Quiet(t, s, K, S) BY <2>8, <2>10
  <2>13. ReadStep BY <1>1, <1>2, <2>1, <2>3, <2>4, <2>7, <2>9, <2>11, <2>12, TabLogged
  <2> QED BY <1>2, <2>9, <2>13
<1>11. ASSUME NEW near \in BOOLEAN, AnswerSummary(k, near) PROVE ReadStep /\ FramesStay
  <2>1. PICK t, s, K : t = k.t /\ K = calls \ {k} /\ s = IF k.served = "yes" THEN Summed(tab[t], k) ELSE tab[t]
    OBVIOUS
  <2>2. s \in TabState /\ s.list = tab[t].list
    <3>1. Summed(tab[t], k) \in TabState /\ Alike(tab[t], Summed(tab[t], k)) BY <1>1, <2>1, SummedIs
    <3> QED BY <1>1, <2>1, <3>1 DEF Alike
  <2>3. PICK x, op, c, at : x = [s EXCEPT !.pane = "loading"] /\ op = "reload" /\ c = s.active /\ at = 0 OBVIOUS
  <2>4. x.list = tab[t].list BY <2>2, <2>3 DEF TabState
  <2>5. /\ calls' = K \/ calls' = K \cup {Asked(K, t, op, c, at)}
        /\ tab' = [tab EXCEPT ![t] = x] \/ tab' = [tab EXCEPT ![t] = s]
        /\ UNCHANGED <<limit, log, pinging, in, shown, blind>> /\ noticed \subseteq noticed'
    BY <1>11, <2>1, <2>3 DEF AnswerSummary, server, bounds
  <2>6. \A m \in calls' : m \in calls \/ Blank(m)
    <3>1. PICK T : T = limit.tabs OBVIOUS
    <3>2. t \in T /\ op \in Op /\ c \in Chan /\ at \in 0..Bound /\ (op # "unread" \/ at # 0)
      BY <1>1, <2>1, <2>2, <2>3, <3>1, BoundIsNat DEF TabState, Op
    <3>3. NewCall(Asked(K, t, op, c, at), T, t, op, c, at) BY <3>2, AskedIs
    <3> QED BY <2>1, <2>5, <3>3 DEF NewCall
  <2>7. \A r \in limit.tabs : tab'[r].list = tab[r].list BY <1>1, <2>1, <2>2, <2>4, <2>5
  <2>8. ReadStep BY <1>2, <2>5, <2>6, <2>7, PlainLogged
  <2> QED BY <1>2, <2>5, <2>8
<1> QED BY <1>5, <1>6, <1>7, <1>8, <1>9, <1>10, <1>11 DEF CallNext

LEMMA PostLogged ==
  ASSUME Typed, Logged, NEW c \in Chan, NEW pings \in BOOLEAN, Post(c, pings)
  PROVE  /\ Logged' /\ FramesStay /\ UNCHANGED <<limit, noticed, blind>> /\ pinging \subseteq pinging'
         /\ (\E t \in limit.tabs : tab[t].link = "up") =>
              \A p \in pinging' \ pinging : \E t \in limit.tabs : \E q \in DOMAIN in'[t] : Carries(in'[t][q], p)
<1>1. PICK n, f : n = log[c] + 1 /\ f = Frame("new", c, n) OBVIOUS
<1>2. log \in [Chan -> 1..Bound] BY DEF Typed, Bound
<1>3. n \in Nat /\ n # 0 /\ log[c] \in Nat /\ log[c] < n BY <1>1, <1>2, BoundIsNat
<1>4. f \in FrameState
  <2>1. limit.posts \in 0..MaxPosts BY LimitsAssumption DEF Typed
  <2>2. log[c] <= limit.posts BY DEF Post
  <2>3. n \in 1..(MaxPosts + 1) BY <1>1, <1>3, <2>1, <2>2, BoundIsNat
  <2> QED BY <1>1, <2>3 DEF Frame, FrameState
<1>5. /\ log' = [log EXCEPT ![c] = n] /\ UNCHANGED <<limit, shown, noticed, blind, tab, calls>>
      /\ pinging' = IF pings THEN pinging \cup {<<c, n>>} ELSE pinging
      /\ \E S : Broadcast(f, S)
  BY <1>1 DEF Post, Unchanged, bounds
<1>6. /\ FramesStay
      /\ \A t \in limit.tabs : tab[t].link = "up" => \E r \in DOMAIN in'[t] : in'[t][r] = f
      /\ \A r \in limit.tabs : \A q \in DOMAIN in'[r] :
           (\E p \in DOMAIN in[r] : in'[r][q] = in[r][p]) \/ in'[r][q] = f
  BY <1>4, <1>5, FramesAppended
<1>7. \A d \in Chan : log[d] \in Nat /\ log'[d] \in Nat /\ log[d] <= log'[d] /\ (d = c => log'[d] = n)
  BY <1>2, <1>3, <1>5, BoundIsNat
<1>8. f.type = "new" /\ f.chan = c /\ f.at = n BY <1>1 DEF Frame
<1>9. Logged'
  <2>1. \A d \in Chan : shown'[d] <= log'[d] BY <1>5, <1>7 DEF Logged, Typed
  <2>2. \A t \in limit.tabs : Posted(tab'[t], log') BY <1>5, <1>7 DEF Logged, Posted
  <2>3. ASSUME NEW t \in limit.tabs, NEW q \in DOMAIN in'[t], in'[t][q].type = "new"
        PROVE  in'[t][q].at <= log'[in'[t][q].chan]
    <3>1. CASE in'[t][q] = f BY <1>3, <1>7, <1>8, <3>1
    <3>2. ASSUME NEW p \in DOMAIN in[t], in'[t][q] = in[t][p] PROVE in'[t][q].at <= log'[in'[t][q].chan]
      <4>1. in[t] \in Seq(FrameState) BY DEF Typed
      <4>2. in[t][p] \in FrameState BY <4>1
      <4>3. in[t][p].at \in Nat /\ in[t][p].chan \in Chan BY <4>2, BoundIsNat DEF FrameState
      <4> QED BY <1>7, <2>3, <3>2, <4>3 DEF Logged
    <3> QED BY <1>6, <3>1, <3>2
  <2>4. ASSUME NEW k \in calls PROVE PageWithin(k, log')
    <3>1. \A d \in Chan : k.page[d] \in Nat \X (0..(MaxPosts + 1)) BY DEF Typed, CallTyped
    <3>2. \A d \in Chan : k.page[d][1] \in Nat BY <3>1
    <3> QED BY <1>7, <3>2 DEF Logged, PageWithin
  <2>5. \A p \in pinging' : \E d \in Chan : \E i \in 1..log'[d] : p = <<d, i>>
    <3>1. ASSUME NEW p \in pinging PROVE \E d \in Chan : \E i \in 1..log'[d] : p = <<d, i>>
      <4>1. PICK d \in Chan : \E i \in 1..log[d] : p = <<d, i>> BY DEF Logged
      <4>2. 1..log[d] \subseteq 1..log'[d] BY <1>7
      <4> QED BY <4>1, <4>2
    <3>2. n \in 1..log'[c] BY <1>3, <1>7
    <3> QED BY <1>5, <3>1, <3>2
  <2>6. ASSUME NEW p \in pinging', p[2] <= shown'[p[1]] PROVE p \in noticed'
    <3>1. CASE p \in pinging BY <1>5, <2>6, <3>1 DEF Logged
    <3>2. CASE p = <<c, n>>
      <4>1. shown[c] \in Nat /\ shown[c] <= log[c] BY DEF Logged, Typed
      <4>2. n <= shown[c] BY <1>5, <2>6, <3>2
      <4> QED BY <1>3, <4>1, <4>2
    <3> QED BY <1>5, <3>1, <3>2
  <2> QED BY <1>5, <2>1, <2>2, <2>3, <2>4, <2>5, <2>6 DEF Logged
<1>10. ASSUME NEW t \in limit.tabs, tab[t].link = "up", NEW p \in pinging' \ pinging
       PROVE  \E u \in limit.tabs : \E q \in DOMAIN in'[u] : Carries(in'[u][q], p)
  <2>1. Carries(f, p) BY <1>5, <1>8 DEF Carries
  <2> QED BY <1>6, <1>10, <2>1
<1> QED BY <1>5, <1>6, <1>9, <1>10

\* A tab that takes a ping has noticed it, or overlooks it in a pane that is
\* being loaded.
LEMMA TakeLogged ==
  ASSUME Typed, Logged, NEW t \in limit.tabs, Take(t)
  PROVE  /\ ReadStep
         /\ \A p \in pinging : Carries(Head(in[t]), p) => p \in noticed' \cup Overlooked(t)
<1>1. /\ tab[t] \in TabState /\ Posted(tab[t], log) /\ tab \in [limit.tabs -> TabState]
      /\ \A d \in Chan : log[d] \in Nat
  BY BoundIsNat DEF Typed, Logged, Bound
<1>2. PICK f : f = Head(in[t]) OBVIOUS
<1>3. in[t] # <<>> /\ in' = [in EXCEPT ![t] = Tail(in[t])] /\ UNCHANGED <<limit, log, pinging>>
  BY DEF Take, server, bounds
<1>4. /\ f \in FrameState /\ \E p \in DOMAIN in[t] : f = in[t][p]
      /\ FramesKept
  BY <1>2, <1>3, TakenIs
<1>5. \A r \in limit.tabs : \A q \in DOMAIN in'[r] : \E p \in DOMAIN in[r] : in'[r][q] = in[r][p]
  BY <1>4 DEF FramesKept
<1>6. PICK c, i : c = f.chan /\ i = f.at OBVIOUS
<1>7. c \in Chan /\ i \in 0..Bound /\ (f.type = "new" => i \in Id) /\ f.type \in {"new", "read", "unread"}
  BY <1>4, <1>6, BoundIsNat DEF FrameState, Bound
<1>8. CASE f.type = "new"
  <2>1. OnNew(t, c, i) /\ i \in Id BY <1>2, <1>6, <1>7, <1>8 DEF Take
  <2>2. i \in 1..log[c] /\ i \in Nat
    <3>1. i <= log[c] BY <1>4, <1>6, <1>8 DEF Logged
    <3> QED BY <1>1, <1>7, <2>1, <3>1, BoundIsNat
  <2>3. PICK s : s = [tab[t] EXCEPT !.list[c] = @ \cup {i}] OBVIOUS
  <2>4. /\ s \in TabState /\ s.list = [tab[t].list EXCEPT ![c] = @ \cup {i}]
        /\ s.active = tab[t].active /\ s.focused = tab[t].focused /\ s.pane = tab[t].pane
    BY <1>1, <1>7, <2>1, <2>3 DEF TabState
  <2>5. Posted(s, log) BY <1>1, <1>7, <2>2, <2>4 DEF Posted, TabState
  <2>6. Unseen(s, c) <=> Unseen(tab[t], c) BY <2>4 DEF Unseen, TabUnfocused
  <2>7. \A p \in pinging : Carries(f, p) => p = <<c, i>> BY <1>6 DEF Carries
  <2>8. CASE Unseen(s, c)
    <3>1. PICK u : u = BumpUnread(s, c) OBVIOUS
    <3>2. Alike(s, u) BY <1>7, <2>4, <3>1, BumpedIs
    <3>3. /\ tab' = [tab EXCEPT ![t] = u] /\ calls' = calls /\ blind' = blind /\ shown' = shown
          /\ noticed' = noticed \cup ({<<c, i>>} \cap pinging)
      BY <2>1, <2>3, <2>8, <3>1 DEF OnNew, Quiet
    <3>4. \A r \in limit.tabs : tab'[r].list = tab[r].list \/ Posted(tab'[r], log)
      BY <1>1, <2>5, <3>2, <3>3 DEF Alike, Posted
    <3>5. ReadStep BY <1>3, <1>5, <3>3, <3>4 DEF ReadStep
    <3> QED BY <1>2, <2>7, <3>3, <3>5
  <2>9. CASE ~Unseen(s, c)
    <3>1. /\ MarkActiveChannelRead(t, s, calls, strayed, FALSE)
          /\ IF s.pane = "shown" /\ s.focused THEN Shows(c, i) ELSE Unchanged
      BY <2>1, <2>3, <2>9 DEF OnNew
    <3>2. i <= log[c] BY <1>1, <1>7, <2>2
    <3>3. Unchanged \/ \E d \in Chan, j \in Nat : j <= log[d] /\ Shows(d, j) BY <1>7, <2>2, <3>1, <3>2
    <3>4. ReadStep
      <4>1. PICK K, S, B : K = calls /\ S = strayed /\ B = FALSE OBVIOUS
      <4>2. MarkActiveChannelRead(t, s, K, S, B) /\ B \in BOOLEAN /\ \A k \in K : k \in calls
        BY <3>1, <4>1
      <4> QED BY <1>3, <1>5, <2>4, <2>5, <3>3, <4>2, TabLogged
    <3>5. ASSUME NEW p \in pinging, Carries(f, p) PROVE p \in noticed' \cup Overlooked(t)
      <4>1. p = <<c, i>> BY <2>7, <3>5
      <4>2. CASE s.pane # "shown" BY <1>2, <2>4, <2>6, <2>9, <3>5, <4>1, <4>2 DEF Overlooked
      <4>3. CASE s.pane = "shown"
        <5>1. s.focused = TRUE BY <2>4, <2>9 DEF Unseen, TabUnfocused, TabState
        <5>2. Shows(c, i) BY <3>1, <4>3, <5>1
        <5>3. p[1] = c /\ p[2] <= i BY <2>2, <4>1
        <5> QED BY <5>2, <5>3 DEF Shows
      <4> QED BY <4>2, <4>3
    <3> QED BY <1>2, <3>4, <3>5
  <2> QED BY <2>8, <2>9
<1>9. CASE f.type # "new"
  <2>1. ReadStep
    <3>1. ASSUME NEW s, Alike(tab[t], s), tab' = [tab EXCEPT ![t] = s],
                 UNCHANGED <<calls, blind, shown, noticed>>
          PROVE  ReadStep
      <4>1. \A r \in limit.tabs : tab'[r].list = tab[r].list BY <1>1, <3>1 DEF Alike
      <4> QED BY <1>3, <1>5, <3>1, <4>1, PlainLogged
    <3>2. CASE f.type = "read"
      <4>1. OnReadUpdate(t, c, i) BY <1>2, <1>6, <3>2 DEF Take
      <4>2. PICK v, s : v = Cleared(tab[t], c) /\ s = SetLastRead(v, c, i) OBVIOUS
      <4>3. v \in TabState /\ Alike(tab[t], v) BY <1>1, <1>7, <4>2, ClearedIs
      <4>4. Alike(v, s) BY <1>7, <4>2, <4>3, SetLastReadIs
      <4>5. Alike(tab[t], s) BY <4>3, <4>4 DEF Alike
      <4>6. tab' = [tab EXCEPT ![t] = s] /\ UNCHANGED <<calls, blind, shown, noticed>>
        BY <4>1, <4>2 DEF OnReadUpdate, Quiet, Unchanged
      <4> QED BY <3>1, <4>5, <4>6
    <3>3. CASE f.type = "unread"
      <4>1. OnReadUnread(t, c, i) BY <1>2, <1>6, <3>3 DEF Take
      <4>2. PICK n, v, s : n = CountAfter(tab[t], c, i) /\ v = SetLastRead(tab[t], c, i) /\ s = SetUnread(v, c, n)
        OBVIOUS
      <4>3. v \in TabState /\ Alike(tab[t], v) BY <1>1, <1>7, <4>2, SetLastReadIs
      <4>4. n \in Nat BY <1>1, <1>7, <4>2, CountAfterIs
      <4>5. Alike(v, s) BY <1>7, <4>2, <4>3, <4>4, SetUnreadIs
      <4>6. Alike(tab[t], s) BY <4>3, <4>5 DEF Alike
      <4>7. tab' = [tab EXCEPT ![t] = s] /\ UNCHANGED <<calls, blind, shown, noticed>>
        BY <4>1, <4>2 DEF OnReadUnread, Quiet, Unchanged
      <4> QED BY <3>1, <4>6, <4>7
    <3> QED BY <1>7, <1>9, <3>2, <3>3
  <2> QED BY <1>2, <1>9, <2>1 DEF Carries
<1> QED BY <1>8, <1>9

LEMMA SocketLogged ==
  ASSUME Typed, Logged, NEW t \in limit.tabs, Connect(t) \/ \E told \in BOOLEAN : Drop(t, told)
  PROVE  ReadStep /\ (Connect(t) => in' = in)
<1>1. tab[t] \in TabState /\ tab \in [limit.tabs -> TabState] /\ in \in [limit.tabs -> Seq(FrameState)]
  BY DEF Typed
<1>2. CASE Connect(t)
  <2>1. PICK s, c, op, at :
          /\ s = [tab[t] EXCEPT !.link = "up", !.wasOffline = FALSE]
          /\ c = tab[t].active /\ op = "summary" /\ at = 0
    OBVIOUS
  <2>2. s.list = tab[t].list /\ c \in Chan BY <1>1, <2>1 DEF TabState
  <2>3. tab' = [tab EXCEPT ![t] = s]
    <3>1. tab' = [tab EXCEPT ![t].link = "up", ![t].wasOffline = FALSE] BY <1>2 DEF Connect
    <3> QED BY <1>1, <2>1, <3>1
  <2>4. /\ calls' = calls \/ calls' = calls \cup {Asked(calls, t, op, c, at)}
        /\ UNCHANGED <<limit, log, pinging, in, shown, noticed, blind>>
    BY <1>2, <2>1 DEF Connect, server, bounds, ghosts
  <2>5. \A m \in calls' : m \in calls \/ Blank(m)
    <3>1. PICK T : T = limit.tabs OBVIOUS
    <3>2. t \in T /\ op \in Op /\ at \in 0..Bound /\ (op # "unread" \/ at # 0)
      BY <2>1, <3>1, BoundIsNat DEF Op
    <3>3. NewCall(Asked(calls, t, op, c, at), T, t, op, c, at) BY <2>2, <3>2, AskedIs
    <3> QED BY <2>4, <3>3 DEF NewCall
  <2>6. \A r \in limit.tabs : tab'[r].list = tab[r].list BY <1>1, <2>2, <2>3
  <2>7. ReadStep BY <2>4, <2>5, <2>6, PlainLogged
  <2> QED BY <2>4, <2>7
<1>3. ASSUME NEW told \in BOOLEAN, Drop(t, told) PROVE ReadStep
  <2>1. PICK l, s : l = (IF told THEN "down" ELSE "zombie") /\ s = [tab[t] EXCEPT !.link = l, !.wasOffline = told]
    OBVIOUS
  <2>2. s.list = tab[t].list BY <1>1, <2>1 DEF TabState
  <2>3. tab' = [tab EXCEPT ![t] = s]
    <3>1. tab' = [tab EXCEPT ![t].link = l, ![t].wasOffline = told] BY <1>3, <2>1 DEF Drop
    <3> QED BY <1>1, <2>1, <3>1
  <2>4. in' = [in EXCEPT ![t] = <<>>] /\ UNCHANGED <<limit, log, pinging, calls, shown, noticed, blind>>
    BY <1>3 DEF Drop, server, Unchanged
  <2>5. \A r \in limit.tabs : \A q \in DOMAIN in'[r] : \E p \in DOMAIN in[r] : in'[r][q] = in[r][p]
    <3>1. DOMAIN <<>> = {} OBVIOUS
    <3> QED BY <1>1, <2>4, <3>1
  <2>6. \A r \in limit.tabs : tab'[r].list = tab[r].list BY <1>1, <2>2, <2>3
  <2> QED BY <2>4, <2>5, <2>6, PlainLogged
<1>4. Connect(t) => in' = in BY DEF Connect
<1> QED BY <1>2, <1>3, <1>4

-----------------------------------------------------------------------------
(* Every ping is on its way, or it has arrived.                            *)
CheckShape(k) ==
  /\ k = [ping |-> k.ping, at |-> k.at, read |-> k.read]
  /\ k.ping \in pinging /\ k.at \in {"ask", "show"} /\ k.read \in BOOLEAN
Safe(p) == p \in noticed \cup missed
Coming(p) == \E t \in limit.tabs : \E q \in DOMAIN in[t] : Carries(in[t][q], p)
Pending(p) == p \in jobs \/ (\E q \in pushes : q[2] = p) \/ (\E k \in checks : k.ping = p)
Tracked ==
  /\ jobs \subseteq pinging /\ reached \subseteq pinging /\ (\A q \in pushes : q[2] \in pinging) /\ \A k \in checks : CheckShape(k)
  /\ \A p \in pinging : Safe(p) \/ Coming(p) \/ Pending(p)
  /\ \A p \in jobs \cap reached : Safe(p) \/ Coming(p)
  /\ \A k \in checks : k.at = "show" /\ k.read = TRUE /\ k.ping[1] \notin blind => Safe(k.ping)

LEMMA ComingIs ==
  ASSUME NEW p \in pinging
  PROVE  Coming(p) <=> \E t \in limit.tabs : p \in Pings(t)
BY DEF Coming, Pings

LEMMA TrackedInit == AlertsInit => Logged /\ Tracked
<1> SUFFICES ASSUME AlertsInit PROVE Logged /\ Tracked OBVIOUS
<1>1. Init /\ jobs = {} /\ pushes = {} /\ checks = {} /\ reached = {} BY DEF AlertsInit
<1>2. /\ log = [c \in Chan |-> 1] /\ shown = [c \in Chan |-> 1] /\ pinging = {}
      /\ in = [t \in limit.tabs |-> <<>>]
  BY <1>1 DEF Init
<1>3. ASSUME NEW t \in limit.tabs PROVE Posted(tab[t], log)
  <2>1. tab[t].list = [c \in Chan |-> IF c = First /\ t \notin limit.late THEN {1} ELSE {}]
    BY <1>1 DEF Init
  <2>2. \A c \in Chan : tab[t].list[c] \subseteq {1} BY <2>1
  <2>3. 1 \in 1..1 OBVIOUS
  <2> QED BY <1>2, <2>2, <2>3 DEF Posted
<1>4. ASSUME NEW k \in calls PROVE PageWithin(k, log)
  <2>1. PICK t \in limit.late : k = [Asked({}, t, "summary", First, 0) EXCEPT !.n = 1]
    BY <1>1 DEF Init
  <2>2. PICK n, v, page : k = [n |-> n, t |-> t, op |-> "summary", chan |-> First, at |-> 0,
                               served |-> v, page |-> page]
    BY <2>1 DEF Asked
  <2> QED BY <2>2 DEF PageWithin
<1>5. \A t \in limit.tabs : DOMAIN in[t] = {}
  <2>1. DOMAIN <<>> = {} OBVIOUS
  <2> QED BY <1>2, <2>1
<1>6. Logged BY <1>2, <1>3, <1>4, <1>5 DEF Logged
<1>7. Tracked BY <1>1, <1>2 DEF Tracked
<1> QED BY <1>6, <1>7

\* A step that leaves the jobs, the pushes and the checks alone, and loses no
\* frame but one whose ping is safe.
LEMMA TrackedKeeps ==
  ASSUME Tracked, UNCHANGED <<jobs, pushes, checks, reached, pinging, limit>>,
         missed \subseteq missed', noticed \subseteq noticed', blind \subseteq blind',
         \A p \in pinging : Coming(p) => Coming(p)' \/ Safe(p)'
  PROVE  Tracked'
<1>1. \A p : Safe(p) => Safe(p)' BY DEF Safe
<1>2. \A p : Pending(p) => Pending(p)' BY DEF Pending
<1>3. \A k : CheckShape(k) => CheckShape(k)' BY DEF CheckShape
<1> QED BY <1>1, <1>2, <1>3 DEF Tracked

LEMMA StillComing ==
  ASSUME limit' = limit, FramesStay
  PROVE  \A p : Coming(p) => Coming(p)'
BY DEF Coming, FramesStay, Carries

LEMMA StillLogged ==
  ASSUME UNCHANGED <<limit, log, pinging, shown, blind, tab, in, calls>>, noticed \subseteq noticed'
  PROVE  ReadStep /\ FramesStay
BY DEF ReadStep, FramesStay

-----------------------------------------------------------------------------
(* The steps a ping takes.                                                 *)
LEMMA TakeTracks ==
  ASSUME Typed, Logged, Tracked, NEW t \in limit.tabs, TakeAndAlert(t)
  PROVE  Logged' /\ Tracked'
<1>1. Take(t) /\ missed' = missed \cup Overlooked(t) /\ UNCHANGED <<jobs, pushes, checks, reached>>
  BY DEF TakeAndAlert
<1>2. /\ ReadStep
      /\ \A p \in pinging : Carries(Head(in[t]), p) => p \in noticed' \cup Overlooked(t)
  BY <1>1, TakeLogged
<1>3. Logged' /\ noticed \subseteq noticed' BY <1>2, LoggedKeeps
<1>4. limit' = limit /\ pinging' = pinging /\ blind \subseteq blind' BY <1>2 DEF ReadStep
<1>5. ASSUME NEW p \in pinging, Coming(p), ~Coming(p)' PROVE Safe(p)'
  <2>1. PICK u \in limit.tabs : \E q \in DOMAIN in[u] : Carries(in[u][q], p) BY <1>5 DEF Coming
  <2>2. PICK q \in DOMAIN in[u] : Carries(in[u][q], p) BY <2>1
  <2>3. in[t] # <<>> /\ in' = [in EXCEPT ![t] = Tail(in[t])] BY <1>1 DEF Take
  <2>4. u = t /\ q = 1
    <3> SUFFICES ASSUME u # t \/ q # 1 PROVE Coming(p)' BY <1>5
    <3>1. in \in [limit.tabs -> Seq(FrameState)] BY DEF Typed
    <3>2. CASE u # t
      <4>1. in'[u] = in[u] BY <2>3, <3>1, <3>2
      <4> QED BY <1>4, <2>2, <4>1 DEF Coming, Carries
    <3>3. CASE u = t /\ q # 1
      <4>1. PICK w : w = in[t] OBVIOUS
      <4>2. w \in Seq(FrameState) /\ w # <<>> /\ q \in DOMAIN w BY <2>2, <2>3, <3>1, <3>3, <4>1
      <4>3. q - 1 \in DOMAIN Tail(w) /\ Tail(w)[q - 1] = w[q] BY <3>3, <4>2
      <4>4. in'[t] = Tail(w) BY <2>3, <3>1, <4>1
      <4>5. Carries(in'[t][q - 1], p) BY <2>2, <3>3, <4>1, <4>3, <4>4
      <4>6. \E r \in DOMAIN in'[t] : Carries(in'[t][r], p) BY <4>3, <4>4, <4>5
      <4> QED BY <1>4, <4>6 DEF Coming, Carries
    <3> QED BY <3>2, <3>3
  <2>5. Carries(Head(in[t]), p)
    <3>1. in[t] \in Seq(FrameState) BY DEF Typed
    <3>2. Head(in[t]) = in[t][1] BY <2>3, <3>1
    <3> QED BY <2>2, <2>4, <3>2
  <2> QED BY <1>1, <1>2, <2>5 DEF Safe
<1>6. missed \subseteq missed' BY <1>1
<1> QED BY <1>1, <1>3, <1>4, <1>5, <1>6, TrackedKeeps

LEMMA DropTracks ==
  ASSUME Typed, Logged, Tracked, NEW t \in limit.tabs, DropAndMiss(t)
  PROVE  Logged' /\ Tracked'
<1>1. /\ \E told \in BOOLEAN : Drop(t, told)
      /\ reached' = reached \ OnlyIn(t) /\ missed' = missed \cup (OnlyIn(t) \ jobs)
      /\ UNCHANGED <<jobs, pushes, checks>>
  BY DEF DropAndMiss
<1>2. ReadStep BY <1>1, SocketLogged
<1>3. Logged' /\ noticed \subseteq noticed' BY <1>2, LoggedKeeps
<1>4. limit' = limit /\ pinging' = pinging /\ blind \subseteq blind' BY <1>2 DEF ReadStep
<1>5. in' = [in EXCEPT ![t] = <<>>] BY <1>1 DEF Drop
<1>6. ASSUME NEW p \in pinging, Coming(p), ~Coming(p)' PROVE p \in OnlyIn(t)
  <2>1. \A u \in limit.tabs \ {t} : in'[u] = in[u] BY <1>5 DEF Typed
  <2>2. \A u \in limit.tabs \ {t} : p \notin Pings(u)
    <3> SUFFICES ASSUME NEW u \in limit.tabs \ {t}, p \in Pings(u) PROVE Coming(p)' BY <1>6
    <3>1. \E q \in DOMAIN in'[u] : Carries(in'[u][q], p) BY <2>1 DEF Pings
    <3> QED BY <1>4, <3>1 DEF Coming, Carries
  <2>3. p \in Pings(t) BY <1>6, <2>2, ComingIs
  <2> QED BY <2>2, <2>3 DEF OnlyIn
<1>7. \A p : Safe(p) => Safe(p)' BY <1>1, <1>3 DEF Safe
<1>8. \A p : Pending(p) => Pending(p)' BY <1>1 DEF Pending
<1>9. \A k : CheckShape(k) => CheckShape(k)' BY <1>4 DEF CheckShape
<1>10. ASSUME NEW p \in pinging PROVE Safe(p)' \/ Coming(p)' \/ Pending(p)'
  <2>1. CASE p \in jobs BY <1>1, <2>1 DEF Pending
  <2>2. CASE p \notin jobs /\ p \in OnlyIn(t) BY <1>1, <2>2 DEF Safe
  <2>3. CASE p \notin OnlyIn(t) BY <1>6, <1>7, <1>8, <2>3 DEF Tracked
  <2> QED BY <2>1, <2>2, <2>3
<1>11. ASSUME NEW p \in jobs' \cap reached' PROVE Safe(p)' \/ Coming(p)'
  <2>1. p \in jobs \cap reached /\ p \notin OnlyIn(t) /\ p \in pinging BY <1>1 DEF Tracked
  <2> QED BY <1>6, <1>7, <2>1 DEF Tracked
<1>12. Tracked' BY <1>1, <1>4, <1>7, <1>9, <1>10, <1>11 DEF Tracked
<1> QED BY <1>3, <1>12

LEMMA PostTracks ==
  ASSUME Typed, Logged, Tracked, PostPings
  PROVE  Logged' /\ Tracked'
<1>1. PICK c \in Chan, pings \in BOOLEAN : Post(c, pings) BY DEF PostPings, PostNext
<1>2. /\ Logged' /\ FramesStay /\ UNCHANGED <<limit, noticed, blind>> /\ pinging \subseteq pinging'
      /\ (\E t \in limit.tabs : tab[t].link = "up") =>
           \A p \in pinging' \ pinging : \E t \in limit.tabs : \E q \in DOMAIN in'[t] : Carries(in'[t][q], p)
  BY <1>1, PostLogged
<1>3. /\ jobs' = jobs \cup (pinging' \ pinging) /\ UNCHANGED <<pushes, checks, missed>>
      /\ reached' = IF \E t \in limit.tabs : tab[t].link = "up" THEN reached \cup (pinging' \ pinging) ELSE reached
  BY DEF PostPings
<1>4. \A p : Safe(p) => Safe(p)' BY <1>2, <1>3 DEF Safe
<1>5. \A p : Pending(p) => Pending(p)' BY <1>3 DEF Pending
<1>6. \A k : CheckShape(k) => CheckShape(k)' BY <1>2 DEF CheckShape
<1>7. \A p : Coming(p) => Coming(p)' BY <1>2, StillComing
<1>8. \A p \in pinging' : Safe(p)' \/ Coming(p)' \/ Pending(p)'
  BY <1>3, <1>4, <1>5, <1>7 DEF Tracked, Pending
<1>9. ASSUME NEW p \in jobs' \cap reached' PROVE Safe(p)' \/ Coming(p)'
  <2>1. CASE p \in pinging
    <3>1. p \in jobs \cap reached BY <1>3, <2>1
    <3> QED BY <1>4, <1>7, <3>1 DEF Tracked
  <2>2. CASE p \notin pinging
    <3>1. p \in pinging' \ pinging BY <1>3, <2>2 DEF Tracked
    <3>2. CASE \E t \in limit.tabs : tab[t].link = "up"
      <4>1. \E t \in limit.tabs : \E q \in DOMAIN in'[t] : Carries(in'[t][q], p) BY <1>2, <3>1, <3>2
      <4> QED BY <1>2, <4>1 DEF Coming, Carries
    <3>3. CASE ~(\E t \in limit.tabs : tab[t].link = "up")
      <4>1. p \in reached BY <1>3, <3>3
      <4> QED BY <2>2, <4>1 DEF Tracked
    <3> QED BY <3>2, <3>3
  <2> QED BY <2>1, <2>2
<1>10. Tracked' BY <1>2, <1>3, <1>4, <1>6, <1>8, <1>9 DEF Tracked
<1> QED BY <1>2, <1>10

LEMMA PushTracks ==
  ASSUME Core, Logged, Tracked,
         \/ \E p \in jobs : SendPushNotifications(p)
         \/ \E q \in pushes : PushArrives(q)
         \/ \E k \in checks, fails \in BOOLEAN : MaybeShowAsks(k, fails)
         \/ \E k \in checks : MaybeShow(k)
  PROVE  Logged' /\ Tracked'
<1>1. /\ UNCHANGED <<limit, log, pinging, shown, blind, tab, in, calls, reached>>
      /\ noticed \subseteq noticed' /\ missed \subseteq missed' /\ jobs' \subseteq jobs
  BY DEF SendPushNotifications, PushArrives, MaybeShowAsks, MaybeShow, vars, server, bounds, ghosts
<1>2. ReadStep /\ FramesStay BY <1>1, StillLogged
<1>3. Logged'
  <2>1. Typed BY DEF Core
  <2> QED BY <1>2, <2>1, LoggedKeeps
<1>4. \A p : Safe(p) => Safe(p)' BY <1>1 DEF Safe
<1>5. \A p : Coming(p) => Coming(p)' BY <1>1, <1>2, StillComing
<1>6. \A k : CheckShape(k) => CheckShape(k)' BY <1>1 DEF CheckShape
<1>7. \A p \in jobs' \cap reached' : Safe(p)' \/ Coming(p)' BY <1>1, <1>4, <1>5 DEF Tracked
<1>8. jobs' \subseteq pinging' /\ reached' \subseteq pinging' BY <1>1 DEF Tracked
<1>9. SUFFICES /\ \A q \in pushes' : q[2] \in pinging
               /\ \A k \in checks' : CheckShape(k)
               /\ \A p \in pinging : Pending(p) => Pending(p)' \/ Safe(p)' \/ Coming(p)
               /\ \A k \in checks' : k.at = "show" /\ k.read = TRUE /\ k.ping[1] \notin blind => Safe(k.ping)'
  BY <1>1, <1>3, <1>4, <1>5, <1>6, <1>7, <1>8 DEF Tracked
<1>10. ASSUME NEW p \in jobs, SendPushNotifications(p)
       PROVE  /\ \A q \in pushes' : q[2] \in pinging
              /\ \A k \in checks' : CheckShape(k)
              /\ \A r \in pinging : Pending(r) => Pending(r)' \/ Safe(r)' \/ Coming(r)
              /\ \A k \in checks' : k.at = "show" /\ k.read = TRUE /\ k.ping[1] \notin blind => Safe(k.ping)'
  <2>1. /\ jobs' = jobs \ {p} /\ checks' = checks
        /\ pushes' = IF Connected THEN pushes ELSE pushes \cup (subs \X {p})
        /\ missed' = IF (Connected /\ p \notin reached) \/ (~Connected /\ sub \notin subs) THEN missed \cup {p} ELSE missed
    BY <1>10 DEF SendPushNotifications
  <2>2. \A q \in pushes' : q[2] \in pinging BY <2>1 DEF Tracked
  <2>3. Pending(p)' \/ Safe(p)' \/ Coming(p)
    <3>1. CASE Connected /\ p \in reached BY <1>4, <3>1 DEF Tracked
    <3>2. CASE Connected /\ p \notin reached BY <2>1, <3>2 DEF Safe
    <3>3. CASE ~Connected /\ sub \notin subs BY <2>1, <3>3 DEF Safe
    <3>4. CASE ~Connected /\ sub \in subs
      <4>1. <<sub, p>> \in pushes' BY <2>1, <3>4
      <4>2. \E q \in pushes' : q[2] = p BY <4>1
      <4> QED BY <4>2 DEF Pending
    <3> QED BY <3>1, <3>2, <3>3, <3>4
  <2>4. \A r \in pinging \ {p} : Pending(r) => Pending(r)' BY <2>1 DEF Pending
  <2>5. \A k \in checks' : CheckShape(k) BY <2>1 DEF Tracked
  <2>6. \A k \in checks' : k.at = "show" /\ k.read = TRUE /\ k.ping[1] \notin blind => Safe(k.ping)'
    BY <1>4, <2>1 DEF Tracked
  <2> QED BY <2>2, <2>3, <2>4, <2>5, <2>6
<1>11. ASSUME NEW q \in pushes, PushArrives(q)
       PROVE  /\ \A r \in pushes' : r[2] \in pinging
              /\ \A k \in checks' : CheckShape(k)
              /\ \A r \in pinging : Pending(r) => Pending(r)' \/ Safe(r)' \/ Coming(r)
              /\ \A k \in checks' : k.at = "show" /\ k.read = TRUE /\ k.ping[1] \notin blind => Safe(k.ping)'
  <2>1. PICK m : m = [ping |-> q[2], at |-> "ask", read |-> FALSE] OBVIOUS
  <2>2. /\ pushes' = pushes \ {q} /\ jobs' = jobs
        /\ \/ checks' = checks \cup {m}
           \/ checks' = checks /\ missed' = missed \cup {q[2]}
    BY <1>11, <2>1 DEF PushArrives
  <2>3. q[2] \in pinging BY DEF Tracked
  <2>4. CheckShape(m) BY <2>1, <2>3 DEF CheckShape
  <2>5. \A r \in pushes' : r[2] \in pinging BY <2>2 DEF Tracked
  <2>6. \A k \in checks' : CheckShape(k) BY <2>2, <2>4 DEF Tracked
  <2>7. \A k \in checks' : k.at = "show" /\ k.read = TRUE /\ k.ping[1] \notin blind => Safe(k.ping)'
    BY <1>4, <2>1, <2>2 DEF Tracked
  <2>8. Pending(q[2])' \/ Safe(q[2])' BY <2>1, <2>2 DEF Pending, Safe
  <2>9. \A r \in pinging : r # q[2] /\ Pending(r) => Pending(r)' BY <2>2 DEF Pending
  <2> QED BY <2>5, <2>6, <2>7, <2>8, <2>9
<1>12. ASSUME NEW k \in checks, NEW fails \in BOOLEAN, MaybeShowAsks(k, fails)
       PROVE  /\ \A q \in pushes' : q[2] \in pinging
              /\ \A m \in checks' : CheckShape(m)
              /\ \A r \in pinging : Pending(r) => Pending(r)' \/ Safe(r)' \/ Coming(r)
              /\ \A m \in checks' : m.at = "show" /\ m.read = TRUE /\ m.ping[1] \notin blind => Safe(m.ping)'
  <2>1. PICK p, b, r : p = k.ping /\ b = k.at /\ r = k.read OBVIOUS
  <2>2. k = [ping |-> p, at |-> b, read |-> r] /\ p \in pinging BY <2>1 DEF Tracked, CheckShape
  <2>3. PICK v \in BOOLEAN : v = (~fails /\ ReadAlready(p)) BY DEF ReadAlready
  <2>4. PICK m : m = [k EXCEPT !.at = "show", !.read = v] OBVIOUS
  <2>5. m = [ping |-> p, at |-> "show", read |-> v] BY <2>2, <2>4
  <2>6. checks' = (checks \ {k}) \cup {m} /\ pushes' = pushes /\ jobs' = jobs
    <3>1. checks' = (checks \ {k}) \cup {[k EXCEPT !.at = "show", !.read = ~fails /\ ReadAlready(k.ping)]}
      BY <1>12 DEF MaybeShowAsks
    <3>2. [k EXCEPT !.at = "show", !.read = ~fails /\ ReadAlready(k.ping)] = m BY <2>1, <2>3, <2>4
    <3>3. pushes' = pushes /\ jobs' = jobs BY <1>12 DEF MaybeShowAsks
    <3> QED BY <3>1, <3>2, <3>3
  <2>7. CheckShape(m) BY <2>2, <2>5 DEF CheckShape
  <2>8. v = TRUE /\ p[1] \notin blind => Safe(p)
    <3> SUFFICES ASSUME v = TRUE, p[1] \notin blind PROVE p \in noticed BY DEF Safe
    <3>1. PICK c \in Chan : \E i \in 1..log[c] : p = <<c, i>> BY <2>2 DEF Logged
    <3>2. PICK i \in 1..log[c] : p = <<c, i>> BY <3>1
    <3>3. log[c] \in Nat /\ cursor[c] \in Nat /\ shown[c] \in Nat
      BY BoundIsNat DEF Core, Typed, Bound
    <3>4. ReadAlready(p) BY <2>3
    <3>5. i <= cursor[c] BY <3>2, <3>3, <3>4 DEF ReadAlready
    <3>6. cursor[c] <= shown[c] BY <3>2 DEF Core, Honest, Within
    <3>7. p[2] <= shown[p[1]] BY <3>2, <3>3, <3>5, <3>6
    <3> QED BY <2>2, <3>7 DEF Logged
  <2>9. \A j \in checks' : j.at = "show" /\ j.read = TRUE /\ j.ping[1] \notin blind => Safe(j.ping)'
    BY <1>4, <2>5, <2>6, <2>8 DEF Tracked
  <2>10. \A r1 \in pinging : Pending(r1) => Pending(r1)'
    <3>1. m.ping = k.ping /\ m \in checks' BY <2>1, <2>5, <2>6
    <3> QED BY <2>6, <3>1 DEF Pending
  <2> QED BY <2>6, <2>7, <2>9, <2>10 DEF Tracked
<1>13. ASSUME NEW k \in checks, MaybeShow(k)
       PROVE  /\ \A q \in pushes' : q[2] \in pinging
              /\ \A m \in checks' : CheckShape(m)
              /\ \A r \in pinging : Pending(r) => Pending(r)' \/ Safe(r)' \/ Coming(r)
              /\ \A m \in checks' : m.at = "show" /\ m.read = TRUE /\ m.ping[1] \notin blind => Safe(m.ping)'
  <2>1. /\ k.at = "show" /\ checks' = checks \ {k} /\ UNCHANGED <<jobs, pushes>>
        /\ ~k.read => k.ping \in noticed'
        /\ k.read /\ k.ping[1] \in blind => k.ping \in missed'
    BY <1>13 DEF MaybeShow
  <2>2. k.read \in BOOLEAN BY DEF Tracked, CheckShape
  <2>3. Safe(k.ping)'
    <3>1. CASE ~k.read BY <2>1, <3>1 DEF Safe
    <3>2. CASE k.read /\ k.ping[1] \in blind BY <2>1, <3>2 DEF Safe
    <3>3. CASE k.read /\ k.ping[1] \notin blind
      <4>1. k.read = TRUE BY <2>2, <3>3
      <4>2. Safe(k.ping) BY <2>1, <3>3, <4>1 DEF Tracked
      <4> QED BY <1>4, <4>2
    <3> QED BY <3>1, <3>2, <3>3
  <2>4. \A r \in pinging : r # k.ping /\ Pending(r) => Pending(r)' BY <2>1 DEF Pending
  <2> QED BY <1>4, <2>1, <2>3, <2>4 DEF Tracked
<1> QED BY <1>10, <1>11, <1>12, <1>13

\* Every step.
LEMMA TracksNext ==
  ASSUME Core, Routed, Logged, Tracked, AlertsNext
  PROVE  Logged' /\ Tracked'
<1>1. Typed BY DEF Core
<1>2. ASSUME ReadStep, FramesStay, UNCHANGED <<jobs, pushes, checks, reached, missed>> PROVE Logged' /\ Tracked'
  <2>1. Logged' /\ noticed \subseteq noticed' BY <1>1, <1>2, LoggedKeeps
  <2>2. limit' = limit /\ pinging' = pinging /\ blind \subseteq blind' BY <1>2 DEF ReadStep
  <2>3. \A p : Coming(p) => Coming(p)' BY <1>2, <2>2, StillComing
  <2> QED BY <1>2, <2>1, <2>2, <2>3, TrackedKeeps
<1>3. in' = in => FramesStay BY DEF FramesStay
<1>4. ASSUME NEW t \in limit.tabs, TabAlerts(t) PROVE Logged' /\ Tracked'
  <2>1. CASE UserNext(t) /\ UNCHANGED alertvars
    <3>1. ReadStep /\ in' = in BY <1>1, <2>1, UserLogged
    <3>2. UNCHANGED <<jobs, pushes, checks, reached, missed>> BY <2>1 DEF alertvars, delivery
    <3> QED BY <1>2, <1>3, <3>1, <3>2
  <2>2. CASE TakeAndAlert(t) BY <1>1, <2>2, TakeTracks
  <2>3. CASE DropAndMiss(t) BY <1>1, <2>3, DropTracks
  <2>4. CASE ConnectAndRenew(t)
    <3>1. Connect(t) /\ UNCHANGED <<jobs, pushes, checks, reached, missed>> BY <2>4 DEF ConnectAndRenew, delivery
    <3>2. ReadStep /\ in' = in BY <1>1, <3>1, SocketLogged
    <3> QED BY <1>2, <1>3, <3>1, <3>2
  <2>5. CASE Unregister(t) \/ (\E want \in BOOLEAN : SetEnabled(t, want)) \/ \E c \in Chan : NotificationClick(c, t)
    <3>1. /\ UNCHANGED <<limit, log, pinging, shown, blind, tab, in, calls>> /\ noticed \subseteq noticed'
          /\ UNCHANGED <<jobs, pushes, checks, reached, missed>>
      BY <2>5 DEF Unregister, SetEnabled, NotificationClick, vars, server, bounds, ghosts, delivery
    <3> QED BY <1>2, <3>1, StillLogged
  <2> QED BY <1>4, <2>1, <2>2, <2>3, <2>4, <2>5 DEF TabAlerts
<1>5. ASSUME NEW k \in calls, CallNext(k), UNCHANGED alertvars PROVE Logged' /\ Tracked'
  <2>1. ReadStep /\ FramesStay BY <1>1, <1>5, CallLogged
  <2>2. UNCHANGED <<jobs, pushes, checks, reached, missed>> BY <1>5 DEF alertvars, delivery
  <2> QED BY <1>2, <2>1, <2>2
<1>6. ASSUME NEW x \in chores, ChoreNext(x) PROVE Logged' /\ Tracked'
  <2>1. /\ UNCHANGED <<limit, log, pinging, shown, blind, tab, in, calls>> /\ noticed \subseteq noticed'
        /\ UNCHANGED <<jobs, pushes, checks, reached, missed>>
    BY <1>6 DEF ChoreNext, AnswerPrompt, EnablePush, DisablePush, PushSubscriptionChange, ChoreFails,
       vars, server, bounds, ghosts, delivery
  <2> QED BY <1>2, <2>1, StillLogged
<1>7. CASE PostPings BY <1>1, <1>7, PostTracks
<1>8. CASE WorkerNext
  <2>1. CASE Rotate
    <3>1. /\ UNCHANGED <<limit, log, pinging, shown, blind, tab, in, calls>> /\ noticed \subseteq noticed'
          /\ UNCHANGED <<jobs, pushes, checks, reached, missed>>
      BY <2>1 DEF Rotate, server, ghosts, delivery
    <3> QED BY <1>2, <3>1, StillLogged
  <2>2. ASSUME NEW r \in routes, RouteToPermalink(r) PROVE Logged' /\ Tracked'
    <3>1. UNCHANGED <<jobs, pushes, checks, reached, missed>> BY <2>2 DEF RouteToPermalink, delivery
    <3>2. r.t \in limit.tabs /\ r.ping[1] \in Chan BY DEF Routed
    <3>3. CASE UNCHANGED vars
      <4>1. UNCHANGED <<limit, log, pinging, shown, blind, tab, in, calls, noticed>>
        BY <3>3 DEF vars, server, bounds, ghosts
      <4> QED BY <1>2, <3>1, <4>1, StillLogged
    <3>4. CASE Jump(r.t, r.ping[1])
      <4>1. ReadStep /\ in' = in BY <1>1, <3>2, <3>4, JumpLogged
      <4> QED BY <1>2, <1>3, <3>1, <4>1
    <3> QED BY <2>2, <3>3, <3>4 DEF RouteToPermalink
  <2> QED BY <1>8, <2>1, <2>2, PushTracks DEF WorkerNext
<1> QED BY <1>4, <1>5, <1>6, <1>7, <1>8 DEF AlertsNext

\* A message that pings the user reaches him: once nothing is under way, every
\* ping has been shown, badged or notified, or was lost in one of the named
\* ways. (sendPushNotifications, maybeShow, onMessageEvent, firePing)
THEOREM ThePingReaches == AlertsSpec => []PingReaches
<1>1. AlertsInit => Core /\ Routed /\ Logged /\ Tracked BY CoreInit, TrackedInit
<1>2. Core /\ Routed /\ Logged /\ Tracked /\ [AlertsNext]_allvars => (Core /\ Routed /\ Logged /\ Tracked)'
  <2> SUFFICES ASSUME Core, Routed, Logged, Tracked, [AlertsNext]_allvars
               PROVE  (Core /\ Routed /\ Logged /\ Tracked)'
    OBVIOUS
  <2>1. CASE AlertsNext BY <2>1, AlertSteps, TracksNext
  <2>2. CASE UNCHANGED allvars
    <3>1. UNCHANGED corevars BY <2>2 DEF allvars, vars, corevars, server, bounds, ghosts
    <3>2. Routed' BY <2>2, <3>1 DEF Routed, corevars, allvars, alertvars, clicks
    <3>3. UNCHANGED <<limit, log, pinging, shown, blind, tab, in, calls, noticed, jobs, pushes, checks, reached, missed>>
      BY <2>2 DEF allvars, vars, server, bounds, ghosts, alertvars, delivery
    <3>4. ReadStep /\ FramesStay BY <3>3, StillLogged
    <3>5. Logged'
      <4>1. Typed BY DEF Core
      <4> QED BY <3>4, <4>1, LoggedKeeps
    <3>6. \A p : Coming(p) => Coming(p)' BY <3>3, <3>4, StillComing
    <3>7. Tracked' BY <3>3, <3>6, TrackedKeeps
    <3> QED BY <3>1, <3>2, <3>5, <3>7, SameCore
  <2> QED BY <2>1, <2>2
<1>3. Core /\ Logged /\ Tracked => PingReaches
  <2> SUFFICES ASSUME Typed, Tracked, Settled, NEW p \in pinging PROVE Safe(p)
    BY DEF PingReaches, Safe, Core
  <2>1. jobs = {} /\ pushes = {} /\ checks = {} /\ \A t \in limit.tabs : in[t] = <<>> BY DEF Settled
  <2>2. DOMAIN <<>> = {} OBVIOUS
  <2>3. ~Pending(p) BY <2>1 DEF Pending
  <2>4. ~Coming(p) BY <2>1, <2>2 DEF Coming
  <2> QED BY <2>3, <2>4 DEF Tracked
<1> QED BY <1>1, <1>2, <1>3, PTL DEF AlertsSpec
===============================================================================
