-------------------------------- MODULE Alerts --------------------------------
(***************************************************************************)
(* How a ping reaches the user of ReadState (notify.js, notifyui.js, sw.js,*)
(* sendPushNotifications): the badge and chime of a connected tab, the OS  *)
(* notification of an unfocused one, and Web Push through the service      *)
(* worker when no socket is held. All tabs are in one browser and share    *)
(* its push subscription; the worker runs whether or not a tab does.       *)
(*                                                                         *)
(* A chore is an async function of a tab or of the worker that waits at an *)
(* await; it goes on in one step per await. Left out: muted channels, calls*)
(* that ring, the window that openWindow opens, servers without VAPID keys.*)
(***************************************************************************)
EXTENDS ReadState

CONSTANT MaxEndpoints  \* bound: push endpoints the browser hands out

VARIABLES
  held,    \* hub.byUser: tabs whose socket the server holds
  enabled, \* notifyui: the opt-in as each tab has it
  granted, \* browser: Notification.permission is "granted"
  sub,     \* browser: the endpoint of its push subscription, 0 for none
  subs,    \* server: push_subscriptions
  issued,  \* browser: how many endpoints it has handed out
  chores,  \* async functions under way
  jobs,    \* server: sendPushNotifications goroutines, the pings they carry
  pushes,  \* push service: <<endpoint, ping>>
  checks,  \* worker: maybeShow calls, before and after the answer
  note,    \* OS: the message a channel's notification is for, 0 for none
  routes,  \* deliveries of a click, <<tab, ping>>
  routed,  \* notifyui: lastRouted of each tab
  wanted,  \* ghost: what the last toggle asked for
  crossed, \* ghost: chores overlapped, one failed, or one went by a stale opt-in
  reached, \* ghost: pings a socket has taken the frame of, and not lost
  missed   \* ghost: pings lost on a way the named cases allow

browser == <<enabled, granted, sub, issued, chores, wanted, crossed>>
delivery == <<jobs, pushes, checks, note, reached, missed>>
clicks == <<routes, routed>>
alertvars == <<held, browser, subs, delivery, clicks>>
allvars == <<vars, alertvars>>

NoTab == "worker"
Chore(who, op, at, ep) == [who |-> who, op |-> op, at |-> at, ep |-> ep, was |-> 0]
Carries(f, p) == f.type = "new" /\ <<f.chan, f.at>> = p
Pings(t) == {p \in pinging : \E q \in DOMAIN in[t] : Carries(in[t][q], p)}

AlertsInit ==
  LET opted == "opted" \in limit.ops
  IN  /\ Init
      /\ held = {t \in limit.tabs : tab[t].link = "up"}
      /\ enabled = [t \in limit.tabs |-> opted] /\ granted = opted /\ wanted = opted
      /\ sub = (IF opted THEN 1 ELSE 0) /\ issued = sub /\ subs = {sub} \ {0}
      /\ chores = {} /\ jobs = {} /\ pushes = {} /\ checks = {} /\ note = [c \in Chan |-> 0]
      /\ routes = {} /\ routed = [t \in limit.tabs |-> <<First, 0>>]
      /\ crossed = FALSE /\ reached = {} /\ missed = {}

-----------------------------------------------------------------------------
(* The opt-in and the subscription.                                        *)

Started(x) == chores' = chores \cup {x} /\ crossed' = (crossed \/ chores # {})
GoesOn(x, y) == chores' = (chores \ {x}) \cup {y}
Ends(x) == chores' = chores \ {x}

\* setEnabled: on asks the OS first, off drops the preference at once.
SetEnabled(t, want) ==
  /\ Moves("notif") /\ Running(t) /\ enabled[t] # want
  /\ wanted' = want
  /\ IF want THEN Started(Chore(t, "on", "prompt", 0)) /\ UNCHANGED enabled
             ELSE Started(Chore(t, "off", "find", 0)) /\ enabled' = [enabled EXCEPT ![t] = FALSE]
  /\ UNCHANGED <<server, tab, in, calls, limit, faults, ghosts, held, granted, sub, issued, subs, delivery, clicks>>

\* requestNotificationPermission is answered; a denial turns the opt-in off.
AnswerPrompt(x, yes) ==
  /\ x.op = "on" /\ x.at = "prompt" /\ (yes \/ ~granted)
  /\ granted' = yes /\ enabled' = [enabled EXCEPT ![x.who] = yes]
  /\ IF yes THEN GoesOn(x, [x EXCEPT !.at = "subscribe"]) /\ UNCHANGED wanted
            ELSE Ends(x) /\ wanted' = (wanted /\ chores # {x})
  /\ UNCHANGED <<vars, held, sub, issued, crossed, subs, delivery, clicks>>

Fresh == sub = 0 /\ issued < MaxEndpoints
\* enablePush: the key, then subscribeToPush, which reuses a subscription;
\* then the server is told.
EnablePush(x) ==
  /\ x.op = "on"
  /\ \/ /\ x.at = "subscribe" /\ (sub # 0 \/ Fresh)
        /\ sub' = (IF sub = 0 THEN issued + 1 ELSE sub)
        /\ issued' = IF sub = 0 THEN issued + 1 ELSE issued
        /\ GoesOn(x, [x EXCEPT !.at = "tell", !.ep = sub']) /\ UNCHANGED subs
     \/ x.at = "tell" /\ subs' = subs \cup {x.ep} /\ Ends(x) /\ UNCHANGED <<sub, issued>>
  /\ UNCHANGED <<vars, held, enabled, granted, wanted, crossed, delivery, clicks>>

\* disablePush: unsubscribeFromPush, then the server is told.
DisablePush(x) ==
  /\ x.op = "off"
  /\ \/ /\ x.at = "find" /\ UNCHANGED <<sub, subs>>
        /\ IF sub = 0 THEN Ends(x) ELSE GoesOn(x, [x EXCEPT !.at = "drop", !.ep = sub])
     \/ /\ x.at = "drop" /\ sub' = (IF sub = x.ep THEN 0 ELSE sub)
        /\ GoesOn(x, [x EXCEPT !.at = "tell"]) /\ UNCHANGED subs
     \/ x.at = "tell" /\ subs' = subs \ {x.ep} /\ Ends(x) /\ UNCHANGED sub
  /\ UNCHANGED <<vars, held, enabled, granted, issued, wanted, crossed, delivery, clicks>>

\* The browser replaces the endpoint and wakes the worker.
Rotate ==
  /\ Allowed("rotate") /\ faults < limit.faults /\ faults' = faults + 1
  /\ sub # 0 /\ issued < MaxEndpoints
  /\ sub' = issued + 1 /\ issued' = issued + 1
  /\ Started([Chore(NoTab, "renew", "tell", issued + 1) EXCEPT !.was = sub])
  /\ UNCHANGED <<server, tab, in, calls, limit, moves, ghosts, held, enabled, granted, wanted, subs, delivery, clicks>>

\* Mutated form: the worker only drops the old endpoint.
PushSubscriptionForget(x) ==
  /\ x.op = "renew" /\ subs' = subs \ {x.was} /\ Ends(x)
  /\ UNCHANGED <<vars, held, enabled, granted, sub, issued, wanted, crossed, delivery, clicks>>
\* pushsubscriptionchange: the new endpoint first, then the old one goes.
PushSubscriptionChange(x) ==
  /\ x.op = "renew"
  /\ \/ x.at = "tell" /\ subs' = subs \cup {x.ep} /\ GoesOn(x, [x EXCEPT !.at = "forget"])
     \/ x.at = "forget" /\ subs' = subs \ {x.was} /\ Ends(x)
  /\ UNCHANGED <<vars, held, enabled, granted, sub, issued, wanted, crossed, delivery, clicks>>

\* A best-effort call is lost: the chore gives up.
ChoreFails(x) ==
  /\ Allowed("fail") /\ faults < limit.faults /\ faults' = faults + 1 /\ x.at # "prompt"
  /\ Ends(x) /\ crossed' = TRUE
  /\ UNCHANGED <<server, tab, in, calls, limit, moves, ghosts, held, enabled, granted, sub, issued, wanted,
                 subs, delivery, clicks>>

-----------------------------------------------------------------------------
(* A ping on its way.                                                      *)

\* handleSendMessage: recordPings and the broadcast are in Post; the goroutine
\* starts after them.
PostPings ==
  /\ PostNext /\ jobs' = jobs \cup (pinging' \ pinging)
  /\ reached' = IF \E t \in limit.tabs : tab[t].link = "up" THEN reached \cup (pinging' \ pinging) ELSE reached
  /\ UNCHANGED <<held, browser, subs, pushes, checks, note, missed, clicks>>

\* IsConnected
Connected == held # {}
\* sendPushNotifications: whoever has a socket gets no push, dead or alive.
SendPushNotifications(p) ==
  /\ jobs' = jobs \ {p}
  /\ pushes' = IF Connected THEN pushes ELSE pushes \cup (subs \X {p})
  /\ missed' = IF (Connected /\ p \notin reached) \/ (~Connected /\ sub \notin subs) THEN missed \cup {p} ELSE missed
  /\ UNCHANGED <<vars, held, browser, subs, checks, note, reached, clicks>>

\* The push service delivers, or reports the endpoint gone, which prunes it.
PushArrives(q) ==
  /\ pushes' = pushes \ {q}
  /\ IF q[1] = sub
       THEN checks' = checks \cup {[ping |-> q[2], at |-> "ask", read |-> FALSE]} /\ UNCHANGED <<subs, missed>>
       ELSE subs' = subs \ {q[1]} /\ missed' = missed \cup {q[2]} /\ UNCHANGED checks
  /\ UNCHANGED <<vars, held, browser, jobs, note, reached, clicks>>

\* Mutated form: a channel that has been read at all is taken for read.
ReadAtAll(p) == cursor[p[1]] > 0
\* /api/unread leaves out a channel in which nothing is unread.
ReadAlready(p) == log[p[1]] = cursor[p[1]] \/ p[2] <= cursor[p[1]]
\* maybeShow asks for the cursor; a failed call counts as unread.
MaybeShowAsks(k, fails) ==
  /\ k.at = "ask" /\ (fails => Allowed("fail"))
  /\ checks' = (checks \ {k}) \cup {[k EXCEPT !.at = "show", !.read = ~fails /\ ReadAlready(k.ping)]}
  /\ UNCHANGED <<vars, held, browser, subs, jobs, pushes, note, reached, missed, clicks>>
\* What was marked read before it was seen is not shown either.
MaybeShow(k) ==
  /\ k.at = "show" /\ checks' = checks \ {k}
  /\ IF k.read THEN UNCHANGED <<note, noticed>>
     ELSE note' = [note EXCEPT ![k.ping[1]] = k.ping[2]] /\ noticed' = noticed \cup {k.ping}
  /\ missed' = IF k.read /\ k.ping[1] \in blind THEN missed \cup {k.ping} ELSE missed
  /\ UNCHANGED <<server, tab, in, calls, bounds, shown, strayed, blind, wish, held, browser, subs, jobs, pushes,
                 reached, clicks>>

\* shouldNotify
ShouldNotify(t) == enabled[t] /\ granted
\* firePing: an OS notification if the tab is not looked at and it was opted in.
FirePing(t) ==
  LET f == Head(in[t])
      fires == /\ f.type = "new" /\ <<f.chan, f.at>> \in pinging /\ Unseen(tab[t], f.chan)
               /\ TabUnfocused(tab[t]) /\ ShouldNotify(t)
  IN  note' = IF fires THEN [note EXCEPT ![f.chan] = f.at] ELSE note
\* A pane that is being loaded takes what comes in for read, and may then be
\* drawn from an answer that is older than it.
Overlooked(t) ==
  {p \in pinging : Carries(Head(in[t]), p) /\ ~Unseen(tab[t], p[1]) /\ tab[t].pane # "shown"}
TakeAndAlert(t) ==
  /\ Take(t) /\ FirePing(t) /\ missed' = missed \cup Overlooked(t)
  /\ UNCHANGED <<held, browser, subs, jobs, pushes, checks, reached, clicks>>

\* notificationclick: the worker hands the permalink to a tab, twice.
NotificationClick(c, t) ==
  /\ Moves("click") /\ note[c] # 0 /\ Running(t)
  /\ note' = [note EXCEPT ![c] = 0]
  /\ routes' = routes \cup {[t |-> t, ping |-> <<c, note[c]>>, way |-> w] : w \in {"hash", "message"}}
  /\ UNCHANGED <<server, tab, in, calls, limit, faults, ghosts, held, browser, subs, jobs, pushes, checks,
                 reached, missed, routed>>
\* decidePermalinkRoute, both deliveries being within its window
Skips(r) == routed[r.t] = r.ping
\* routeToPermalink: the second delivery is dropped.
RouteToPermalink(r) ==
  /\ routes' = routes \ {r}
  /\ IF Skips(r) THEN UNCHANGED <<vars, routed>>
     ELSE routed' = [routed EXCEPT ![r.t] = r.ping] /\ Jump(r.t, r.ping[1]) /\ UNCHANGED moves
  /\ UNCHANGED <<held, browser, subs, delivery>>

-----------------------------------------------------------------------------
(* Sockets.                                                                *)

\* The hub lets go of a dead socket.
Unregister(t) ==
  /\ t \in held /\ tab[t].link # "up" /\ held' = held \ {t}
  /\ UNCHANGED <<vars, browser, subs, delivery, clicks>>
\* What no other tab is about to take is lost, unless a push may still come.
OnlyIn(t) == Pings(t) \ UNION {Pings(u) : u \in limit.tabs \ {t}}
DropAndMiss(t) ==
  /\ \E told \in BOOLEAN : Drop(t, told)
  /\ reached' = reached \ OnlyIn(t)
  /\ missed' = missed \cup (OnlyIn(t) \ jobs)
  /\ UNCHANGED <<held, browser, subs, jobs, pushes, checks, note, clicks>>
\* initPushRouting renews the subscription of a tab that starts opted in, by
\* what it loaded: another tab may have opted out since.
ConnectAndRenew(t) ==
  /\ Connect(t) /\ held' = held \cup {t}
  /\ IF tab[t].link = "start" /\ enabled[t] /\ granted
       THEN /\ chores' = chores \cup {Chore(t, "on", "subscribe", 0)}
            /\ crossed' = (crossed \/ chores # {} \/ ~wanted)
       ELSE UNCHANGED <<chores, crossed>>
  /\ UNCHANGED <<enabled, granted, sub, issued, wanted, subs, delivery, clicks>>

-----------------------------------------------------------------------------
TabAlerts(t) ==
  \/ UserNext(t) /\ UNCHANGED alertvars
  \/ TakeAndAlert(t) \/ DropAndMiss(t) \/ ConnectAndRenew(t) \/ Unregister(t)
  \/ \E want \in BOOLEAN : SetEnabled(t, want)
  \/ \E c \in Chan : NotificationClick(c, t)
ChoreNext(x) ==
  \/ \E yes \in BOOLEAN : AnswerPrompt(x, yes)
  \/ EnablePush(x) \/ DisablePush(x) \/ PushSubscriptionChange(x) \/ ChoreFails(x)
WorkerNext ==
  \/ Rotate
  \/ \E p \in jobs : SendPushNotifications(p)
  \/ \E q \in pushes : PushArrives(q)
  \/ \E k \in checks, fails \in BOOLEAN : MaybeShowAsks(k, fails)
  \/ \E k \in checks : MaybeShow(k)
  \/ \E r \in routes : RouteToPermalink(r)
AlertsNext ==
  \/ \E t \in limit.tabs : TabAlerts(t)
  \/ \E k \in calls : CallNext(k) /\ UNCHANGED alertvars
  \/ \E x \in chores : ChoreNext(x)
  \/ PostPings \/ WorkerNext
AlertsSpec == AlertsInit /\ [][AlertsNext]_allvars

-----------------------------------------------------------------------------
(* Properties.                                                             *)

Settled == calls = {} /\ jobs = {} /\ pushes = {} /\ checks = {} /\ \A t \in limit.tabs : in[t] = <<>>

\* When nothing is under way, every ping has been shown, badged or notified, or
\* it was lost in one of the named ways: no live socket and no subscription, an
\* endpoint rotated under it, a socket that died with it or was opened after it
\* was posted, a pane that was being loaded, a channel marked read unseen.
\* (sendPushNotifications, maybeShow, onMessageEvent, firePing)
PingReaches == Settled => pinging \subseteq noticed \cup missed

\* When toggles did not overlap, not even with the start of a tab, and nothing
\* failed, the browser is subscribed exactly when the last toggle asked for it,
\* and the server knows that endpoint and no other of this browser. (enablePush,
\* disablePush, initPushRouting, pushsubscriptionchange)
SubscriptionFollows ==
  chores = {} /\ ~crossed => /\ wanted <=> sub # 0
                             /\ subs = {sub} \ {0}
=============================================================================
