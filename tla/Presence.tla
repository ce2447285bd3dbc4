------------------------------- MODULE Presence -------------------------------
(***************************************************************************)
(* Who is online, away or idle: the hub's connections, the announcements of*)
(* onPresenceChange and handleSetStatus, and what the tabs of the users    *)
(* show of each other (hub.go, realtime.go, handlers_users.go, presence.js,*)
(* the idle detection and the debounce of app.js).                         *)
(*                                                                         *)
(* An announcement runs on the goroutine of its connection or request, so  *)
(* two of one user may cross: that case is named in `blurred`. A tab's     *)
(* socket is opened and registered in one step; the server notices a       *)
(* broken one later (Reap), perhaps after the reconnect. Left out: bots,   *)
(* disabled accounts, slow clients, user.update.                           *)
(***************************************************************************)
EXTENDS Integers, Sequences, SequencesExt, FiniteSets

CONSTANTS
  User,    \* people
  Limits   \* bound: the instances, one of which is chosen at the start

ASSUME LimitsAssumption == \A l \in Limits : l.late \subseteq l.tabs /\ l.who \in [l.tabs -> User]

VARIABLES
  limit,   \* the instance: tabs, who they belong to, what happens and how often
  moves,   \* how many things users have done
  faults,  \* how many things have gone wrong
  status,  \* server: users.status
  conns,   \* server: hub.byUser, each connection with its idle flag
  telling, \* server: announcements under way
  link,    \* the tab's socket is open
  gen,     \* how many sockets the tab has opened
  in,      \* frames on the way to the tab
  wire,    \* idle frames on the way to the server
  shown,   \* client: the presence of state.users
  pending, \* client: pendingPresence
  idle,    \* client: isIdle
  blurred, \* ghost: <<tab, user>> that a named case has put out of step
  hushed   \* ghost: idle tabs that the server has not been told of

server == <<status, conns, telling>>
net == <<link, gen, in, wire>>
people == <<shown, pending, idle, blurred, hushed>>
presence == <<limit, moves, faults, server, net, people>>

Tabs == limit.tabs
Me(t) == limit.who[t]
Allowed(what) == what \in limit.ops
Moves(what) == Allowed(what) /\ moves < limit.moves /\ moves' = moves + 1
Fails(what) == Allowed(what) /\ faults < limit.faults /\ faults' = faults + 1

Unset == [none |-> TRUE]
Conn(t) == [tab |-> t, gen |-> gen[t]]
Held(u) == {c \in conns : Me(c.tab) = u}
\* userIdleLocked.
IdleIn(cs, u) == LET mine == {c \in cs : Me(c.tab) = u} IN mine # {} /\ \A c \in mine : c.idle
\* The presence a list of users gives (handleListUsers).
Effective(u) == [online |-> Held(u) # {} /\ status[u] # "offline", status |-> status[u], idle |-> IdleIn(conns, u)]

PresenceInit ==
  /\ limit \in Limits /\ moves = 0 /\ faults = 0
  /\ status = [u \in User |-> "online"] /\ telling = {}
  /\ link = [t \in Tabs |-> t \notin limit.late] /\ gen = [t \in Tabs |-> IF t \in limit.late THEN 0 ELSE 1]
  /\ conns = {[tab |-> t, gen |-> 1, idle |-> FALSE] : t \in Tabs \ limit.late}
  /\ in = [t \in Tabs |-> <<>>] /\ wire = [t \in Tabs |-> <<>>]
  /\ shown = [t \in Tabs |-> [u \in User |-> Effective(u)]]
  /\ pending = [t \in Tabs |-> [u \in User |-> Unset]]
  /\ idle = [t \in Tabs |-> FALSE] /\ blurred = {} /\ hushed = {}

-----------------------------------------------------------------------------
(* The hub and its announcements.                                          *)

\* Broadcast: a nil audience is everyone. Only the present socket of a tab reads.
Sent(event, audience) ==
  [t \in Tabs |-> IF link[t] /\ Me(t) \in audience /\ \E c \in conns : c.tab = t /\ c.gen = gen[t]
                    THEN Append(in[t], event) ELSE in[t]]

About(u) == {x \in telling : x.user = u}
Announce(by, u, online, row) ==
  telling' = telling \cup {[by |-> by, user |-> u, online |-> online, row |-> row]}
\* Two announcements of one user at once, or one that says what is not so.
BlurIf(cond, u) == blurred' = IF cond THEN blurred \cup (Tabs \X {u}) ELSE blurred
Busy(c) == \E x \in telling : x.by = <<c.tab, c.gen>>

\* Serve, add: the first connection, or one that ends the user's idleness, is announced.
Register(t) ==
  LET c == [tab |-> t, gen |-> gen[t] + 1, idle |-> FALSE]
      u == Me(t)
  IN
  /\ conns' = conns \cup {c} /\ gen' = [gen EXCEPT ![t] = @ + 1] /\ link' = [link EXCEPT ![t] = TRUE]
  /\ IF Held(u) = {} \/ IdleIn(conns, u) # IdleIn(conns', u)
       THEN Announce(<<t, c.gen>>, u, TRUE, "") /\ BlurIf(About(u) # {}, u)
       ELSE UNCHANGED <<telling, blurred>>

\* The read pump of a broken socket ends: remove, and the last one goes offline.
Reap(c) ==
  LET u == Me(c.tab) IN
  /\ ~Busy(c) /\ (~link[c.tab] \/ c.gen # gen[c.tab])
  /\ conns' = conns \ {c}
  /\ IF Held(u) = {c} THEN Announce(<<c.tab, c.gen>>, u, FALSE, "") /\ BlurIf(About(u) # {}, u)
     ELSE IF IdleIn(conns, u) # IdleIn(conns', u)
       THEN Announce(<<c.tab, c.gen>>, u, TRUE, "") /\ BlurIf(About(u) # {}, u)
       ELSE UNCHANGED <<telling, blurred>>
  /\ UNCHANGED <<limit, moves, faults, status, net, shown, pending, idle, hushed>>

\* An idle frame: SetClientIdle, announced when the user's idleness changes.
OnIdleFrame(c) ==
  LET t == c.tab
      u == Me(t)
      after == (conns \ {c}) \cup {[c EXCEPT !.idle = Head(wire[t])]}
  IN
  /\ c.gen = gen[t] /\ link[t] /\ wire[t] # <<>> /\ ~Busy(c)
  /\ conns' = after /\ wire' = [wire EXCEPT ![t] = Tail(@)]
  /\ IF IdleIn(conns, u) # IdleIn(after, u)
       THEN Announce(<<t, c.gen>>, u, TRUE, "") /\ BlurIf(About(u) # {}, u)
       ELSE UNCHANGED <<telling, blurred>>
  /\ UNCHANGED <<limit, moves, faults, status, link, gen, in, shown, pending, idle, hushed>>

\* handleSetStatus: the row, then an announcement that knows neither whether
\* the user is connected nor whether they are idle.
SetStatus(t, s) ==
  LET u == Me(t) IN
  /\ Moves("status") /\ s # status[u] /\ <<t, 0>> \notin {x.by : x \in telling}
  /\ status' = [status EXCEPT ![u] = s]
  /\ Announce(<<t, 0>>, u, s # "offline", s)
  /\ BlurIf(About(u) # {} \/ Held(u) = {} \/ IdleIn(conns, u), u)
  /\ UNCHANGED <<limit, faults, conns, net, shown, pending, idle, hushed>>

\* onPresenceChange reads the status.
TellReads(x) ==
  /\ x.row = "" /\ telling' = (telling \ {x}) \cup {[x EXCEPT !.row = status[x.user]]}
  /\ UNCHANGED <<limit, moves, faults, status, conns, net, people>>

Frame(x) ==
  [type |-> "presence", user |-> x.user,
   is |-> [online |-> x.online /\ x.row # "offline", status |-> x.row,
           idle |-> x.by[2] # 0 /\ IdleIn(conns, x.user)]]
\* A frame that crosses a later change of the same user may be untrue.
TellSends(x) ==
  LET f == Frame(x) IN
  /\ x.row # "" /\ telling' = telling \ {x} /\ in' = Sent(f, User)
  /\ BlurIf(f.is # Effective(x.user) /\ About(x.user) # {x}, x.user)
  /\ UNCHANGED <<limit, moves, faults, status, conns, link, gen, wire, shown, pending, idle, hushed>>

-----------------------------------------------------------------------------
(* The tab.                                                                *)

\* setPresence
SetPresence(t, u, is) == shown' = [shown EXCEPT ![t][u] = is]

\* schedulePresenceUpdate: our own at once; a peer's supersedes a pending one,
\* and is dropped if it is what is shown, else waits out the debounce.
SchedulePresenceUpdate(t, u, is) ==
  IF u = Me(t) THEN SetPresence(t, u, is) /\ UNCHANGED pending
  ELSE /\ pending' = [pending EXCEPT ![t][u] = IF is = shown[t][u] THEN Unset ELSE is]
       /\ UNCHANGED shown

\* The debounce runs out: fanOutPresence.
FanOutPresence(t, u) ==
  /\ pending[t][u] # Unset
  /\ SetPresence(t, u, pending[t][u])
  /\ pending' = [pending EXCEPT ![t][u] = Unset]
  /\ UNCHANGED <<limit, moves, faults, server, net, idle, blurred, hushed>>

\* A frame sent while the socket is down is dropped.
SendWS(t, flag) == wire' = IF link[t] THEN [wire EXCEPT ![t] = Append(@, flag)] ELSE wire

\* goIdle, onActivity: the tab is left alone, or touched again.
IdleFlips(t) ==
  /\ Moves("idle") /\ idle' = [idle EXCEPT ![t] = ~@] /\ SendWS(t, ~idle[t])
  /\ hushed' = IF link[t] THEN hushed \ {t} ELSE hushed
  /\ UNCHANGED <<limit, faults, server, link, gen, in, shown, pending, blurred>>

-----------------------------------------------------------------------------
\* Nothing of user u is on its way anywhere.
Settled(u) == About(u) = {} /\ \A c \in conns : Me(c.tab) = u => link[c.tab] /\ c.gen = gen[c.tab] /\ wire[c.tab] = <<>>
\* What the tabs of u themselves say.
Said(u) == LET here == {t \in Tabs : Me(t) = u /\ link[t]}
           IN  [online |-> here # {} /\ status[u] # "offline", status |-> status[u],
                idle |-> here # {} /\ \A t \in here : idle[t]]
=============================================================================
