------------------------------ MODULE ReadState ------------------------------
(***************************************************************************)
(* What one user has read (unread.js, the unread reducers of state.js,     *)
(* app.js markActiveChannelRead and toggleMessageRead, store_read.go): the *)
(* cursor of each channel in the store, and in every tab a copy of it, the *)
(* badges, the marks that keep a channel unread, and the loaded messages.  *)
(*                                                                         *)
(* Atomic steps: the server serves one call; a tab runs a handler up to    *)
(* its next await. Frames reach a tab in order; calls under way are served *)
(* in any order and their answers wait for frames to overtake them.        *)
(*                                                                         *)
(* Abstracted: the messages of a channel are 1, 2, ... in order of id, all *)
(* written by others, some of which ping the user (a mention, a reply, a   *)
(* direct message); a load brings them all. Left out: deletions, mutes,    *)
(* the mention badge, and where the "New messages" divider is drawn.       *)
(***************************************************************************)
EXTENDS Naturals, Sequences, FiniteSets, FiniteSetsExt, SequencesExt

CONSTANTS
  Tab, Chan,
  First,     \* the channel a tab opens with
  MaxPosts,  \* bound: messages in a channel
  MaxMoves,  \* bound: what the user does
  MaxFaults, \* bound: calls that fail and sockets that die
  Limits     \* bound: the instances a run looks at, each with its bounds

ASSUME ReadAssumption == First \in Chan /\ IsFiniteSet(Tab) /\ IsFiniteSet(Chan)
ASSUME LimitsAssumption ==
  /\ MaxPosts \in Nat /\ MaxMoves \in Nat /\ MaxFaults \in Nat
  /\ Limits \subseteq [tabs : SUBSET Tab, late : SUBSET Tab, posts : 0..MaxPosts,
                       moves : 0..MaxMoves, faults : 0..MaxFaults, ops : SUBSET STRING]
  /\ \A l \in Limits : l.late \subseteq l.tabs

VARIABLES
  log,     \* server: how many messages a channel has
  pinging, \* server: message_mentions, <<channel, message>>
  cursor,  \* server: channel_reads
  tab,     \* what each tab keeps
  in,      \* frames under way to each tab
  calls,   \* API calls under way
  limit, moves, faults,
  shown,   \* ghost: the newest message shown to the user, by channel
  noticed, \* ghost: pings the user was told of
  strayed, \* ghost: the badges the code gets wrong, <<tab, channel>>
  blind,   \* ghost: channels marked read while their pane was being loaded
  wish     \* ghost: the message marked unread last, and by which tab

server == <<log, pinging, cursor>>
bounds == <<limit, moves, faults>>
ghosts == <<shown, noticed, strayed, blind, wish>>
vars == <<server, tab, in, calls, bounds, ghosts>>

Id == 1..(MaxPosts + 1)
None == [i |-> 0, t |-> {}]
\* link: "start" until the first connect; pane: what #message-list holds of the
\* active channel; marked: lastMarkedRead, 0 for undefined.
TabState ==
  [link : {"start", "up", "zombie", "down"}, wasOffline : BOOLEAN, active : Chan, focused : BOOLEAN,
   pane : {"loading", "shown", "error"}, list : [Chan -> SUBSET Id],
   unread : [Chan -> Nat], lastRead : [Chan -> 0..MaxPosts + 1], marked : [Chan -> 0..MaxPosts + 1],
   manual : SUBSET Chan]
Call ==
  [n : Nat, t : Tab, op : {"load", "jump", "reload", "summary", "read", "unread"}, chan : Chan,
   at : 0..MaxPosts + 1, served : {"no", "yes", "failed"}, page : [Chan -> Nat \X Nat]]

Allowed(op) == op \in limit.ops
Newest(S) == IF S = {} THEN 0 ELSE Max(S)
All(c) == 1..log[c]
Larger(a, b) == IF a > b THEN a ELSE b
Asked(K, t, op, c, at) ==
  [n |-> Min(1..(Cardinality(K) + 1) \ {k.n : k \in K}), t |-> t, op |-> op, chan |-> c, at |-> at,
   served |-> "no", page |-> [d \in Chan |-> <<0, 0>>]]
Frame(type, c, at) == [type |-> type, chan |-> c, at |-> at]

\* One message in every channel, read; tabs in the channel First, those of
\* limit.late about to ask for their first summary.
Init ==
  /\ limit \in Limits
  /\ log = [c \in Chan |-> 1] /\ pinging = {} /\ cursor = [c \in Chan |-> 1]
  /\ tab = [t \in limit.tabs |->
       [link |-> IF t \in limit.late THEN "start" ELSE "up", wasOffline |-> FALSE, active |-> First,
        focused |-> FALSE, pane |-> IF t \in limit.late THEN "loading" ELSE "shown",
        list |-> [c \in Chan |-> IF c = First /\ t \notin limit.late THEN {1} ELSE {}],
        unread |-> [c \in Chan |-> 0], lastRead |-> [c \in Chan |-> 1],
        marked |-> [c \in Chan |-> 0], manual |-> {}]]
  /\ in = [t \in limit.tabs |-> <<>>]
  /\ LET ask == {[Asked({}, t, "summary", First, 0) EXCEPT !.n = 1] : t \in limit.late} IN calls = ask
  /\ moves = 0 /\ faults = 0
  /\ shown = [c \in Chan |-> 1] /\ noticed = {} /\ strayed = {} /\ blind = {}
  /\ wish = [c \in Chan |-> None]

-----------------------------------------------------------------------------
(* Reducers: what a handler makes of the state s of its tab.               *)

\* clearUnread
Cleared(s, c) == [s EXCEPT !.unread[c] = 0]
\* bumpUnread, setUnread, setLastRead
BumpUnread(s, c) == [s EXCEPT !.unread[c] = @ + 1]
SetUnread(s, c, n) == [s EXCEPT !.unread[c] = n]
SetLastRead(s, c, i) == [s EXCEPT !.lastRead[c] = i]
\* unreadCountAfter
CountAfter(s, c, k) == Cardinality({i \in s.list[c] : i > k})
\* Mutated form: an open channel counts as being read, focus or not.
UnseenOutside(s, c) == s.active # c
\* tabUnfocused
TabUnfocused(s) == ~s.focused
\* classifyIncomingMessage: is a new message in c not being read right now?
Unseen(s, c) == s.active # c \/ TabUnfocused(s)

\* markActiveChannelRead: does it go on, and does it post?
Marks(s) == s.active \notin s.manual /\ s.list[s.active] # {}
Posts(s) == Marks(s) /\ s.marked[s.active] # Newest(s.list[s.active])
Marked(s) ==
  LET c == s.active
      top == Newest(s.list[c])
  IN  CASE ~Marks(s) -> s
        [] Marks(s) /\ ~Posts(s) -> Cleared(s, c)
        [] Posts(s) -> [SetLastRead(Cleared(s, c), c, top) EXCEPT !.marked[c] = top]

\* The trailing markActiveChannelRead of a handler that leaves tab t in state
\* s, with the calls K under way and the badges S already wrong. It is content
\* with what it posted before, also when another tab has lowered the cursor or
\* a load has brought an older list since; it does not care whether what it
\* marks has been drawn; and a mark of "unread" outlives the badge that another
\* tab, or an overtaken mark-read, has cleared. B: it is called when the user is looking elsewhere.
MarkActiveChannelRead(t, s, K, S, B) ==
  LET c == s.active
      top == Newest(s.list[c])
  IN  /\ tab' = [tab EXCEPT ![t] = Marked(s)]
      /\ calls' = IF Posts(s) THEN K \cup {Asked(K, t, "read", c, top)} ELSE K
      /\ strayed' = IF \/ Marks(s) /\ ~Posts(s) /\ (s.unread[c] > 0 \/ s.lastRead[c] < top)
                       \/ c \in s.manual /\ s.unread[c] = 0
                     THEN S \cup {<<t, c>>} ELSE S
      /\ blind' = IF Posts(s) /\ (B \/ s.pane # "shown") THEN blind \cup {c} ELSE blind
      /\ wish' = IF Posts(s) /\ wish[c].t # {t} THEN [wish EXCEPT ![c] = None] ELSE wish
Quiet(t, s, K, S) ==
  tab' = [tab EXCEPT ![t] = s] /\ calls' = K /\ strayed' = S /\ UNCHANGED <<blind, wish>>

\* c has been shown to the user up to message i.
Shows(c, i) ==
  /\ shown' = [shown EXCEPT ![c] = Larger(@, i)]
  /\ noticed' = noticed \cup {p \in pinging : p[1] = c /\ p[2] <= i}
Unchanged == UNCHANGED <<shown, noticed>>

-----------------------------------------------------------------------------
(* The user.                                                               *)

Moves(op) == Allowed(op) /\ moves < limit.moves /\ moves' = moves + 1
Running(t) == tab[t].link # "start"

\* onWindowFocus
Focus(t) ==
  LET s == [tab[t] EXCEPT !.focused = TRUE]
  IN  /\ Moves("focus") /\ ~tab[t].focused /\ Running(t)
      /\ MarkActiveChannelRead(t, s, calls, strayed, FALSE)
      /\ IF s.pane = "shown" THEN Shows(s.active, Newest(s.list[s.active])) ELSE Unchanged
      /\ UNCHANGED <<server, in, limit, faults>>
Blur(t) ==
  /\ Moves("focus") /\ tab[t].focused
  /\ Quiet(t, [tab[t] EXCEPT !.focused = FALSE], calls, strayed) /\ Unchanged
  /\ UNCHANGED <<server, in, limit, faults>>

\* selectChannel up to its await: the badge goes now, the cursor after the load.
SelectChannel(t, c) ==
  LET s == [Cleared(tab[t], c) EXCEPT !.active = c, !.manual = @ \ {c}, !.pane = "loading", !.focused = TRUE]
  IN  /\ Moves("select") /\ Running(t)
      /\ tab' = [tab EXCEPT ![t] = s]
      /\ calls' = calls \cup {Asked(calls, t, "load", c, 0)}
      /\ wish' = [wish EXCEPT ![c] = None]
      /\ Unchanged /\ UNCHANGED <<server, in, limit, faults, strayed, blind>>

\* jumpToMessage up to its await: the badge of another channel goes, and nothing
\* marks it read. A jump within the open channel leaves its pane to be seen.
Jump(t, c) ==
  LET s == IF c = tab[t].active THEN tab[t]
           ELSE [Cleared(tab[t], c) EXCEPT !.active = c, !.pane = "loading"]
  IN  /\ Running(t)
      /\ tab' = [tab EXCEPT ![t] = [s EXCEPT !.focused = TRUE]]
      /\ calls' = calls \cup {Asked(calls, t, "jump", c, 0)}
      /\ strayed' = IF s.unread # tab[t].unread THEN strayed \cup {<<t, c>>} ELSE strayed
      /\ IF s.pane = "shown" THEN Shows(c, Newest(s.list[c])) ELSE Unchanged
      /\ UNCHANGED <<server, in, limit, faults, blind, wish>>
JumpToMessage(t, c) == Moves("jump") /\ Jump(t, c)

\* toggleMessageRead of an unread message: everything up to it is read, and the
\* badge goes even if more is unread.
ToggleRead(t, i) ==
  LET c == tab[t].active
      s == [SetLastRead(Cleared(tab[t], c), c, i) EXCEPT !.marked[c] = i, !.manual = @ \ {c}]
  IN  /\ Moves("toggle") /\ tab[t].pane = "shown" /\ i \in tab[t].list[c] /\ i > tab[t].lastRead[c]
      /\ tab' = [tab EXCEPT ![t] = s]
      /\ calls' = calls \cup {Asked(calls, t, "read", c, i)}
      /\ wish' = [wish EXCEPT ![c] = None]
      /\ Shows(c, i)
      /\ UNCHANGED <<server, in, limit, faults, strayed, blind>>

\* toggleMessageRead of a read message.
ToggleUnread(t, i) ==
  LET c == tab[t].active
      s == [SetUnread(SetLastRead(tab[t], c, i - 1), c, CountAfter(tab[t], c, i - 1))
              EXCEPT !.marked[c] = 0, !.manual = @ \cup {c}]
      crossed == \E k \in calls : k.op \in {"read", "unread"} /\ k.chan = c /\ k.served = "no"
  IN  /\ Moves("toggle") /\ tab[t].pane = "shown" /\ i \in tab[t].list[c] /\ i <= tab[t].lastRead[c]
      /\ tab' = [tab EXCEPT ![t] = s]
      /\ calls' = calls \cup {Asked(calls, t, "unread", c, i)}
      /\ wish' = [wish EXCEPT ![c] = IF crossed THEN None ELSE [i |-> i, t |-> {t}]]
      /\ Unchanged /\ UNCHANGED <<server, in, limit, faults, strayed, blind>>

-----------------------------------------------------------------------------
(* The server.                                                             *)

\* A frame for every tab whose socket takes it; S: the badges wrong by now.
Broadcast(f, S) ==
  /\ in' = [t \in limit.tabs |-> IF tab[t].link = "up" THEN Append(in[t], f) ELSE in[t]]
  /\ strayed' = S \cup {<<t, f.chan>> : t \in {u \in limit.tabs : tab[u].link # "up"}}

\* Somebody posts.
Post(c, pings) ==
  LET i == log[c] + 1
  IN  /\ log[c] <= limit.posts /\ c = First /\ (pings => Allowed("ping"))
      /\ log' = [log EXCEPT ![c] = i]
      /\ pinging' = IF pings THEN pinging \cup {<<c, i>>} ELSE pinging
      /\ Broadcast(Frame("new", c, i), strayed)
      /\ Unchanged /\ UNCHANGED <<cursor, tab, calls, bounds, blind, wish>>

\* handleMarkRead, MarkRead: the store keeps the greater cursor, the frame has
\* the one asked for and clears every badge, whatever is newer than it.
MarkRead(k) ==
  LET c == k.chan
      fits == k.at = log[c]
  IN  /\ k.op = "read" /\ k.served = "no"
      /\ cursor' = [cursor EXCEPT ![c] = Larger(@, k.at)]
      /\ Broadcast(Frame("read", c, k.at),
                   IF fits THEN strayed ELSE strayed \cup (limit.tabs \X {c}))
      /\ calls' = (calls \ {k}) \cup {[k EXCEPT !.served = "yes"]}
      /\ Unchanged /\ UNCHANGED <<log, pinging, tab, bounds, blind, wish>>

\* handleMarkUnread, MarkUnread
MarkUnread(k) ==
  LET c == k.chan
  IN  /\ k.op = "unread" /\ k.served = "no"
      /\ cursor' = [cursor EXCEPT ![c] = k.at - 1]
      /\ Broadcast(Frame("unread", c, k.at - 1), strayed)
      /\ calls' = (calls \ {k}) \cup {[k EXCEPT !.served = "yes"]}
      /\ Unchanged /\ UNCHANGED <<log, pinging, tab, bounds, blind, wish>>

\* handleListMessages; handleUnread, UnreadSummary: how many are unread, and
\* the cursor.
ServeQuery(k) ==
  /\ k.op \notin {"read", "unread"} /\ k.served = "no"
  /\ calls' = (calls \ {k}) \cup
       {[k EXCEPT !.served = "yes",
                  !.page = [c \in Chan |-> IF k.op = "summary"
                                             THEN <<Cardinality({i \in All(c) : i > cursor[c]}), cursor[c]>>
                                             ELSE <<log[c], 0>>]]}
  /\ UNCHANGED <<server, tab, in, bounds, ghosts>>

\* A call fails before it is served, or its answer is lost.
Fail(k) ==
  /\ Allowed("fail") /\ faults < limit.faults /\ faults' = faults + 1
  /\ k.served # "failed"
  /\ calls' = (calls \ {k}) \cup {[k EXCEPT !.served = "failed"]}
  /\ strayed' = IF k.served = "no" THEN strayed \cup {<<k.t, k.chan>>} ELSE strayed
  /\ wish' = IF k.op = "unread" /\ k.served = "no" THEN [wish EXCEPT ![k.chan] = None] ELSE wish
  /\ Unchanged /\ UNCHANGED <<server, tab, in, limit, moves, blind>>

-----------------------------------------------------------------------------
(* Answers.                                                                *)

\* The catch of markActiveChannelRead and of toggleMessageRead.
AnswerMark(k) ==
  /\ k.op \in {"read", "unread"} /\ k.served # "no"
  /\ tab' = IF k.op = "read" /\ k.served = "failed" THEN [tab EXCEPT ![k.t].marked[k.chan] = 0] ELSE tab
  /\ calls' = calls \ {k}
  /\ UNCHANGED <<server, in, bounds, ghosts>>

\* A load is answered: setMessages, if the user has not moved on.
Loaded(k) ==
  LET s == tab[k.t]
      c == k.chan
  IN  CASE c # s.active -> s
        [] c = s.active /\ k.served = "yes" -> [s EXCEPT !.list[c] = 1..k.page[c][1], !.pane = "shown"]
        [] c = s.active /\ k.served = "failed" -> [s EXCEPT !.pane = "error"]

\* selectChannel after its await, focused or not; resync and enterApp after
\* theirs. What was opened and left before it was loaded keeps no badge and is
\* not marked. A jump marks nothing.
AnswerLoad(k) ==
  LET t == k.t
      s == Loaded(k)
      rest == calls \ {k}
      passed == k.op = "load" /\ (s.active # k.chan \/ k.served = "failed")
      wrong == IF passed THEN strayed \cup {<<t, k.chan>>} ELSE strayed
  IN  /\ k.op \in {"load", "jump", "reload"} /\ k.served # "no"
      /\ IF \/ k.op = "load" \/ (k.op = "reload" /\ (~TabUnfocused(s) \/ s.link = "start"))
           THEN MarkActiveChannelRead(t, s, rest, wrong, TabUnfocused(s)) ELSE Quiet(t, s, rest, wrong)
      /\ IF s.pane = "shown" /\ s.active = k.chan /\ s.focused THEN Shows(k.chan, Newest(s.list[k.chan])) ELSE Unchanged
      /\ UNCHANGED <<server, in, bounds>>

\* setUnreadSummary; a cursor of 0 is taken for none.
Summed(s, k) ==
  [s EXCEPT !.unread = [c \in Chan |-> k.page[c][1]],
            !.lastRead = [c \in Chan |-> IF k.page[c][2] = 0 THEN @[c] ELSE k.page[c][2]]]

\* resync and enterApp after the summary: the open channel is loaded, by
\* resync only at the live tail. told: what the summary still gets right.
AnswerSummary(k, near) ==
  LET t == k.t
      s == IF k.served = "yes" THEN Summed(tab[t], k) ELSE tab[t]
      rest == calls \ {k}
      late(c) == {p \in DOMAIN in[t] : in[t][p].chan = c}
      told == {c \in Chan : /\ k.served = "yes" /\ k.page[c][2] = cursor[c] /\ cursor[c] # 0
                            /\ \A p \in late(c) : in[t][p].type = "new"
                            /\ k.page[c][1] + Cardinality(late(c)) = Cardinality({i \in All(c) : i > cursor[c]})}
  IN  /\ k.op = "summary" /\ k.served # "no"
      /\ calls' = IF near \/ s.link = "start" THEN rest \cup {Asked(rest, t, "reload", s.active, 0)} ELSE rest
      /\ tab' = [tab EXCEPT ![t] = IF near \/ s.link = "start" THEN [s EXCEPT !.pane = "loading"] ELSE s]
      /\ strayed' = (strayed \ ({t} \X told)) \cup ({t} \X (Chan \ told))
      /\ noticed' = noticed \cup {p \in pinging : s.unread[p[1]] > 0 /\ k.served = "yes"}
      /\ UNCHANGED <<server, in, bounds, shown, blind, wish>>

-----------------------------------------------------------------------------
(* Frames and the socket.                                                  *)

\* onMessageEvent, for a message of somebody else
OnNew(t, c, i) ==
  LET s == [tab[t] EXCEPT !.list[c] = @ \cup {i}]
  IN  IF Unseen(s, c)
        THEN /\ Quiet(t, BumpUnread(s, c), calls, strayed)
             /\ noticed' = noticed \cup ({<<c, i>>} \cap pinging) /\ UNCHANGED shown
        ELSE /\ MarkActiveChannelRead(t, s, calls, strayed, FALSE)
             /\ IF s.pane = "shown" /\ s.focused THEN Shows(c, i) ELSE Unchanged

\* Mutated form: the cursor is taken over, the badge stays.
OnReadUpdateKeeps(t, c, k) ==
  Quiet(t, SetLastRead(tab[t], c, k), calls, strayed) /\ Unchanged
\* applyEvent on read.update
OnReadUpdate(t, c, k) ==
  Quiet(t, SetLastRead(Cleared(tab[t], c), c, k), calls, strayed) /\ Unchanged

\* applyEvent on read.unread: counted over what is loaded
OnReadUnread(t, c, k) ==
  LET n == CountAfter(tab[t], c, k)
  IN  /\ Quiet(t, SetUnread(SetLastRead(tab[t], c, k), c, n), calls,
               IF n = 0 THEN strayed \cup {<<t, c>>} ELSE strayed)
      /\ Unchanged

\* handleRealtimeEvent
Take(t) ==
  LET f == Head(in[t])
  IN  /\ in[t] # <<>> /\ in' = [in EXCEPT ![t] = Tail(@)]
      /\ CASE f.type = "new" -> OnNew(t, f.chan, f.at)
           [] f.type = "read" -> OnReadUpdate(t, f.chan, f.at)
           [] f.type = "unread" -> OnReadUnread(t, f.chan, f.at)
      /\ UNCHANGED <<server, bounds>>

\* The socket closes, and the tab is told; or it dies in a sleeping page.
Drop(t, told) ==
  /\ Allowed("drop") /\ faults < limit.faults /\ faults' = faults + 1
  /\ tab[t].link = "up" /\ in' = [in EXCEPT ![t] = <<>>]
  /\ tab' = [tab EXCEPT ![t].link = IF told THEN "down" ELSE "zombie", ![t].wasOffline = told]
  /\ strayed' = strayed \cup {<<t, in[t][p].chan>> : p \in DOMAIN in[t]}
  /\ Unchanged /\ UNCHANGED <<server, calls, limit, moves, blind, wish>>

\* The socket opens (again): resync, if the tab was told. The first time
\* enterApp has had its answers.
Connect(t) ==
  LET s == tab[t]
  IN  /\ s.link # "up" /\ (s.link = "start" => ~\E k \in calls : k.t = t /\ k.op \in {"summary", "reload"})
      /\ tab' = [tab EXCEPT ![t].link = "up", ![t].wasOffline = FALSE]
      /\ calls' = IF s.wasOffline THEN calls \cup {Asked(calls, t, "summary", s.active, 0)} ELSE calls
      /\ UNCHANGED <<server, in, bounds, ghosts>>

-----------------------------------------------------------------------------
UserNext(t) ==
  \/ Focus(t) \/ Blur(t)
  \/ \E c \in Chan : SelectChannel(t, c) \/ JumpToMessage(t, c)
  \/ \E i \in Id : ToggleRead(t, i) \/ ToggleUnread(t, i)
TabNext(t) ==
  \/ UserNext(t) \/ Take(t) \/ Connect(t)
  \/ \E told \in BOOLEAN : Drop(t, told)
CallNext(k) ==
  \/ MarkRead(k) \/ MarkUnread(k) \/ ServeQuery(k) \/ Fail(k)
  \/ AnswerMark(k) \/ AnswerLoad(k) \/ \E near \in BOOLEAN : AnswerSummary(k, near)
PostNext == \E c \in Chan, pings \in BOOLEAN : Post(c, pings)
Next ==
  \/ \E t \in limit.tabs : TabNext(t)
  \/ \E k \in calls : CallNext(k)
  \/ PostNext

Spec == Init /\ [][Next]_vars

-----------------------------------------------------------------------------
(* Properties.                                                             *)

\* With nothing under way a connected tab has the store's cursor, and a badge
\* on exactly the channels in which something is unread, but for the badges
\* the named races get wrong. (applyEvent, setUnreadSummary, MarkRead)
BadgesTrue ==
  calls = {} /\ (\A t \in limit.tabs : in[t] = <<>>) =>
    \A t \in limit.tabs, c \in Chan :
      tab[t].link = "up" /\ <<t, c>> \notin strayed =>
        /\ tab[t].lastRead[c] = cursor[c]
        /\ tab[t].unread[c] > 0 <=> log[c] > cursor[c]

\* The cursor never passes a message the user was not shown, or called read,
\* unless it was marked before its pane was drawn, or by a load that was
\* answered when the user was looking elsewhere. (markActiveChannelRead)
ReadWasShown == \A c \in Chan : c \notin blind => cursor[c] <= shown[c]

\* What the user marked unread stays unread until a channel is opened, a message
\* is marked read, or another tab reads on: neither focus, nor what comes in,
\* nor a reconnect, reads it in the tab it was marked in. (manualUnread)
UnreadKept ==
  \A c \in Chan :
    wish[c].i # 0 /\ ~(\E k \in calls : k.op = "unread" /\ k.chan = c /\ k.served = "no") =>
      cursor[c] < wish[c].i

\* The cursor in the store is where the user has read to and left it: never
\* beyond what was shown, never over what was marked unread.
CursorHonest == ReadWasShown /\ UnreadKept
=============================================================================
