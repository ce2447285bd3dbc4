------------------------------- MODULE Directory -------------------------------
(***************************************************************************)
(* The sidebar: which channels and DMs a tab lists, in what order, which   *)
(* are muted, who is in the one it has open (handlers_channels.go,         *)
(* store_channels.go, state.js, channeldrag.js, channelorder.js and        *)
(* regions 3 and 4 of app.js), over the connections of Presence.           *)
(*                                                                         *)
(* A request is a record in `reqs` that goes through its handler's stages  *)
(* and, when it is done, through the function that awaits it. Channels are *)
(* numbered in the order of their names. Left out: names, the order of DMs *)
(* (by recency), unread counts (ReadState), messages (Pane), purging and   *)
(* restoring channels, answers that are lost after the handler ran.        *)
(***************************************************************************)
EXTENDS Presence

CONSTANTS
  Kind,     \* "public", "private" or "dm", of each channel
  Pair      \* the two participants of each DM

VARIABLES
  made,     \* server: channels that exist
  gone,     \* server: those with archived_at
  rows,     \* server: position and topic
  member,   \* server: channel_members
  open,     \* server: dm_open
  silenced, \* server: muted channels of each user
  view,     \* client: state.channels, activeChannelId, muted and the sidebar
  reqs,     \* requests, at their handler or at their caller's await
  crossed,  \* ghost: channels whose handlers overlapped
  apart,    \* ghost: <<tab, channel>> that a named case has put out of step
  astray,   \* ghost: tabs whose members panel a named case has put out of step
  dropped   \* ghost: the last reordering, and whether anything met it

store == <<made, gone, rows, member, open, silenced>>
known == <<crossed, apart, astray, dropped>>
vars == <<presence, store, view, reqs, known>>

Chan == DOMAIN Kind
Real == {c \in Chan : Kind[c] # "dm"}
Private == {c \in Chan : Kind[c] # "public"}
Rank(u) == limit.role[u]
IsMod(t) == Rank(Me(t)) \in {"moderator", "admin"}
IsAdmin(u) == Rank(u) = "admin"
Everyone == {0}
NoDrop == [order |-> <<>>, clean |-> FALSE]

\* channelVisibleTo: an admin sees private channels, nobody else's DMs.
VisibleTo(c, u) == Kind[c] = "public" \/ u \in member[c] \/ (Kind[c] = "private" /\ IsAdmin(u))
AudienceForChannel(c) == {u \in User : VisibleTo(c, u)}
\* handleListChannels: what there is, less the DMs this user has closed.
ListChannels(u) ==
  [c \in {c \in made \ gone : VisibleTo(c, u) /\ (Kind[c] = "dm" => u \in open[c])} |-> rows[c]]

-----------------------------------------------------------------------------
(* A tab's state, as state.js and the sidebar's renderers change it.       *)

\* sortChannels and regularChannelOrder: by position, then by name.
RegularChannelOrder(chans) ==
  SetToSortSeq(DOMAIN chans \cap Real,
               LAMBDA a, b : chans[a].pos < chans[b].pos \/ (chans[a].pos = chans[b].pos /\ a < b))
FirstIn(chans) ==
  LET order == RegularChannelOrder(chans)
      dms == DOMAIN chans \ Real
  IN  IF order # <<>> THEN Head(order) ELSE IF dms # {} THEN CHOOSE c \in dms : TRUE ELSE 0

Grip(at, row) == [at |-> at, row |-> row]
Free == Grip("free", 0)
\* renderChannels, unless a drag is on; the rows it replaces leave the document.
RenderChannels(v) ==
  IF v.grip.at = "lifted" THEN v
  ELSE [v EXCEPT !.list = RegularChannelOrder(v.chans), !.torn = FALSE,
                 !.grip = IF @.at = "pressed" THEN Grip("loose", @.row) ELSE @]
Render(v) == [RenderChannels(v) EXCEPT !.dms = DOMAIN v.chans \ Real]

UpsertChannel(v, c, row) == [v EXCEPT !.chans = (c :> row) @@ @]
\* removeChannel re-points the open channel to the first of the list.
RemoveChannel(v, c) ==
  LET rest == [x \in DOMAIN v.chans \ {c} |-> v.chans[x]]
  IN  [v EXCEPT !.chans = rest, !.active = IF @ = c THEN FirstIn(rest) ELSE @]

\* nextChannelId over sidebarChannelOrder: one row up or down, clamped.
SidebarChannelOrder(v) == RegularChannelOrder(v.chans) \o SetToSeq(DOMAIN v.chans \ Real)
NextChannelId(v, delta) ==
  LET order == SidebarChannelOrder(v)
      at == SelectInSeq(order, LAMBDA c : c = v.active)
      to == IF at = 0 THEN (IF delta > 0 THEN 1 ELSE Len(order)) ELSE at + delta
  IN  IF to \in DOMAIN order THEN order[to] ELSE 0

-----------------------------------------------------------------------------
(* Requests.                                                               *)

NoRow == [pos |-> -1, topic |-> -1]
Bare == [bare |-> TRUE]
Req(t, op, c, u, val, at) ==
  [tab |-> t, op |-> op, chan |-> c, user |-> u, val |-> val, at |-> at, row |-> NoRow, aud |-> {}, late |-> {},
   n |-> CHOOSE n \in 0..Cardinality(reqs) : \A q \in reqs : q.tab = t /\ q.op = op => q.n # n]
At(q, stage) == [q EXCEPT !.at = stage]
Rest(q) == reqs \ {q}
Becomes(q, r) == reqs' = Rest(q) \cup {r}
Of(t) == {q \in reqs : q.tab = t}

\* refreshActiveMembers: a private channel's members are asked for, else
\* everyone is shown.
NeedsRoster(v) == v.active \in DOMAIN v.chans /\ v.active \in Private
RefreshActiveMembers(t, v, others) ==
  IF NeedsRoster(v)
    THEN /\ reqs' = others \cup {Req(t, "members", v.active, 0, Bare, "ask")}
         /\ view' = [view EXCEPT ![t] = v] /\ UNCHANGED astray
    ELSE /\ reqs' = others /\ view' = [view EXCEPT ![t] = [v EXCEPT !.members = Everyone]]
         /\ astray' = astray \ {t}
\* loadChannel, if a channel is open.
LoadChannel(t, v, others) ==
  IF v.active # 0 THEN RefreshActiveMembers(t, v, others)
  ELSE view' = [view EXCEPT ![t] = v] /\ reqs' = others /\ UNCHANGED astray
Shows(t, v) == view' = [view EXCEPT ![t] = v]

\* A row or audience another handler has read is no longer right.
Outdated(q, c) == q.chan = c /\ (q.at \in {"gather", "send"} \/ (q.op = "invite" /\ q.at = "write"))
CrossIf(cond, c) == crossed' = IF cond THEN crossed \cup {c} ELSE crossed
Crosses(q) == CrossIf(\E p \in reqs \ {q} : Outdated(p, q.chan), q.chan)

\* handleUpdateChannel, handleAddChannelMember: the row as it stands.
Reads(q) ==
  /\ q.at = "read" /\ q.op \in {"update", "invite"}
  /\ Becomes(q, [q EXCEPT !.at = "write", !.row = rows[q.chan]])
  /\ UNCHANGED <<presence, store, view, known>>

\* Mutated form: a field the request leaves out is written as its zero value.
UpdateChannelZero(row, val) == [pos |-> IF "pos" \in DOMAIN val THEN val.pos ELSE 0,
                                topic |-> IF "topic" \in DOMAIN val THEN val.topic ELSE 0]
\* The fields the request has over those of the row that was read.
UpdateChannel(row, val) == [pos |-> IF "pos" \in DOMAIN val THEN val.pos ELSE row.pos,
                            topic |-> IF "topic" \in DOMAIN val THEN val.topic ELSE row.topic]

UpdateWrites(q) ==
  /\ q.op = "update" /\ q.at = "write"
  /\ rows' = [rows EXCEPT ![q.chan] = UpdateChannel(q.row, q.val)]
  /\ Becomes(q, At(q, "load")) /\ Crosses(q)
  /\ UNCHANGED <<presence, made, gone, member, open, silenced, view, apart, astray, dropped>>
UpdateLoads(q) ==
  /\ q.op = "update" /\ q.at = "load"
  /\ Becomes(q, [q EXCEPT !.at = "gather", !.row = rows[q.chan]])
  /\ UNCHANGED <<presence, store, view, known>>

\* handleCreateChannel: the creator of a private channel joins it.
CreateWrites(q) ==
  /\ q.op = "create" /\ q.at = "write" /\ q.chan \notin made
  /\ made' = made \cup {q.chan}
  /\ member' = [member EXCEPT ![q.chan] = IF q.chan \in Private THEN {Me(q.tab)} ELSE {}]
  /\ Becomes(q, [q EXCEPT !.at = "gather", !.row = rows[q.chan]]) /\ Crosses(q)
  /\ UNCHANGED <<presence, gone, rows, open, silenced, view, apart, astray, dropped>>

ArchiveWrites(q) ==
  /\ q.op = "archive" /\ q.at = "write"
  /\ gone' = gone \cup {q.chan} /\ Becomes(q, At(q, "gather")) /\ Crosses(q)
  /\ UNCHANGED <<presence, made, rows, member, open, silenced, view, apart, astray, dropped>>

\* What is put out of step stays so when an answer lands that is older.
Stale(lost, others) ==
  {IF p.op = "summary" \/ (p.op = "list" /\ p.at = "done")
     THEN [p EXCEPT !.late = @ \cup {c \in Chan : <<p.tab, c>> \in lost}] ELSE p : p \in others}
Lose(lost, others) == apart' = apart \cup lost /\ reqs' = Stale(lost, others)
\* Tabs that do not learn of an opening or closing: the user's others, and its
\* own while an earlier one of its requests is unanswered.
Untold(q) == {<<t, q.chan>> : t \in {t \in Tabs : Me(t) = Me(q.tab) /\
  (t = q.tab => \E p \in reqs \ {q} : p.tab = t /\ p.chan = q.chan /\ p.op \in {"dm", "closedm"})}}
\* handleCreateDM: a new DM opens for both and is announced; a known one
\* opens for the caller alone.
DMWrites(q) ==
  LET new == q.chan \notin made
      both == Pair[q.chan]
  IN
  /\ q.op = "dm" /\ q.at = "write"
  /\ made' = made \cup {q.chan}
  /\ member' = [member EXCEPT ![q.chan] = both]
  /\ open' = [open EXCEPT ![q.chan] = @ \cup (IF new THEN both ELSE {Me(q.tab)})]
  /\ Lose(IF new THEN {} ELSE Untold(q),
          Rest(q) \cup {[q EXCEPT !.at = IF new THEN "gather" ELSE "done", !.row = rows[q.chan]]})
  /\ Crosses(q)
  /\ UNCHANGED <<presence, gone, rows, silenced, view, astray, dropped>>

\* handleCloseDM: no event tells the user's other tabs.
CloseDMWrites(q) ==
  /\ q.op = "closedm" /\ q.at = "write"
  /\ open' = [open EXCEPT ![q.chan] = @ \ {Me(q.tab)}]
  /\ Lose(Untold(q), Rest(q) \cup {At(q, "done")}) /\ Crosses(q)
  /\ UNCHANGED <<presence, made, gone, rows, member, silenced, view, astray, dropped>>

\* Mutated form: a closed DM that is written to is open again, and nobody is told.
PostWritesQuietly(q) ==
  /\ q.op = "post" /\ q.at = "write"
  /\ open' = [open EXCEPT ![q.chan] = member[q.chan]] /\ reqs' = reqs \ {q} /\ Crosses(q)
  /\ UNCHANGED <<presence, made, gone, rows, member, silenced, view, apart, astray, dropped>>
\* handleSendMessage, in a DM: whoever had closed it has it open again and, if
\* anyone had, it is announced.
PostWrites(q) ==
  /\ q.op = "post" /\ q.at = "write"
  /\ open' = [open EXCEPT ![q.chan] = member[q.chan]]
  /\ IF member[q.chan] \subseteq open[q.chan]
       THEN reqs' = reqs \ {q} ELSE Becomes(q, [q EXCEPT !.at = "gather", !.row = rows[q.chan]])
  /\ Crosses(q)
  /\ UNCHANGED <<presence, made, gone, rows, member, silenced, view, apart, astray, dropped>>

InviteWrites(q) ==
  /\ q.op = "invite" /\ q.at = "write" /\ q.user \notin member[q.chan]
  /\ member' = [member EXCEPT ![q.chan] = @ \cup {q.user}]
  /\ Becomes(q, At(q, "gather")) /\ Crosses(q)
  /\ UNCHANGED <<presence, made, gone, rows, open, silenced, view, apart, astray, dropped>>

\* handleRemoveChannelMember: the audience is gathered before the row goes,
\* and a channel left empty is archived.
RemoveGathers(q) ==
  /\ q.op \in {"leave", "remove"} /\ q.at = "read"
  /\ Becomes(q, [q EXCEPT !.at = "write", !.aud = AudienceForChannel(q.chan)])
  /\ UNCHANGED <<presence, store, view, known>>
RemoveWrites(q) ==
  LET rest == member[q.chan] \ {q.user} IN
  /\ q.op \in {"leave", "remove"} /\ q.at = "write"
  /\ IF q.user \in member[q.chan] THEN Becomes(q, At(q, "send")) ELSE Becomes(q, At(q, "failed"))
  /\ member' = [member EXCEPT ![q.chan] = rest]
  /\ gone' = (IF rest = {} /\ rest # member[q.chan] THEN gone \cup {q.chan} ELSE gone)
  \* An audience gathered before another change of the members.
  /\ CrossIf(q.aud # AudienceForChannel(q.chan) \/ \E p \in reqs \ {q} : Outdated(p, q.chan), q.chan)
  /\ UNCHANGED <<presence, made, rows, open, silenced, view, apart, astray, dropped>>

\* setChannelMuted.
MuteWrites(q) ==
  LET u == Me(q.tab) IN
  /\ q.op = "mute" /\ q.at = "write" /\ VisibleTo(q.chan, u)
  /\ silenced' = [silenced EXCEPT ![u] = IF q.val.on THEN @ \cup {q.chan} ELSE @ \ {q.chan}]
  /\ Becomes(q, [q EXCEPT !.at = "send", !.aud = {u}]) /\ Crosses(q)
  /\ UNCHANGED <<presence, made, gone, rows, member, open, view, apart, astray, dropped>>

\* handleListChannelMembers: refused to who may not see the channel.
MembersAnswers(q) ==
  /\ q.op \in {"members", "roll"} /\ q.at = "ask"
  /\ IF VisibleTo(q.chan, Me(q.tab)) THEN Becomes(q, [q EXCEPT !.at = "done", !.aud = member[q.chan]])
                                     ELSE Becomes(q, At(q, "failed"))
  /\ UNCHANGED <<presence, store, view, known>>

Gathers(q) ==
  /\ q.at = "gather" /\ Becomes(q, [q EXCEPT !.at = "send", !.aud = AudienceForChannel(q.chan)])
  /\ UNCHANGED <<presence, store, view, known>>
Event(q) ==
  LET typ == CASE q.op = "archive" \/ (q.op \in {"leave", "remove"} /\ q.chan \in gone) -> "archive"
               [] q.op \in {"leave", "remove"} /\ q.chan \notin gone -> "left"
               [] q.op = "mute" -> "mute"
               [] OTHER -> "channel"
  IN  [type |-> typ, chan |-> q.chan, user |-> q.user, row |-> q.row, val |-> q.val]
\* The broadcast, then the answer. A channel that has been archived meanwhile
\* is announced as if it had not.
Broadcasts(q) ==
  /\ q.at = "send" /\ in' = Sent(Event(q), q.aud)
  /\ IF q.op \in {"create", "archive", "post", "mute"} THEN reqs' = reqs \ {q} ELSE Becomes(q, At(q, "done"))
  /\ CrossIf(Event(q).type = "channel" /\ q.chan \in gone, q.chan)
  /\ UNCHANGED <<limit, moves, faults, server, link, gen, wire, people, store, view, apart, astray, dropped>>

\* A request is refused before its handler changes anything.
Refused(q) ==
  /\ q.at \in {"read", "write", "ask"} /\ q.op \in {"update", "mute", "leave", "list", "members"}
  /\ Fails("fail") /\ Becomes(q, At(q, "failed"))
  /\ UNCHANGED <<limit, moves, server, net, people, store, view, known>>

-----------------------------------------------------------------------------
(* Events.                                                                 *)

\* Answers of the tab that were drawn up before this event and are to be read
\* after it.
LateFor(q, e) ==
  \/ q.op = "list" /\ q.at = "done"
  \/ q.op = "summary" /\ q.at = "done" /\ e.type = "mute"
  \/ /\ e.type # "presence" /\ q.chan = e.chan
     /\ \/ q.op \in {"members", "roll"} /\ q.at = "done"
        \/ q.op \in {"leave", "remove", "closedm"} /\ q.at \in {"send", "done"} /\ e.type = "channel"
        \/ q.op \in {"update", "dm"} /\ q.at \in {"gather", "send", "done"} /\ e.type # "mute"
           /\ (e.type = "channel" => e.row # q.row)
        \/ q.op = "mute" /\ e.type = "mute"
Overtaken(t, e, what) ==
  {IF q.tab = t /\ LateFor(q, e) THEN [q EXCEPT !.late = @ \cup {what}] ELSE q : q \in reqs}
Takes(t, typ) == in[t] # <<>> /\ Head(in[t]).type = typ /\ in' = [in EXCEPT ![t] = Tail(@)]
Dirty(v) == [v EXCEPT !.dirty = TRUE]

OnPresence(t) ==
  LET e == Head(in[t]) IN
  /\ Takes(t, "presence") /\ SchedulePresenceUpdate(t, e.user, e.is)
  /\ reqs' = Overtaken(t, e, e.user)
  /\ UNCHANGED <<limit, moves, faults, server, link, gen, wire, idle, blurred, hushed, store, view, known>>

\* channel.new, channel.update; onChannelEvent re-scopes the open channel's members.
OnChannel(t) ==
  LET e == Head(in[t])
      v == Dirty(UpsertChannel(view[t], e.chan, e.row))
  IN
  /\ Takes(t, "channel")
  /\ IF e.chan = v.active THEN RefreshActiveMembers(t, v, Overtaken(t, e, e.chan))
     ELSE Shows(t, v) /\ reqs' = Overtaken(t, e, e.chan) /\ UNCHANGED astray
  /\ UNCHANGED <<limit, moves, faults, server, link, gen, wire, people, store, crossed, apart, dropped>>

\* channel.archive: when the open channel goes, another is open without being
\* loaded (the event names the old one), so its members are not shown.
OnArchive(t) ==
  LET e == Head(in[t]) IN
  /\ Takes(t, "archive")
  /\ Shows(t, Dirty(RemoveChannel(view[t], e.chan))) /\ reqs' = Overtaken(t, e, e.chan)
  /\ astray' = IF view[t].active = e.chan THEN astray \cup {t} ELSE astray
  /\ UNCHANGED <<limit, moves, faults, server, link, gen, wire, people, store, crossed, apart, dropped>>

\* Mutated form: the channel the view falls back to is not loaded.
OnMemberRemoveUnloaded(t) ==
  LET e == Head(in[t])
      v == view[t]
      had == e.chan \in DOMAIN v.chans
      mine == e.user = Me(t)
      w == IF mine /\ ~IsAdmin(Me(t)) THEN RemoveChannel(v, e.chan) ELSE v
  IN
  /\ Takes(t, "left")
  /\ IF mine /\ had /\ IsAdmin(Me(t)) /\ e.chan = v.active THEN RefreshActiveMembers(t, w, Overtaken(t, e, e.chan))
     ELSE /\ Shows(t, IF ~mine /\ e.chan = v.active THEN [w EXCEPT !.members = @ \ {e.user}] ELSE Render(w))
          /\ reqs' = Overtaken(t, e, e.chan) /\ UNCHANGED astray
  /\ UNCHANGED <<limit, moves, faults, server, link, gen, wire, people, store, crossed, apart, dropped>>
\* member.remove: I lost a channel, I lost only my membership (an admin), or
\* someone left the open channel.
OnMemberRemove(t) ==
  LET e == Head(in[t])
      v == view[t]
      had == e.chan \in DOMAIN v.chans
      mine == e.user = Me(t)
      w == IF mine /\ ~IsAdmin(Me(t)) THEN RemoveChannel(v, e.chan) ELSE v
  IN
  /\ Takes(t, "left")
  /\ IF mine /\ had /\ ~IsAdmin(Me(t)) THEN LoadChannel(t, Render(w), Overtaken(t, e, e.chan))
     ELSE IF mine /\ had /\ e.chan = v.active THEN RefreshActiveMembers(t, w, Overtaken(t, e, e.chan))
     ELSE /\ Shows(t, IF ~mine /\ e.chan = v.active THEN [w EXCEPT !.members = @ \ {e.user}] ELSE w)
          /\ reqs' = Overtaken(t, e, e.chan) /\ UNCHANGED astray
  /\ UNCHANGED <<limit, moves, faults, server, link, gen, wire, people, store, crossed, apart, dropped>>

Muted(v, c, on) == [v EXCEPT !.muted = IF on THEN @ \cup {c} ELSE @ \ {c}]
OnMute(t) ==
  LET e == Head(in[t]) IN
  /\ Takes(t, "mute") /\ Shows(t, Dirty(Muted(view[t], e.chan, e.val.on))) /\ reqs' = Overtaken(t, e, e.chan)
  /\ UNCHANGED <<limit, moves, faults, server, link, gen, wire, people, store, known>>

\* flushRenders.
FlushRenders(t) ==
  /\ view[t].dirty /\ Shows(t, Render([view[t] EXCEPT !.dirty = FALSE]))
  /\ UNCHANGED <<presence, store, reqs, known>>

-----------------------------------------------------------------------------
(* What users do. An operation that awaits goes on when its request is done.*)

UserDoes(t, what) ==
  /\ Moves(what) /\ view[t].ready
  /\ UNCHANGED <<limit, faults, server, net, people, store, crossed>>
Asks(q) == reqs' = reqs \cup {q}

\* selectChannel, by a click or by the arrow keys (navigateChannels).
Select(t, c) ==
  /\ UserDoes(t, "select") /\ c # view[t].active
  /\ LoadChannel(t, Render([view[t] EXCEPT !.active = c]), reqs) /\ UNCHANGED <<apart, dropped>>
Click(t, c) == c \in DOMAIN view[t].chans /\ Select(t, c)
NavigateChannels(t, delta) ==
  LET c == NextChannelId(view[t], delta) IN Allowed("keys") /\ c # 0 /\ Select(t, c)

\* toggleMute: at once, taken back if it is refused.
ToggleMute(t, c) ==
  LET on == c \notin view[t].muted IN
  /\ UserDoes(t, "mute") /\ c \in DOMAIN view[t].chans
  /\ Shows(t, Render(Muted(view[t], c, on)))
  /\ reqs' = {IF q.tab = t /\ ((q.op = "mute" /\ q.chan = c) \/ (q.op = "summary" /\ q.at = "done"))
                THEN [q EXCEPT !.late = @ \cup {c}] ELSE q : q \in reqs}
             \cup {[Req(t, "mute", c, Me(t), [on |-> on], "write") EXCEPT
                      !.late = {q.chan : q \in {q \in Of(t) : q.op = "mute" /\ q.chan = c}}]}
  /\ UNCHANGED <<apart, astray, dropped>>

CreateChannel(t, c) ==
  /\ UserDoes(t, "create") /\ IsMod(t) /\ c \in Real \ made /\ \A q \in reqs : q.chan # c
  /\ Asks(Req(t, "create", c, Me(t), Bare, "write")) /\ UNCHANGED <<view, apart, astray, dropped>>
DeleteChannel(t, c) ==
  /\ UserDoes(t, "archive") /\ IsMod(t) /\ c \in DOMAIN view[t].chans \cap Real
  /\ Asks(Req(t, "archive", c, Me(t), Bare, "write")) /\ UNCHANGED <<view, apart, astray, dropped>>

\* Another update of a reordering that is still on its way.
Unclean == dropped' = IF \E q \in reqs : q.op = "update" THEN [dropped EXCEPT !.clean = FALSE] ELSE dropped
\* beginTopicEdit, save.
SaveTopic(t) ==
  LET c == view[t].active IN
  /\ UserDoes(t, "topic") /\ IsMod(t) /\ c \in DOMAIN view[t].chans \cap Real
  /\ Asks(Req(t, "update", c, Me(t), [topic |-> view[t].chans[c].topic + 1], "read"))
  /\ Unclean /\ UNCHANGED <<view, apart, astray>>

StartDM(t, c) ==
  /\ UserDoes(t, "dm") /\ c \in Chan \ Real /\ Me(t) \in Pair[c]
  /\ Asks(Req(t, "dm", c, Me(t), Bare, "write")) /\ UNCHANGED <<view, apart, astray, dropped>>
CloseDM(t, c) ==
  /\ UserDoes(t, "closedm") /\ c \in view[t].dms
  /\ Asks(Req(t, "closedm", c, Me(t), Bare, "write")) /\ UNCHANGED <<view, apart, astray, dropped>>
Post(t, c) ==
  /\ UserDoes(t, "post") /\ c \in DOMAIN view[t].chans \ Real
  /\ Asks(Req(t, "post", c, Me(t), Bare, "write")) /\ UNCHANGED <<view, apart, astray, dropped>>

\* openInviteModal asks for the members; what was open then is what it compares
\* its answer with.
OpenInviteModal(t) ==
  LET c == view[t].active IN
  /\ UserDoes(t, "invite") /\ IsMod(t) /\ c \in DOMAIN view[t].chans \cap Real \cap Private
  /\ Asks(Req(t, "roll", c, 0, [was |-> c], "ask")) /\ UNCHANGED <<view, apart, astray, dropped>>
AddMember(t, c, u) ==
  /\ UserDoes(t, "invite") /\ IsMod(t) /\ c \in DOMAIN view[t].chans \cap Real \cap Private
  /\ u \notin member[c] /\ \A q \in reqs : q.op # "invite"
  /\ Asks(Req(t, "invite", c, u, Bare, "read")) /\ UNCHANGED <<view, apart, astray, dropped>>
RemoveMember(t, u) ==
  LET c == view[t].active IN
  /\ UserDoes(t, "remove") /\ IsMod(t) /\ c \in DOMAIN view[t].chans \cap Real \cap Private
  /\ u # Me(t) /\ u \in view[t].members
  /\ Asks(Req(t, "remove", c, u, Bare, "read")) /\ UNCHANGED <<view, apart, astray, dropped>>
LeaveActiveChannel(t) ==
  LET c == view[t].active IN
  /\ UserDoes(t, "leave") /\ c \in DOMAIN view[t].chans \cap Real \cap Private
  /\ Asks(Req(t, "leave", c, Me(t), Bare, "read")) /\ UNCHANGED <<view, apart, astray, dropped>>

-----------------------------------------------------------------------------
(* Dragging a row (channeldrag.js).                                        *)

Grips(t, g) == view' = [view EXCEPT ![t].grip = g] /\ UNCHANGED <<reqs, apart, astray, dropped>>
\* mousedown, touchstart.
Press(t, c) ==
  /\ UserDoes(t, "drag") /\ IsMod(t) /\ view[t].grip.at = "free" /\ c \in Range(view[t].list)
  /\ Grips(t, Grip("pressed", c))
\* Held long enough, or moved: a row that has been painted anew is not lifted.
BeginDrag(t) ==
  /\ view[t].grip.at = "pressed" /\ Grips(t, Grip("lifted", view[t].grip.row))
  /\ UNCHANGED <<presence, store, crossed>>
UpdateDrag(t, k) ==
  LET row == view[t].grip.row
      rest == SelectSeq(view[t].list, LAMBDA c : c # row)
  IN
  /\ view[t].grip.at = "lifted" /\ k \in 0..Len(rest)
  /\ view' = [view EXCEPT ![t].list = SubSeq(rest, 1, k) \o <<row>> \o SubSeq(rest, k + 1, Len(rest))]
  /\ UNCHANGED <<presence, store, reqs, known>>

\* channelReorderPatches: the rows whose position changes.
Place(ids, c) == SelectInSeq(ids, LAMBDA x : x = c) - 1
Patches(ids, chans) == {c \in Range(ids) : chans[c].pos # Place(ids, c)}
Reordered(chans, ids) == [c \in DOMAIN chans |-> IF c \in Range(ids) THEN [chans[c] EXCEPT !.pos = Place(ids, c)] ELSE chans[c]]

\* endDrag, persistChannelOrder. A row whose channel is gone throws, and a drop
\* that moves nothing asks for nothing: then what a drag kept from being
\* painted stays unpainted (torn).
EndDrag(t) ==
  LET ids == view[t].list
      v == [view[t] EXCEPT !.grip = Free]
      torn == [v EXCEPT !.torn = ids # RegularChannelOrder(v.chans)]
      moved == Patches(ids, v.chans)
  IN
  /\ view[t].grip.at = "lifted"
  /\ IF ~(Range(ids) \subseteq DOMAIN v.chans) \/ moved = {}
       THEN Shows(t, torn) /\ UNCHANGED <<reqs, dropped>>
       ELSE /\ Shows(t, [v EXCEPT !.chans = Reordered(@, ids)])
            /\ reqs' = reqs \cup {Req(t, "update", c, Me(t), [pos |-> Place(ids, c)], "read") : c \in moved}
            /\ dropped' = [order |-> ids,
                           clean |-> /\ \A q \in reqs : q.op # "update"
                                     /\ \A c \in Range(ids) : v.chans[c].pos = rows[c].pos]
  /\ UNCHANGED <<presence, store, crossed, apart, astray>>
\* touchcancel; or a press that never became a drag.
Release(t) ==
  /\ view[t].grip.at # "free"
  /\ Shows(t, IF view[t].grip.at = "lifted" THEN RenderChannels([view[t] EXCEPT !.grip = Free])
              ELSE [view[t] EXCEPT !.grip = Free])
  /\ UNCHANGED <<presence, store, reqs, known>>

-----------------------------------------------------------------------------
(* Answers.                                                                *)

Answered(q, op) == q.op = op /\ q.at \in {"done", "failed"}
\* The channel of an answer that comes late.
Lost(late, q) == IF late THEN {<<q.tab, q.chan>>} ELSE {}
ApartIf(late, q) == apart' = apart \cup Lost(late, q)
\* A change of the list that no event will repeat: a snapshot on its way lacks it.
Unlisted(q, late) ==
  {IF p.tab = q.tab /\ p.op = "list" /\ p.at = "done" THEN [p EXCEPT !.late = @ \cup {q.chan}] ELSE p :
     p \in Stale(Lost(late, q), Rest(q))}
AstrayIf(cond, t) == astray' = IF cond THEN astray \cup {t} ELSE astray

\* The members arrive: the panel takes them whatever is open by then; a refusal
\* shows everyone.
MembersLand(q) ==
  LET t == q.tab IN
  /\ Answered(q, "members")
  /\ Shows(t, [view[t] EXCEPT !.members = IF q.at = "done" THEN q.aud ELSE Everyone])
  /\ reqs' = {IF p.tab = t /\ p.op \in {"members", "roll"} /\ p.at = "done" THEN [p EXCEPT !.late = @ \cup {p.chan}] ELSE p : p \in Rest(q)}
  /\ astray' = IF q.late # {} \/ q.chan # view[t].active \/ q.at = "failed" THEN astray \cup {t} ELSE astray \ {t}
  /\ UNCHANGED <<presence, store, crossed, apart, dropped>>
\* refreshInviteList compares with the channel that was open when it asked.
RollLands(q) ==
  LET t == q.tab IN
  /\ Answered(q, "roll") /\ reqs' = Rest(q)
  /\ IF q.at = "done" /\ q.chan = q.val.was
       THEN /\ Shows(t, [view[t] EXCEPT !.members = q.aud])
            /\ AstrayIf(q.late # {} \/ q.chan # view[t].active \/ \E p \in Rest(q) : p.tab = t /\ p.op = "members" /\ p.at = "done", t)
       ELSE UNCHANGED <<view, astray>>
  /\ UNCHANGED <<presence, store, crossed, apart, dropped>>
InviteLands(q) ==
  /\ Answered(q, "invite")
  /\ reqs' = Rest(q) \cup {Req(q.tab, "roll", q.chan, 0, [was |-> view[q.tab].active], "ask")}
  /\ UNCHANGED <<presence, store, view, known>>

MuteLands(q) ==
  LET t == q.tab IN
  /\ q.op = "mute" /\ q.at = "failed" /\ Lose(Lost(q.late # {}, q), Rest(q))
  /\ Shows(t, Render(Muted(view[t], q.chan, ~q.val.on)))
  /\ UNCHANGED <<presence, store, crossed, astray, dropped>>

\* The rest of removeMember and of an admin's leave: the user goes from
\* whatever members are shown by then.
RemoveLands(q) ==
  LET t == q.tab
      goes == q.at = "done" /\ view[t].members # Everyone
  IN
  /\ (Answered(q, "remove") \/ (Answered(q, "leave") /\ IsAdmin(Me(t)))) /\ reqs' = Rest(q)
  /\ Shows(t, IF goes THEN [view[t] EXCEPT !.members = @ \ {q.user}] ELSE view[t])
  /\ AstrayIf(goes /\ (q.late # {} \/ q.chan # view[t].active), t)
  /\ UNCHANGED <<presence, store, crossed, apart, dropped>>
\* The rest of leaveActiveChannel.
LeaveLands(q) ==
  LET t == q.tab IN
  /\ Answered(q, "leave") /\ ~IsAdmin(Me(t))
  /\ IF q.at = "done"
       THEN /\ LoadChannel(t, Render(RemoveChannel(view[t], q.chan)), Unlisted(q, q.late # {}))
            /\ ApartIf(q.late # {}, q)
       ELSE reqs' = Rest(q) /\ UNCHANGED <<view, astray, apart>>
  /\ UNCHANGED <<presence, store, crossed, dropped>>

\* The rest of closeDM: the open one gives way to a regular channel. An event
\* sent before the closing lists the DM again if it is read after the answer.
CloseDMLands(q) ==
  LET t == q.tab
      v == RemoveChannel(view[t], q.chan)
      late == q.late # {} \/ \E i \in DOMAIN in[t] : in[t][i].type = "channel" /\ in[t][i].chan = q.chan
      others == Unlisted(q, late)
  IN
  /\ Answered(q, "closedm")
  /\ ApartIf(late, q)
  /\ IF q.chan = view[t].active THEN LoadChannel(t, Render([v EXCEPT !.active = FirstIn(v.chans)]), others)
     ELSE Shows(t, Render(v)) /\ reqs' = others /\ UNCHANGED astray
  /\ UNCHANGED <<presence, store, crossed, dropped>>
\* The rest of startDM: the DM is listed and opened.
StartDMLands(q) ==
  LET t == q.tab IN
  /\ Answered(q, "dm") /\ ApartIf(q.late # {}, q)
  /\ LoadChannel(t, Render([UpsertChannel(view[t], q.chan, q.row) EXCEPT !.active = q.chan]), Unlisted(q, q.late # {}))
  /\ UNCHANGED <<presence, store, crossed, dropped>>

\* flushPendingPresence, then the lists are asked for.
Resync(t, others) ==
  /\ pending' = [pending EXCEPT ![t] = [u \in User |-> Unset]]
  /\ reqs' = others \cup {Req(t, "list", 0, 0, [boot |-> FALSE], "ask")}
\* save takes the row of the answer; a refused position starts a resync.
UpdateLands(q) ==
  LET t == q.tab IN
  /\ Answered(q, "update")
  /\ IF q.at = "failed" /\ "pos" \in DOMAIN q.val
       THEN /\ Resync(t, Rest(q)) /\ dropped' = [dropped EXCEPT !.clean = FALSE]
            /\ UNCHANGED <<limit, moves, faults, server, net, shown, idle, blurred, hushed, view, apart>>
       ELSE /\ reqs' = IF q.at = "done" /\ "topic" \in DOMAIN q.val THEN Unlisted(q, q.late # {}) ELSE Rest(q)
            /\ IF q.at = "done" /\ "topic" \in DOMAIN q.val
                 THEN Shows(t, UpsertChannel(view[t], q.chan, q.row)) /\ ApartIf(q.late # {}, q)
                 ELSE UNCHANGED <<view, apart>>
            /\ UNCHANGED <<presence, dropped>>
  /\ UNCHANGED <<store, crossed, astray>>

-----------------------------------------------------------------------------
(* Connections, the load of the page and resync.                           *)

Drop(t) ==
  /\ Fails("drop") /\ link[t]
  /\ link' = [link EXCEPT ![t] = FALSE] /\ in' = [in EXCEPT ![t] = <<>>] /\ wire' = [wire EXCEPT ![t] = <<>>]
  /\ UNCHANGED <<limit, moves, server, gen, people, store, view, reqs, known>>
\* What was read before a socket opens may lack what no event will tell of.
Outlived(t) ==
  {IF q.tab = t /\ (q.op \in {"summary", "mute"} \/ q.at \notin {"ask", "read", "write"})
     THEN [q EXCEPT !.late = @ \cup Chan \cup User] ELSE q : q \in reqs}
\* onopen after a drop: onRealtimeConnChange starts a resync.
Reconnect(t) ==
  /\ ~link[t] /\ gen[t] > 0 /\ Register(t) /\ Resync(t, Outlived(t))
  /\ UNCHANGED <<limit, moves, faults, status, in, wire, shown, idle, hushed, store, view, known>>

\* The page is loaded: enterApp asks for the same lists.
EnterApp(t) ==
  /\ gen[t] = 0 /\ ~view[t].ready /\ \A q \in Of(t) : q.op # "list" /\ q.op # "summary"
  /\ reqs' = reqs \cup {Req(t, "list", 0, 0, [boot |-> TRUE], "ask")}
  /\ UNCHANGED <<presence, store, view, known>>
\* startRealtime, last: what changed after the lists were read is not known here.
StartRealtime(t) ==
  LET v == view[t]
      L == ListChannels(Me(t))
  IN
  /\ gen[t] = 0 /\ v.ready /\ conns' = conns \cup {[tab |-> t, gen |-> 1, idle |-> FALSE]}
  /\ gen' = [gen EXCEPT ![t] = 1] /\ link' = [link EXCEPT ![t] = TRUE]
  /\ IF Held(Me(t)) = {} \/ IdleIn(conns, Me(t)) THEN Announce(<<t, 1>>, Me(t), TRUE, "") ELSE UNCHANGED telling
  /\ apart' = apart \cup {<<t, c>> : c \in {c \in Chan :
                 \/ (c \in DOMAIN L) # (c \in DOMAIN v.chans) \/ (c \in v.muted) # (c \in silenced[Me(t)])
                 \/ c \in DOMAIN L \cap DOMAIN v.chans /\ L[c] # v.chans[c]}}
  /\ blurred' = blurred \cup {<<t, u>> : u \in {u \in User : shown[t][u] # Effective(u)}}
                        \cup (IF About(Me(t)) # {} THEN Tabs \X {Me(t)} ELSE {})
  /\ hushed' = IF idle[t] THEN hushed \cup {t} ELSE hushed
  /\ AstrayIf(v.active \in Private /\ v.members # member[v.active], t) /\ reqs' = Outlived(t)
  /\ UNCHANGED <<limit, moves, faults, status, in, wire, shown, pending, idle, store, view, crossed, dropped>>

\* Users and channels are read for a list, then the muted ones for a summary.
ListAnswers(q) ==
  LET u == Me(q.tab) IN
  /\ q.at = "ask"
  /\ \/ q.op = "list" /\ Becomes(q, [q EXCEPT !.at = "done", !.row = [chans |-> ListChannels(u), users |-> [w \in User |-> Effective(w)]]])
     \/ q.op = "summary" /\ Becomes(q, [q EXCEPT !.at = "done", !.aud = silenced[u]])
  /\ UNCHANGED <<presence, store, view, known>>

\* Channels that a frame on its way to t tells of.
Coming(t) == {in[t][i].chan : i \in {i \in DOMAIN in[t] : in[t][i].type # "presence"}}
\* setUsers, setChannels. Answers of the tab that are on their way are older or
\* newer than this list; a frame of a user is still to be read after it.
ListLands(q) ==
  LET t == q.tab IN
  /\ q.op = "list" /\ q.at = "done"
  /\ shown' = [shown EXCEPT ![t] = q.row.users]
  /\ Shows(t, [view[t] EXCEPT !.chans = q.row.chans])
  /\ blurred' = {b \in blurred : b[1] = t => \/ About(b[2]) # {} \/ pending[t][b[2]] # Unset
                                             \/ \E i \in DOMAIN in[t] : in[t][i].user = b[2]}
                \cup {<<t, u>> : u \in q.late \cap User}
  /\ reqs' = {IF p.tab = t /\ (p.op = "mute" \/ (p.at = "done" /\ p.op # "members")) THEN [p EXCEPT !.late = @ \cup Chan \cup User] ELSE p : p \in Stale({t} \X (q.late \cap Chan), Rest(q))}
             \cup {[Req(t, "summary", 0, 0, q.val, "ask") EXCEPT !.late = q.late \cup {c \in Coming(t) : <<t, c>> \in apart}]}
  /\ apart' = apart \cup {<<t, c>> : c \in q.late \cap Chan}
  /\ UNCHANGED <<limit, moves, faults, server, net, pending, idle, hushed, store, crossed, astray, dropped>>

\* A failed list ends the resync: nothing is read, the idle flag is not sent.
ResyncFails(q) ==
  LET t == q.tab IN
  /\ q.op = "list" /\ q.at = "failed"
  /\ Lose({t} \X Chan, Rest(q)) /\ astray' = astray \cup {t}
  /\ blurred' = blurred \cup ({t} \X User)
  /\ hushed' = IF idle[t] THEN hushed \cup {t} ELSE hushed
  /\ UNCHANGED <<limit, moves, faults, server, net, shown, pending, idle, store, view, crossed, dropped>>

\* The rest of resync: the muted set, an open channel that is gone, the
\* sidebar; the open channel is loaded unless the reader has scrolled back.
\* enterApp goes the same way, with the channel it remembers.
SummaryLands(q, scrolled, saved) ==
  LET t == q.tab
      boot == q.val.boot
      m == [view[t] EXCEPT !.muted = q.aud, !.ready = TRUE]
      v == Render(IF boot THEN [m EXCEPT !.active = IF saved \in DOMAIN m.chans THEN saved ELSE FirstIn(m.chans)]
                  ELSE IF m.active \in DOMAIN m.chans THEN m ELSE [m EXCEPT !.active = FirstIn(m.chans)])
      settle == Rest(q) \cup (IF boot THEN {} ELSE {Req(t, "settle", 0, 0, Bare, "done")})
  IN
  /\ q.op = "summary" /\ q.at = "done"
  /\ (saved # 0 => boot) /\ (scrolled => ~boot /\ Allowed("scroll"))
  /\ apart' = {b \in apart : b[1] = t => b[2] \in Coming(t)}
              \cup {<<t, c>> : c \in q.late \cap Chan}
  /\ IF scrolled THEN Shows(t, v) /\ reqs' = settle /\ astray' = astray \cup {t}
                 ELSE LoadChannel(t, v, settle)
  /\ UNCHANGED <<presence, store, crossed, dropped>>
\* Mutated form: the new connection is not told that the tab is idle.
ResyncEnds(q) ==
  /\ q.op = "settle" /\ reqs' = Rest(q) /\ hushed' = hushed \ {q.tab}
  /\ UNCHANGED <<limit, moves, faults, server, net, shown, pending, idle, blurred, store, view, known>>
\* Last, the idle flag is sent again: a new connection starts active.
ResyncSettles(q) ==
  /\ q.op = "settle" /\ reqs' = Rest(q)
  /\ IF idle[q.tab] THEN SendWS(q.tab, TRUE) ELSE UNCHANGED wire
  /\ hushed' = hushed \ {q.tab}
  /\ UNCHANGED <<limit, moves, faults, server, link, gen, in, shown, pending, idle, blurred, store, view, known>>

-----------------------------------------------------------------------------
Init ==
  /\ PresenceInit
  /\ made = limit.made /\ gone = {} /\ rows = limit.rows /\ member = limit.member
  /\ open = [c \in Chan |-> IF Kind[c] = "dm" THEN limit.open ELSE {}]
  /\ silenced = [u \in User |-> {}]
  /\ view = [t \in Tabs |->
       LET chans == IF t \in limit.late THEN <<>> ELSE ListChannels(Me(t))
           act == IF limit.at \in DOMAIN chans THEN limit.at ELSE FirstIn(chans)
       IN  [chans |-> chans, active |-> act, muted |-> {}, list |-> RegularChannelOrder(chans),
            members |-> IF act \in Private THEN member[act] ELSE Everyone,
            dms |-> DOMAIN chans \ Real, grip |-> Free, dirty |-> FALSE, torn |-> FALSE, ready |-> t \notin limit.late]]
  /\ reqs = {} /\ crossed = {} /\ apart = {} /\ astray = {} /\ dropped = NoDrop

Presents(step) == step /\ UNCHANGED <<store, view, reqs, known>>
People ==
  \/ \E c \in conns : Presents(Reap(c)) \/ Presents(OnIdleFrame(c))
  \/ \E x \in telling : Presents(TellReads(x)) \/ Presents(TellSends(x))
  \/ \E t \in Tabs : (view[t].ready /\ Presents(IdleFlips(t))) \/ \E u \in User : Presents(FanOutPresence(t, u))
  \/ \E t \in Tabs, s \in {"online", "away", "offline"} : Presents(SetStatus(t, s))
Handlers == \E q \in reqs :
  \/ Reads(q) \/ UpdateWrites(q) \/ UpdateLoads(q) \/ CreateWrites(q) \/ ArchiveWrites(q)
  \/ DMWrites(q) \/ CloseDMWrites(q) \/ PostWrites(q) \/ InviteWrites(q)
  \/ RemoveGathers(q) \/ RemoveWrites(q) \/ MuteWrites(q) \/ MembersAnswers(q) \/ ListAnswers(q)
  \/ Gathers(q) \/ Broadcasts(q) \/ Refused(q)
Answers == \E q \in reqs :
  \/ MembersLand(q) \/ RollLands(q) \/ InviteLands(q) \/ MuteLands(q) \/ RemoveLands(q) \/ LeaveLands(q)
  \/ CloseDMLands(q) \/ StartDMLands(q) \/ UpdateLands(q) \/ ListLands(q) \/ ResyncFails(q) \/ ResyncSettles(q)
  \/ \E scrolled \in BOOLEAN, saved \in Chan \cup {0} : SummaryLands(q, scrolled, saved)
Events == \E t \in Tabs :
  OnPresence(t) \/ OnChannel(t) \/ OnArchive(t) \/ OnMemberRemove(t) \/ OnMute(t) \/ FlushRenders(t)
Links == \E t \in Tabs : Drop(t) \/ Reconnect(t) \/ EnterApp(t) \/ StartRealtime(t)
Uses == \E t \in Tabs :
  \/ \E c \in Chan : Click(t, c) \/ ToggleMute(t, c) \/ CreateChannel(t, c) \/ DeleteChannel(t, c)
                     \/ StartDM(t, c) \/ CloseDM(t, c) \/ Post(t, c) \/ Press(t, c)
  \/ \E c \in Chan, u \in User : AddMember(t, c, u)
  \/ \E d \in {-1, 1} : NavigateChannels(t, d)
  \/ \E u \in User : RemoveMember(t, u)
  \/ SaveTopic(t) \/ OpenInviteModal(t) \/ LeaveActiveChannel(t)
  \/ BeginDrag(t) \/ (\E k \in 0..3 : UpdateDrag(t, k)) \/ EndDrag(t) \/ Release(t)
Next == People \/ Handlers \/ Answers \/ Events \/ Links \/ Uses
Spec == Init /\ [][Next]_vars

-----------------------------------------------------------------------------
\* Nothing is under way for tab t, nor at any handler.
Quiet(t) ==
  /\ link[t] /\ [tab |-> t, gen |-> gen[t]] \in {[tab |-> c.tab, gen |-> c.gen] : c \in conns}
  /\ in[t] = <<>> /\ reqs = {} /\ ~view[t].dirty /\ view[t].grip.at # "lifted"

\* When all is quiet a sidebar shows the channels and DMs its user may see and
\* has open, with the server's topics, in the server's order, and the muted
\* ones as muted: after reorderings, topics, invitations, removals, archiving,
\* reopened DMs and reconnects. Excused: what crossed in the handlers, what a
\* list or an answer overtook, another tab's opening or closing of a DM, the
\* gap before the first connection, and a repaint a drag swallowed.
SidebarTrue == \A t \in Tabs : Quiet(t) =>
  LET v == view[t]
      L == ListChannels(Me(t))
  IN
  /\ \A c \in Chan \ crossed : <<t, c>> \in apart
       \/ /\ c \in DOMAIN v.chans <=> c \in DOMAIN L
          /\ c \in DOMAIN L => v.chans[c] = L[c] /\ (c \in v.muted <=> c \in silenced[Me(t)])
  /\ ~v.torn /\ apart \cap ({t} \X Chan) = {} => v.list = RegularChannelOrder(v.chans) /\ v.dms = DOMAIN v.chans \ Real

\* When all is quiet the members panel shows the members of the channel that is
\* open, or everyone if it is public: after switching, joining, leaving and
\* being removed. Excused: an answer for a channel no longer open, or older
\* than an event, an archived channel's successor, a scrolled reader's resync.
RosterTrue == \A t \in Tabs :
  LET v == view[t] IN
  Quiet(t) /\ t \notin astray /\ v.active \in DOMAIN v.chans \ crossed /\ <<t, v.active>> \notin apart =>
    v.members = IF v.active \in Private THEN member[v.active] ELSE Everyone

\* When nothing of a user is on its way, every tab shows them online, away or
\* idle exactly as their own tabs have it: after flips within the debounce,
\* reconnects and sockets that linger. Excused: announcements of one user that
\* crossed, a status set without a connection or while idle, and a list that an
\* event overtook.
PresenceTrue == \A t \in Tabs, u \in User :
  /\ Quiet(t) /\ Settled(u) /\ pending[t][u] = Unset /\ <<t, u>> \notin blurred
     /\ (\A x \in hushed : Me(x) # u)
  => shown[t][u] = Said(u)

\* A reordering that met no other update of a channel is the server's order
\* once its requests are done, and later topics do not undo it.
DropHeld ==
  dropped.clean /\ (\A q \in reqs : q.op # "update") =>
    \A c \in Range(dropped.order) : rows[c].pos = Place(dropped.order, c)
=============================================================================
