-------------------------------- MODULE Pane --------------------------------
(***************************************************************************)
(* The message pane of one browser tab (app.js region 5, history.js,       *)
(* state.js, drafts.js): the loaded window of each channel and its paging, *)
(* the rows drawn from it, the messages being sent and the text in the     *)
(* composer, against a server that keeps the channels' messages, answers   *)
(* API calls and broadcasts every change over one socket.                  *)
(*                                                                         *)
(* Processes and their atomic steps: the server answers one call at a      *)
(* time; the tab runs a handler up to its next await; an answer waits      *)
(* between the server and the tab while frames overtake it. Frames reach   *)
(* the tab in order. A socket that is not open loses them, and so does one *)
(* that died in a sleeping page without the tab being told ("zombie").     *)
(*                                                                         *)
(* Abstracted: a message is its number and what was done to it (posted,    *)
(* edited or pinned, deleted); scrolling is a choice between near the      *)
(* bottom and not, and a page is asked for whenever its guard allows; the  *)
(* tombstone of a deleted message is left out; grouping, reactions,        *)
(* mentions, read markers and the inline editor too. The attachments and   *)
(* the message search are in Composer and Search, which run over this one. *)
(***************************************************************************)
EXTENDS Naturals, Sequences, FiniteSets, FiniteSetsExt, SequencesExt

CONSTANTS
  Chan,      \* channels
  First,     \* the one the tab opens with
  Page,      \* PAGE: messages to a page
  Half,      \* messages on either side of the one jumped to
  MaxLog,    \* bound: messages ever posted
  MaxTexts,  \* bound: texts typed
  MaxMoves,  \* bound: channels opened, messages jumped to, pages asked for
  MaxFaults, \* bound: calls that fail and sockets that die
  Limits     \* bound: the instances a run looks at, each with its bounds

ASSUME ChanAssumption == First \in Chan
ASSUME PageAssumption == Page \in Nat \ {0} /\ Half \in Nat
ASSUME BoundsAssumption ==
  /\ MaxLog \in Nat /\ MaxTexts \in Nat /\ MaxMoves \in Nat /\ MaxFaults \in Nat
  /\ Limits \subseteq
       [old : 0..MaxLog, posts : 0..MaxLog, texts : 0..MaxTexts, same : BOOLEAN,
        changes : 0..MaxLog, moves : 0..MaxMoves, faults : 0..MaxFaults, images : Nat, searches : Nat,
        ops : SUBSET STRING]

VARIABLES
  log,        \* server: the messages posted, in the order of their ids
  in,         \* frames under way to the tab
  link,       \* the socket: "start", "up", "zombie", "down"
  wasOffline, \* the tab was told that the socket closed
  resyncs,    \* resync() calls under way
  active,     \* state.activeChannelId
  list,       \* state.messages: channel -> its loaded messages
  complete,   \* historyComplete: channels whose oldest message is loaded
  viewing,    \* viewingHistory: channels whose newest loaded one is not the last
  loading,    \* loadingOlder and loadingNewer
  calls,      \* API calls under way
  rows,       \* the rows of #message-list, top to bottom
  pendingSends, composer,
  drafts,     \* createDraftStore: channel -> text, 0 for none
  home,       \* ghost: the channel each text was typed in
  limit, moves, faults,
  strayed,    \* ghost: channels whose window met what the code does not mend
  twice,      \* ghost: two sends of one content met
  hasty       \* ghost: the user went on before a channel or a send was done

server == <<log, in>>
socket == <<link, wasOffline, resyncs>>
window == <<list, complete, viewing, loading>>
pane == <<active, calls, rows, pendingSends>>
text == <<composer, drafts, home>>
bounds == <<limit, moves, faults>>
ghosts == <<strayed, twice, hasty>>
paneVars == <<server, socket, window, pane, text, bounds, ghosts>>

Id == 1..MaxLog
Text == 1..MaxTexts
Posted == 0
Edited == 1
Deleted == 2
Message == [id : Id, ver : {Posted, Edited, Deleted}]
Call ==
  [n : Nat, op : {"load", "around", "older", "newer", "send"}, chan : Chan, at : 0..MaxLog,
   text : 0..MaxTexts, temp : Nat, select : BOOLEAN,
   served : {"no", "yes", "failed"}, page : SUBSET Message, stale : BOOLEAN]
Row == [id : 0..MaxLog, ver : {Posted, Edited}, temp : Nat]

Ids(S) == {m.id : m \in S}
\* oldestMessageId, newestMessageId; 0 when nothing is loaded
Oldest(S) == IF S = {} THEN 0 ELSE Min(Ids(S))
Newest(S) == IF S = {} THEN 0 ELSE Max(Ids(S))
Body(t) == IF limit.same THEN 1 ELSE t
Allowed(op) == op \in limit.ops

\* A call, numbered apart from those in K.
Asked(K, op, c, at) ==
  [n |-> Min(1..(Cardinality(K) + 1) \ {k.n : k \in K}), op |-> op, chan |-> c, at |-> at,
   text |-> 0, temp |-> 0, select |-> FALSE, served |-> "no", page |-> {}, stale |-> FALSE]
Frame(type, c, i, ver) == [type |-> type, chan |-> c, id |-> i, ver |-> ver]
Msg(f) == [id |-> f.id, ver |-> f.ver]
\* A frame about message i is under way.
Coming(i) == \E f \in ToSet(in) : f.id = i
\* ... the one that says it was posted.
Awaited(i) == \E f \in ToSet(in) : f.id = i /\ f.type = "new"
\* A call that replaces the window of the open channel.
Opening(c) == \E k \in calls : k.chan = c /\ k.op \in {"load", "around"}
Selecting == \E k \in calls : k.select

-----------------------------------------------------------------------------
(* What the tab does with its window and its rows.                         *)

\* setMessages
Replaced(c, S) == [list EXCEPT ![c] = S]
\* Mutated form: a message that is there already is left as it is.
AddedOnce(c, m) == [list EXCEPT ![c] = IF m.id \in Ids(@) THEN @ ELSE @ \cup {m}]
\* addMessage: in place, or where its id belongs
Added(c, m) == [list EXCEPT ![c] = {x \in @ : x.id # m.id} \cup {m}]
\* prependMessages, appendMessages: what is loaded stays as it is
Spliced(c, S) == [list EXCEPT ![c] = @ \cup {x \in S : x.id \notin Ids(@)}]
\* markMessageDeleted
Marked(c, i) == [list EXCEPT ![c] = {IF x.id = i THEN [x EXCEPT !.ver = Deleted] ELSE x : x \in @}]

Real(m) == [id |-> m.id, ver |-> m.ver, temp |-> 0]
Pending(t) == [id |-> 0, ver |-> Posted, temp |-> t]
\* renderMessages: the list is cleared, pending rows with it
Drawn(S) ==
  LET shown == {m \in S : m.ver # Deleted}
  IN  SetToSortSeq({Real(m) : m \in shown}, LAMBDA a, b : a.id < b.id)
At(rs, i) == {p \in DOMAIN rs : rs[p].id = i}
\* Mutated form: always below what is there, above the pending rows.
InsertedLast(rs, S, m) ==
  LET dim == {p \in DOMAIN rs : rs[p].temp # 0}
  IN  InsertAt(rs, IF dim # {} THEN Min(dim) ELSE Len(rs) + 1, Real(m))
\* insertionPointFor, and the row put before it
Inserted(rs, S, m) ==
  LET after == {i \in Ids(S) : i > m.id /\ At(rs, i) # {}}
      dim == {p \in DOMAIN rs : rs[p].temp # 0}
      p == IF after # {} THEN Min(At(rs, Min(after)))
           ELSE IF dim # {} THEN Min(dim) ELSE Len(rs) + 1
  IN  InsertAt(rs, p, Real(m))
Without(rs, t) == SelectSeq(rs, LAMBDA r : r.temp # t)
Connected(t) == \E p \in DOMAIN rows : rows[p].temp = t
\* the oldest pending send of the channel with this content; 0 for none
Match(c, t) ==
  LET P == {i \in DOMAIN pendingSends :
              pendingSends[i].chan = c /\ Body(pendingSends[i].text) = Body(t)}
  IN  IF P = {} THEN 0 ELSE Min(P)
\* A served answer that does not know what the tab was told, or missed.
Overtaken(K, F) ==
  {IF \E f \in F :
       /\ k.chan = f.chan /\ k.served = "yes" /\ k.op # "send" /\ Msg(f) \notin k.page
       /\ \/ f.id \in Ids(k.page)
          \/ f.id > Newest(k.page) /\ (k.op = "load" \/ (k.op = "newer" /\ Cardinality(k.page) < Page))
     THEN [k EXCEPT !.stale = TRUE] ELSE k : k \in K}

\* handleListMessages
Listed(k) ==
  LET own == {[id |-> i, ver |-> log[i].ver] : i \in {j \in DOMAIN log : log[j].chan = k.chan}}
      Latest(n, S) == {m \in S : Cardinality({x \in S : x.id > m.id}) < n}
      Earliest(n, S) == {m \in S : Cardinality({x \in S : x.id < m.id}) < n}
      below == {m \in own : m.id < k.at}
      above == {m \in own : m.id > k.at}
  IN  CASE k.op = "load"   -> Latest(Page, own)
        [] k.op = "older"  -> Latest(Page, below)
        [] k.op = "newer"  -> Earliest(Page, above)
        [] k.op = "around" -> Latest(Half, below) \cup Earliest(Half, above) \cup {m \in own : m.id = k.at}

\* enterApp: before its first answer, or with the channel loaded and the socket open.
PaneInit ==
  /\ limit \in Limits
  /\ log = [i \in 1..limit.old |-> [chan |-> First, text |-> 0, ver |-> Posted]]
  /\ in = <<>> /\ wasOffline = FALSE /\ resyncs = 0 /\ active = First
  /\ LET ask == Asked({}, "load", First, 0)
         S == IF Allowed("start") THEN {} ELSE Listed(ask)
     IN  /\ link = (IF Allowed("start") THEN "start" ELSE "up")
         /\ calls = (IF Allowed("start") THEN {ask} ELSE {})
         /\ list = [c \in Chan |-> IF c = First THEN S ELSE {}]
         /\ rows = Drawn(S)
         /\ complete = (IF ~Allowed("start") /\ Cardinality(S) < Page THEN {First} ELSE {})
  /\ viewing = {} /\ loading = {} /\ pendingSends = <<>>
  /\ composer = 0 /\ drafts = [c \in Chan |-> 0] /\ home = <<>>
  /\ moves = 0 /\ faults = 0 /\ strayed = {} /\ twice = FALSE /\ hasty = FALSE

\* loadChannel up to its await; select: selectChannel goes on after it
LoadChannel(c, select, K) ==
  /\ pendingSends' = <<>> /\ loading' = {} /\ viewing' = viewing \ {c}
  /\ calls' = K \cup {[Asked(K, "load", c, 0) EXCEPT !.select = select]}
-----------------------------------------------------------------------------
(* The user.                                                               *)

\* enterApp wires the controls when the first channel is loaded.
Wired == link = "start" => ~Opening(First)
Moves(op) == Wired /\ Allowed(op) /\ moves < limit.moves /\ moves' = moves + 1

\* selectChannel up to its await, in the sidebar: also for the open channel.
SelectChannel(c) ==
  /\ Moves("select")
  /\ active' = c
  /\ drafts' = IF c # active THEN [drafts EXCEPT ![active] = composer] ELSE drafts
  /\ LoadChannel(c, TRUE, calls)
  /\ hasty' = (hasty \/ Selecting \/ (c = active /\ composer # 0))
  /\ UNCHANGED <<server, socket, list, complete, rows, composer, home, limit, faults, strayed, twice>>

\* jumpToMessage up to its await: the window stays, and so does the composer,
\* whatever channel its text and the target's draft belong to.
JumpToMessage(i) ==
  /\ Moves("jump") /\ i \in DOMAIN log
  /\ active' = log[i].chan
  /\ calls' = calls \cup {Asked(calls, "around", log[i].chan, i)}
  /\ hasty' = (hasty \/ (log[i].chan # active /\ (composer # 0 \/ drafts[log[i].chan] # 0 \/ Selecting)))
  /\ UNCHANGED <<server, socket, window, rows, pendingSends, text, limit, faults, strayed, twice>>

LoadOlderMessages ==
  /\ Moves("page")
  /\ "older" \notin loading /\ active \notin complete /\ list[active] # {}
  /\ loading' = loading \cup {"older"}
  /\ calls' = calls \cup {Asked(calls, "older", active, Oldest(list[active]))}
  /\ UNCHANGED <<server, socket, list, complete, viewing, active, rows, pendingSends, text,
                 limit, faults, ghosts>>

LoadNewerMessages ==
  /\ "newer" \notin loading /\ active \in viewing /\ list[active] # {}
  /\ loading' = loading \cup {"newer"}
  /\ calls' = calls \cup {Asked(calls, "newer", active, Newest(list[active]))}
  /\ UNCHANGED <<server, socket, list, complete, viewing, active, rows, pendingSends, text,
                 bounds, ghosts>>

Type ==
  /\ Allowed("send") /\ Wired /\ composer = 0 /\ Len(home) < limit.texts
  /\ composer' = Len(home) + 1 /\ home' = Append(home, active)
  /\ hasty' = (hasty \/ Selecting)
  /\ UNCHANGED <<server, socket, window, pane, drafts, bounds, strayed, twice>>

\* A send of this content to this channel, or its frame, is under way already.
Matching(c, t) ==
  \/ \E k \in calls : k.op = "send" /\ k.chan = c /\ Body(k.text) = Body(t)
  \/ \E f \in ToSet(in) : f.chan = c /\ log[f.id].text # 0 /\ Body(log[f.id].text) = Body(t)
\* optimisticSeq: the temporary id of a row, like no other still in use
FreshTemp ==
  LET used == {r.temp : r \in ToSet(rows)} \cup {k.temp : k \in calls} \cup {e.temp : e \in ToSet(pendingSends)}
  IN  Min(1..(Cardinality(used) + 1) \ used)
\* Enter (wireComposer's keydown handler) up to its await, and showOptimisticSend.
Enter ==
  LET t == composer
      shown == active \notin viewing
      temp == FreshTemp
  IN  /\ t # 0 /\ composer' = 0
      /\ calls' = calls \cup
           {[Asked(calls, "send", active, 0) EXCEPT !.text = t, !.temp = IF shown THEN temp ELSE 0]}
      /\ rows' = IF shown THEN Append(rows, Pending(temp)) ELSE rows
      /\ pendingSends' = IF shown THEN Append(pendingSends, [temp |-> temp, chan |-> active, text |-> t])
                         ELSE pendingSends
      /\ hasty' = (hasty \/ Selecting)
      /\ twice' = (twice \/ Matching(active, t))
      /\ UNCHANGED <<server, socket, window, active, drafts, home, bounds, strayed>>

-----------------------------------------------------------------------------
(* The server.                                                             *)

\* Every change is broadcast to the tab if its socket is there to take it.
Broadcast(f, K) ==
  IF link = "up"
    THEN in' = Append(in, f) /\ calls' = K /\ UNCHANGED strayed
    ELSE in' = in /\ calls' = Overtaken(K, {f}) /\ strayed' = strayed \cup {f.chan}

\* handleCreateMessage; K: the calls once it is served
Create(c, t, K) ==
  /\ Len(log) < MaxLog
  /\ log' = Append(log, [chan |-> c, text |-> t, ver |-> Posted])
  /\ Broadcast(Frame("new", c, Len(log) + 1, Posted), K)

\* Somebody else posts.
Post(c) ==
  /\ Len(log) < limit.old + limit.posts + Len(home)
  /\ Cardinality({i \in DOMAIN log : i > limit.old /\ log[i].text = 0}) < limit.posts
  /\ Create(c, 0, calls)
  /\ UNCHANGED <<socket, window, active, rows, pendingSends, text, bounds, twice, hasty>>

\* Somebody edits, pins or deletes.
Change(i, ver) ==
  /\ Cardinality({j \in DOMAIN log : log[j].ver # Posted}) < limit.changes
  /\ i \in DOMAIN log /\ log[i].ver < ver /\ ver \in {Edited, Deleted}
  /\ log' = [log EXCEPT ![i].ver = ver]
  /\ Broadcast(Frame(IF ver = Edited THEN "update" ELSE "delete", log[i].chan, i, ver), calls)
  /\ UNCHANGED <<socket, window, active, rows, pendingSends, text, bounds, twice, hasty>>

ServeList(k) ==
  /\ k.op # "send" /\ k.served = "no"
  /\ calls' = (calls \ {k}) \cup {[k EXCEPT !.served = "yes", !.page = Listed(k)]}
  /\ UNCHANGED <<server, socket, window, active, rows, pendingSends, text, bounds, ghosts>>

ServeSend(k) ==
  /\ k.op = "send" /\ k.served = "no"
  /\ Create(k.chan, k.text,
            (calls \ {k}) \cup {[k EXCEPT !.served = "yes", !.at = Len(log) + 1]})
  /\ UNCHANGED <<socket, window, active, rows, pendingSends, text, bounds, twice, hasty>>

\* The call fails, or its answer is lost.
Fail(k) ==
  /\ Allowed("fail") /\ faults < limit.faults /\ faults' = faults + 1
  /\ k.served # "failed"
  /\ calls' = (calls \ {k}) \cup {[k EXCEPT !.served = "failed"]}
  /\ UNCHANGED <<server, socket, window, active, rows, pendingSends, text, limit, moves, ghosts>>

-----------------------------------------------------------------------------
(* Answers: the rest of what asked.                                        *)

\* A window is new: strayed no more, unless the tab knew better already.
Anew(c, k) == strayed' = IF k.stale THEN strayed \cup {c} ELSE strayed \ {c}

\* loadChannel after its await
LoadAnswered(k) ==
  LET c == k.chan
  IN  CASE c # active -> UNCHANGED <<list, complete, rows, strayed>>
        [] c = active /\ k.served = "yes" ->
             /\ list' = Replaced(c, k.page) /\ rows' = Drawn(k.page)
             /\ complete' = IF Cardinality(k.page) < Page THEN complete \cup {c} ELSE complete \ {c}
             /\ Anew(c, k)
        [] c = active /\ k.served = "failed" ->
             /\ rows' = <<>> /\ strayed' = strayed \cup {c} /\ UNCHANGED <<list, complete>>

\* selectChannel after its await
AnswerLoad(k) ==
  /\ k.op = "load" /\ k.served # "no"
  /\ LoadAnswered(k)
  /\ composer' = IF k.select THEN drafts[k.chan] ELSE composer
  /\ calls' = calls \ {k}
  /\ UNCHANGED <<server, socket, viewing, loading, active, pendingSends, drafts, home, bounds, twice, hasty>>

\* jumpToMessage after its await, with the probe forward
AnswerAround(k) ==
  LET c == k.chan
      rest == calls \ {k}
  IN  /\ k.op = "around" /\ k.served # "no"
      /\ IF c = active /\ k.served = "yes"
           THEN /\ list' = Replaced(c, k.page) /\ rows' = Drawn(k.page)
                /\ complete' = complete \ {c} /\ viewing' = viewing \cup {c}
                /\ IF "newer" \in loading THEN calls' = rest /\ UNCHANGED loading
                   ELSE /\ calls' = rest \cup {Asked(rest, "newer", c, Newest(k.page))}
                        /\ loading' = loading \cup {"newer"}
                /\ Anew(c, k)
           ELSE /\ calls' = rest /\ UNCHANGED <<window, rows>>
                /\ strayed' = IF c = active THEN strayed \cup {c} ELSE strayed
      /\ UNCHANGED <<server, socket, active, pendingSends, text, bounds, twice, hasty>>

\* A page for a window that is no longer the one it was asked for, or older than what is known.
PageStrays(k, at) == strayed' = IF k.stale \/ k.at # at THEN strayed \cup {k.chan} ELSE strayed

\* loadOlderMessages after its await
AnswerOlder(k) ==
  LET c == k.chan
  IN  /\ k.op = "older" /\ k.served # "no"
      /\ calls' = calls \ {k} /\ loading' = loading \ {"older"}
      /\ IF k.served = "yes"
           THEN /\ complete' = IF Cardinality(k.page) < Page THEN complete \cup {c} ELSE complete
                /\ list' = Spliced(c, k.page)
                /\ rows' = IF k.page # {} /\ c = active THEN Drawn(list'[c]) ELSE rows
                /\ PageStrays(k, Oldest(list[c]))
           ELSE UNCHANGED <<list, complete, rows, strayed>>
      /\ UNCHANGED <<server, socket, viewing, active, pendingSends, text, bounds, twice, hasty>>

\* loadNewerMessages after its await
AnswerNewer(k) ==
  LET c == k.chan
  IN  /\ k.op = "newer" /\ k.served # "no"
      /\ calls' = calls \ {k} /\ loading' = loading \ {"newer"}
      /\ IF k.served = "yes"
           THEN /\ viewing' = IF Cardinality(k.page) < Page THEN viewing \ {c} ELSE viewing
                /\ list' = IF c = active THEN Spliced(c, k.page) ELSE list
                /\ rows' = IF k.page # {} /\ c = active THEN Drawn(list'[c]) ELSE rows
                /\ PageStrays(k, Newest(list[c]))
           ELSE UNCHANGED <<list, viewing, rows, strayed>>
      /\ UNCHANGED <<server, socket, complete, active, pendingSends, text, bounds, twice, hasty>>

\* reconcileOptimistic: the oldest pending send with this content becomes m.
Reconciled(c, t, S, m) ==
  LET i == Match(c, t)
      temp == pendingSends[i].temp
  IN  [handled |-> i # 0 /\ Connected(temp),
       pending |-> IF i = 0 THEN pendingSends ELSE RemoveAt(pendingSends, i),
       rows |-> IF i # 0 /\ Connected(temp) THEN Inserted(Without(rows, temp), S, m) ELSE rows]

\* The keydown handler after its await. A message under a history window, one the
\* window has left behind, or one that has changed already, is put in the list as
\* it was posted; one whose dimmed row was wiped is not drawn, which is left to its
\* frame.
Sent(k) ==
  LET c == k.chan
      f == Frame("new", c, k.at, Posted)
      r == Reconciled(c, k.text, list'[c], Msg(f))
  IN  /\ list' = Added(c, Msg(f))
      /\ pendingSends' = IF k.temp # 0 THEN r.pending ELSE pendingSends
      /\ rows' = IF k.temp # 0 THEN r.rows ELSE rows
      /\ calls' = Overtaken(calls \ {k}, {f})
      /\ strayed' = IF \/ c \in viewing
                       \/ k.at \notin Ids(list[c]) /\ ~Awaited(k.at)
                       \/ \E x \in list[c] : x.id = k.at /\ x.ver # Posted
                       \/ At(rows', k.at) = {} /\ ~Coming(k.at)
                      THEN strayed \cup {c} ELSE strayed
      /\ UNCHANGED <<composer, drafts, hasty>>

\* removePending, and the text put back where it was written
Unsent(k) ==
  LET mine == {i \in DOMAIN pendingSends : pendingSends[i].temp = k.temp}
  IN  /\ pendingSends' = IF mine = {} THEN pendingSends ELSE RemoveAt(pendingSends, Min(mine))
      /\ rows' = IF mine = {} THEN rows ELSE Without(rows, k.temp)
      /\ IF k.chan = active
           THEN /\ composer' = k.text /\ UNCHANGED drafts
                /\ hasty' = (hasty \/ composer # 0 \/ Selecting)
           ELSE /\ drafts' = [drafts EXCEPT ![k.chan] = k.text] /\ UNCHANGED composer
                /\ hasty' = (hasty \/ drafts[k.chan] \notin {0, k.text})
      /\ calls' = calls \ {k} /\ UNCHANGED <<list, strayed>>

AnswerSend(k) ==
  /\ k.op = "send"
  /\ (k.served = "yes" /\ Sent(k)) \/ (k.served = "failed" /\ Unsent(k))
  /\ UNCHANGED <<server, socket, complete, viewing, loading, active, home, bounds, twice>>

-----------------------------------------------------------------------------
(* Frames (handleRealtimeEvent).                                           *)

Inactive == UNCHANGED <<viewing, loading, rows, pendingSends>>
Render == rows' = Drawn(list'[active]) /\ UNCHANGED <<viewing, loading, pendingSends>>
Told(f) == calls' = Overtaken(calls, {f})

\* message.new in the open channel: reload, reconcile, leave, append or render.
OnNew(f, near) ==
  LET c == f.chan
      t == log[f.id].text
      S == list'[c]
      r == Reconciled(c, t, S, Msg(f))
      tried == IF t # 0 THEN r ELSE [handled |-> FALSE, pending |-> pendingSends, rows |-> rows]
  IN  IF t # 0 /\ c \in viewing THEN LoadChannel(c, FALSE, Overtaken(calls, {f})) /\ UNCHANGED rows
      ELSE /\ Told(f) /\ UNCHANGED <<viewing, loading>> /\ pendingSends' = tried.pending
           /\ rows' = CASE tried.handled -> tried.rows
                        [] ~tried.handled /\ At(rows, f.id) # {} -> rows
                        [] ~tried.handled /\ At(rows, f.id) = {} ->
                             IF c \notin viewing /\ (t # 0 \/ near) THEN Inserted(rows, S, Msg(f))
                             ELSE Drawn(S)

\* message.update: patchMessageRow, or a full render
OnUpdate(f) ==
  /\ Told(f)
  /\ IF At(rows, f.id) # {}
       THEN /\ rows' = [rows EXCEPT ![Min(At(rows, f.id))] = Real(Msg(f))]
            /\ UNCHANGED <<viewing, loading, pendingSends>>
       ELSE Render

\* message.delete
OnDelete(f) == Told(f) /\ Render

\* applyEvent, then onMessageEvent. What comes in under a history window, or
\* changes a message that is not loaded, leaves a gap that no page closes.
Take(near) ==
  LET f == Head(in)
      c == f.chan
  IN  /\ in # <<>> /\ in' = Tail(in)
      /\ list' = IF f.type = "delete" THEN Marked(c, f.id) ELSE Added(c, Msg(f))
      /\ IF c # active THEN Told(f) /\ Inactive
         ELSE CASE f.type = "new" -> OnNew(f, near)
                [] f.type = "update" -> OnUpdate(f)
                [] f.type = "delete" -> OnDelete(f)
      /\ strayed' = IF \/ f.type = "new" /\ c \in viewing
                       \/ f.type = "update" /\ f.id \notin Ids(list[c])
                      THEN strayed \cup {c} ELSE strayed
      /\ UNCHANGED <<log, socket, complete, active, text, bounds, twice, hasty>>

-----------------------------------------------------------------------------
(* The socket (ws.js), and what the tab does when it is back.              *)

Lose ==
  /\ faults < limit.faults /\ faults' = faults + 1
  /\ in' = <<>> /\ calls' = Overtaken(calls, ToSet(in))
  /\ strayed' = strayed \cup {f.chan : f \in ToSet(in)}
  /\ UNCHANGED <<log, resyncs, window, active, rows, pendingSends, text, limit, moves, twice, hasty>>

\* sock.onclose: the tab is told.
Drop == Allowed("drop") /\ link \in {"up", "zombie"} /\ Lose /\ link' = "down" /\ wasOffline' = TRUE
\* The connection dies under a sleeping page.
Sleep == Allowed("sleep") /\ link = "up" /\ Lose /\ link' = "zombie" /\ UNCHANGED wasOffline

\* enterApp connects when its first channel is loaded, retryLater after a close,
\* reconnectNow when the page wakes up; onRealtimeConnChange.
Connect ==
  /\ link # "up" /\ Wired
  /\ link' = "up" /\ wasOffline' = FALSE
  /\ resyncs' = IF wasOffline THEN resyncs + 1 ELSE resyncs
  /\ UNCHANGED <<server, window, pane, text, bounds, ghosts>>

\* resync after its awaits: the open channel is loaded if its reader is at the tail.
Resync(near) ==
  /\ resyncs > 0 /\ resyncs' = resyncs - 1
  /\ IF near THEN LoadChannel(active, FALSE, calls)
     ELSE UNCHANGED <<pendingSends, loading, viewing, calls>>
  /\ UNCHANGED <<server, link, wasOffline, list, complete, active, rows, text, bounds, ghosts>>

-----------------------------------------------------------------------------
\* The steps that have nothing to do with the attachments (Composer has the rest).
PaneStep ==
  \/ LoadOlderMessages \/ LoadNewerMessages \/ Type
  \/ \E k \in calls : ServeList(k) \/ AnswerAround(k) \/ AnswerOlder(k) \/ AnswerNewer(k)
  \/ \E c \in Chan : Post(c)
  \/ \E i \in Id, ver \in {Edited, Deleted} : Change(i, ver)
  \/ \E near \in BOOLEAN : Take(near) \/ Resync(near)
  \/ Drop \/ Sleep \/ Connect

-----------------------------------------------------------------------------
(* Properties.                                                             *)

Own(c) == {i \in DOMAIN log : log[i].chan = c}
\* The window of the open channel has no gap: from its oldest message on every
\* message is loaded as it is now, up to the last unless it is flagged as a
\* history window, and nothing is older when the tab believes that; what is
\* missing is on its way. (history.js, setMessages, addMessage, the pages)
WindowWhole ==
  LET S == list[active]
      due == {i \in Own(active) : i >= Oldest(S) /\ (active \in viewing => i <= Newest(S))}
  IN  active \notin strayed /\ ~Opening(active) =>
        /\ \A i \in due : [id |-> i, ver |-> log[i].ver] \in S \/ Coming(i)
        /\ active \in complete => \A i \in Own(active) : i >= Oldest(S) \/ Coming(i)

\* What is drawn is what is loaded: every loaded message has one row, in order,
\* and up to date unless a frame about it is still to come; below them is what
\* is being sent and nothing else, so that no row stays dimmed. Two sends of one
\* content are another matter. (appendMessageRow, patchMessageRow,
\* reconcileOptimistic, removePending against renderMessages)
RowsMatch ==
  LET real == SelectSeq(rows, LAMBDA r : r.temp = 0)
  IN  active \notin strayed /\ ~Opening(active) /\ ~twice =>
        /\ rows = real \o SelectSeq(rows, LAMBDA r : r.temp # 0)
        /\ \A p, q \in DOMAIN real : p < q => real[p].id < real[q].id
        /\ SelectSeq(real, LAMBDA r : ~Coming(r.id)) = Drawn({m \in list[active] : ~Coming(m.id)})
        /\ \A p \in DOMAIN rows : rows[p].temp # 0 =>
             \E k \in calls : k.op = "send" /\ k.temp = rows[p].temp

\* A text is never lost and never leaves the channel it was typed in, whatever
\* fails and wherever the user goes meanwhile, as long as channels are left to
\* load before the user goes on. (drafts.js, selectChannel, the failed send)
TextKept ==
  ~hasty => \A t \in DOMAIN home :
    LET c == home[t]
        sending == {k \in calls : k.op = "send" /\ k.text = t}
        posted == {i \in DOMAIN log : log[i].text = t}
    IN  /\ composer = t \/ drafts[c] = t \/ sending # {} \/ posted # {}
        /\ composer = t => active = c \/ Selecting
        /\ \A d \in Chan : drafts[d] = t => d = c
        /\ \A k \in sending : k.chan = c
        /\ \A i \in posted : log[i].chan = c
=============================================================================
