-------------------------- MODULE Messages_proofs ---------------------------
(* Theorems about Messages, for every set of users, moderators, requests   *)
(* and list requests, with store calls that fail or do not: typing, that a *)
(* deleted message stays as it is, that the ping rows are the mentions and *)
(* that the clients' copies end up as the stored message.                  *)
EXTENDS Messages, TLAPS

\* A request to post runs alone, and before there is a message.
PostsFirst ==
  \A r \in Req :
    job[r].op = "post" /\ job[r].at = "sent" =>
      ~row.there /\ \A q \in Req \ {r} : job[q].at = "free"

\* Before there is a message nobody can have seen one, or ask to change it.
NothingBefore ==
  ~row.there =>
    /\ \A r \in Req : job[r].at = "free" \/ (job[r].at = "sent" /\ job[r].op = "post")
    /\ \A u \in User : inbox[u] = <<>> /\ ~copy[u].row.there /\ ~load[u].answer.row.there

Sound == TypeOK /\ PostsFirst /\ NothingBefore

\* The handler of r takes a step.
Moved(r) ==
  \E j \in Jobs : j.at \notin {"free", "sent"} /\ job' = [job EXCEPT ![r] = j]

\* What a handler leaves in the store.
StoreSound ==
  /\ row \in Rows /\ row.there
  /\ row.deleted => row.text = {} /\ ~row.pinned
  /\ pings \in SUBSET User /\ reacts \in SUBSET User
  /\ doubt \in SUBSET User /\ pingDoubt \in BOOLEAN

-----------------------------------------------------------------------------
LEMMA InitSound ==
  Init => Sound
<1> SUFFICES ASSUME Init PROVE Sound
  OBVIOUS
<1>1. NoRow \in Rows /\ GoneFrame \in Frames /\ FreeJob \in Jobs
  BY UserAssumption DEF NoRow, Rows, Text, GoneFrame, Frames, Change, FreeJob, Jobs, Op, Stage
<1>2. Copy(NoRow, {}) \in Copies /\ ~Copy(NoRow, {}).row.there
  BY <1>1 DEF Copy, Copies, NoRow
<1>3. NoLoad \in [at : {"none", "rows", "answer"}, answer : Copies] /\ ~NoLoad.answer.row.there
  BY <1>2 DEF NoLoad
<1>4. \A S : <<>> \in Seq(S)
  OBVIOUS
<1>5. TypeOK
  <2>1. inbox \in [User -> Seq(Frames)]
    BY <1>4 DEF Init
  <2>2. job \in [Req -> Jobs] /\ row \in Rows /\ (row.deleted => FALSE)
    BY <1>1 DEF Init, NoRow
  <2>3. /\ copy \in [User -> Copies]
        /\ load \in [User -> [at : {"none", "rows", "answer"}, answer : Copies]]
    BY <1>2, <1>3 DEF Init
  <2>4. pings = {} /\ reacts = {} /\ doubt = {} /\ pingDoubt = FALSE /\ loads \in 0..MaxLoads
    BY LoadsAssumption DEF Init
  <2> QED
    BY <2>1, <2>2, <2>3, <2>4 DEF TypeOK
<1>6. PostsFirst
  BY DEF Init, PostsFirst, FreeJob
<1>7. NothingBefore
  BY <1>2, <1>3 DEF Init, NothingBefore, FreeJob
<1> QED
  BY <1>5, <1>6, <1>7 DEF Sound

\* Whatever a handler at work does, there is a message before and after it.
LEMMA HandlerSound ==
  ASSUME Sound, NEW r \in Req, job[r].at # "free", Moved(r), StoreSound',
         inbox' \in [User -> Seq(Frames)], UNCHANGED client
  PROVE  Sound'
<1> USE DEF Sound
<1>1. PICK j \in Jobs : j.at \notin {"free", "sent"} /\ job' = [job EXCEPT ![r] = j]
  BY DEF Moved
<1>2. TypeOK'
  BY <1>1 DEF TypeOK, StoreSound, client
<1>3. PostsFirst'
  <2> SUFFICES ASSUME NEW q \in Req, job'[q].op = "post", job'[q].at = "sent"
               PROVE  FALSE
    BY DEF PostsFirst
  <2>1. q # r /\ job[q] = job'[q]
    BY <1>1 DEF TypeOK
  <2> QED
    BY <2>1 DEF PostsFirst
<1>4. NothingBefore'
  BY DEF NothingBefore, StoreSound
<1> QED
  BY <1>2, <1>3, <1>4

\* Only posting precedes the message.
LEMMA ThereIs ==
  ASSUME Sound, NEW r \in Req, job[r].at # "free", job[r].op # "post" \/ job[r].at # "sent"
  PROVE  row.there
  BY DEF Sound, NothingBefore

\* The frames a handler prepares.
LEMMA FrameTypes ==
  /\ GoneFrame \in Frames
  /\ \A x \in Rows : RowFrame(x) \in Frames
  /\ \A rs \in SUBSET User : TallyFrame(rs) \in Frames
  BY DEF GoneFrame, RowFrame, TallyFrame, Frames, Change, NoRow, Rows, Text

\* The ways a handler goes on.
LEMMA Moves ==
  ASSUME Sound, NEW r \in Req
  PROVE  /\ job' = [job EXCEPT ![r] = Ended(r)] => Moved(r)
         /\ \A s \in Stage \ {"free", "sent"} : Go(r, s) => Moved(r)
         /\ \A f \in Frames : Send(r, f) => Moved(r)
         /\ \A x \in Rows, s \in Stage \ {"free", "sent"} : Keep(r, x, s) => Moved(r)
<1> USE DEF Sound
<1>1. job \in [Req -> Jobs] /\ job[r] \in Jobs
  BY DEF TypeOK
<1>2. ASSUME job' = [job EXCEPT ![r] = Ended(r)] PROVE Moved(r)
  <2>1. FreeJob \in Jobs
    BY FrameTypes, UserAssumption DEF FreeJob, Jobs, Op, Text, Stage
  <2>2. Ended(r) \in Jobs /\ Ended(r).at = "done"
    BY <1>1, <2>1 DEF Ended, Jobs, Stage
  <2> QED
    BY <1>2, <2>2 DEF Moved
<1>3. ASSUME NEW s \in Stage \ {"free", "sent"}, Go(r, s) PROVE Moved(r)
  <2> DEFINE j == [job[r] EXCEPT !.at = s]
  <2>1. j \in Jobs /\ j.at = s
    BY <1>1 DEF Jobs
  <2>2. job' = [job EXCEPT ![r] = j]
    BY <1>1, <1>3 DEF Go
  <2> HIDE DEF j
  <2> QED
    BY <2>1, <2>2 DEF Moved
<1>4. ASSUME NEW f \in Frames, NEW s \in Stage \ {"free", "sent"},
             job' = [job EXCEPT ![r] = [@ EXCEPT !.at = s, !.frame = f, !.to = User]]
      PROVE  Moved(r)
  <2> DEFINE j == [job[r] EXCEPT !.at = s, !.frame = f, !.to = User]
  <2>1. j \in Jobs /\ j.at = s
    BY <1>1 DEF Jobs
  <2>2. job' = [job EXCEPT ![r] = j]
    BY <1>1, <1>4
  <2> HIDE DEF j
  <2> QED
    BY <2>1, <2>2 DEF Moved
<1>5. ASSUME NEW f \in Frames, Send(r, f) PROVE Moved(r)
  BY <1>4, <1>5 DEF Send, Stage
<1>6. ASSUME NEW x \in Rows, NEW s \in Stage \ {"free", "sent"}, Keep(r, x, s) PROVE Moved(r)
  BY <1>4, <1>6, FrameTypes DEF Keep
<1> QED
  BY <1>2, <1>3, <1>5, <1>6

-----------------------------------------------------------------------------
(* One lemma per group of actions.                                         *)

\* A client asks only for what it may.
LEMMA RequestsKeepSound ==
  ASSUME Sound, NEW r \in Req, NEW u \in User, NEW op \in Op, NEW text \in Text,
         Request(r, u, op, text)
  PROVE  Sound'
<1> USE DEF Sound
<1> DEFINE j == [job[r] EXCEPT !.op = op, !.by = u, !.text = text, !.at = "sent"]
<1>1. j \in Jobs /\ j.op = op /\ j.at = "sent" /\ job' = [job EXCEPT ![r] = j]
  <2>1. job \in [Req -> Jobs] /\ job[r] \in Jobs
    BY DEF TypeOK
  <2>2. j \in Jobs /\ j.op = op /\ j.at = "sent"
    BY <2>1 DEF Jobs, Stage
  <2>3. job' = [job EXCEPT ![r] = [@ EXCEPT !.op = op, !.by = u, !.text = text, !.at = "sent"]]
    BY DEF Request
  <2> QED
    BY <2>1, <2>2, <2>3
<1>2. UNCHANGED <<row, pings, reacts, inbox, copy, load, loads, doubt, pingDoubt>>
  BY DEF Request, store, client
<1> HIDE DEF j
<1>3. op # "post" => row.there
  <2>1. op # "post" => copy[u].row.there
    BY DEF Request, May, Live, Op
  <2> QED
    BY <2>1 DEF NothingBefore
<1>4. op = "post" => ~row.there /\ \A q \in Req : job[q].at = "free"
  BY DEF Request, May
<1>5. TypeOK'
  BY <1>1, <1>2 DEF TypeOK
<1>6. PostsFirst'
  BY <1>1, <1>2, <1>3, <1>4 DEF PostsFirst, TypeOK
<1>7. NothingBefore'
  BY <1>1, <1>2, <1>3, <1>4 DEF NothingBefore, TypeOK
<1> QED
  BY <1>5, <1>6, <1>7

\* What the ghosts may become.
LEMMA GhostTypes ==
  ASSUME TypeOK, NEW r \in Req
  PROVE  /\ Begin(r) => doubt' \in SUBSET User
         /\ BeginPings(r) => pingDoubt' \in BOOLEAN
         /\ Abandon(r) => doubt' \in SUBSET User
  BY DEF TypeOK, Begin, BeginPings, Abandon

\* The handlers that write the row.
LEMMA RowHandlersKeepSound ==
  ASSUME Sound, NEW r \in Req,
         \/ CreateMessage(r) \/ EditMessage(r) \/ SetMessagePinned(r) \/ SoftDeleteMessage(r)
  PROVE  Sound'
<1> USE DEF Sound
<1>1. job[r] \in Jobs /\ job[r].at = "sent" /\ inbox' = inbox /\ UNCHANGED client
  BY DEF CreateMessage, EditMessage, SetMessagePinned, SoftDeleteMessage, At, Refuse, TypeOK
<1>2. inbox' \in [User -> Seq(Frames)]
  BY <1>1 DEF TypeOK
<1>3. NoRow \in Rows /\ Recording(job[r].text) \in Stage \ {"free", "sent"}
  BY DEF NoRow, Rows, Text, Recording, Stage
<1>4. ASSUME Refuse(r), job[r].op # "post" PROVE Sound'
  <2>1. Moved(r)
    BY <1>4, Moves DEF Refuse
  <2>2. StoreSound'
    BY <1>1, <1>4, ThereIs DEF Refuse, store, TypeOK, StoreSound
  <2> QED
    BY <1>1, <1>2, <2>1, <2>2, HandlerSound
<1>5. CASE CreateMessage(r)
  <2> DEFINE new == [NoRow EXCEPT !.there = TRUE, !.text = job[r].text]
  <2>1. new \in Rows /\ new.there /\ ~new.deleted
    BY <1>1 DEF NoRow, Rows, Jobs
  <2>2. Keep(r, new, Recording(job[r].text)) /\ Begin(r) /\ BeginPings(r)
        /\ UNCHANGED <<pings, reacts>>
    BY <1>5 DEF CreateMessage
  <2> HIDE DEF new
  <2>3. Moved(r)
    BY <1>3, <2>1, <2>2, Moves
  <2>4. StoreSound'
    BY <2>1, <2>2, GhostTypes DEF Keep, TypeOK, StoreSound
  <2> QED
    BY <1>1, <1>2, <2>3, <2>4, HandlerSound
<1>6. CASE EditMessage(r)
  <2>0. CASE row.deleted
    BY <1>4, <1>6, <2>0 DEF EditMessage, At
  <2>1. CASE ~row.deleted
    <3> DEFINE new == [row EXCEPT !.text = job[r].text]
    <3>1. row.there
      BY <1>1, <1>6, ThereIs DEF EditMessage, At
    <3>2. new \in Rows /\ new.there /\ ~new.deleted
      BY <1>1, <2>1, <3>1 DEF TypeOK, Rows, Jobs
    <3>3. Keep(r, new, "clear") /\ Begin(r) /\ BeginPings(r) /\ UNCHANGED <<pings, reacts>>
      BY <1>6, <2>1 DEF EditMessage
    <3> HIDE DEF new
    <3>4. Moved(r)
      BY <3>2, <3>3, Moves DEF Stage
    <3>5. StoreSound'
      BY <3>2, <3>3, GhostTypes DEF Keep, TypeOK, StoreSound
    <3> QED
      BY <1>1, <1>2, <3>4, <3>5, HandlerSound
  <2> QED
    BY <2>0, <2>1
<1>7. CASE SetMessagePinned(r)
  <2>0. CASE job[r].op = "pin" /\ row.deleted
    BY <1>4, <1>7, <2>0 DEF SetMessagePinned
  <2>1. CASE ~(job[r].op = "pin" /\ row.deleted)
    <3> DEFINE new == [row EXCEPT !.pinned = (job[r].op = "pin")]
    <3>1. row.there
      BY <1>1, <1>7, ThereIs DEF SetMessagePinned, At
    <3>2. new \in Rows /\ new.there /\ (new.deleted => new.text = {} /\ ~new.pinned)
      BY <1>1, <2>1, <3>1 DEF TypeOK, Rows
    <3>3. Keep(r, new, "send") /\ Begin(r) /\ UNCHANGED <<pings, reacts, pingDoubt>>
      BY <1>7, <2>1 DEF SetMessagePinned
    <3> HIDE DEF new
    <3>4. Moved(r)
      BY <3>2, <3>3, Moves DEF Stage
    <3>5. StoreSound'
      BY <3>2, <3>3, GhostTypes DEF Keep, TypeOK, StoreSound
    <3> QED
      BY <1>1, <1>2, <3>4, <3>5, HandlerSound
  <2> QED
    BY <2>0, <2>1
<1>8. CASE SoftDeleteMessage(r)
  <2>0. CASE row.deleted
    BY <1>4, <1>8, <2>0 DEF SoftDeleteMessage, At
  <2>1. CASE ~row.deleted
    <3> DEFINE new == [NoRow EXCEPT !.there = TRUE, !.deleted = TRUE]
    <3>1. new \in Rows /\ new.there /\ new.text = {} /\ ~new.pinned
      BY DEF NoRow, Rows, Text
    <3>2. row' = new /\ Go(r, "clear") /\ Begin(r) /\ BeginPings(r) /\ UNCHANGED <<pings, reacts>>
      BY <1>8, <2>1 DEF SoftDeleteMessage
    <3> HIDE DEF new
    <3>3. Moved(r)
      BY <3>2, Moves DEF Stage
    <3>4. StoreSound'
      BY <3>1, <3>2, GhostTypes DEF TypeOK, StoreSound
    <3> QED
      BY <1>1, <1>2, <3>3, <3>4, HandlerSound
  <2> QED
    BY <2>0, <2>1
<1> QED
  BY <1>5, <1>6, <1>7, <1>8

\* The handlers' other steps: pings, reactions, failures, broadcasts.
LEMMA OtherHandlersKeepSound ==
  ASSUME Sound, NEW r \in Req,
         \/ EditFails(r) \/ DeleteReactions(r) \/ DeleteFails(r) \/ DeleteMentions(r)
         \/ \E u \in User : RecordMention(r, u)
         \/ GetMessage(r) \/ ChangeReaction(r) \/ ReactionsForMessage(r) \/ ReactionsFail(r)
         \/ \E u \in User : Broadcast(r, u)
  PROVE  Sound'
<1> USE DEF Sound
<1>1. job[r] \in Jobs
  BY DEF TypeOK
<1>2. job[r].at # "free" /\ row.there /\ row' = row /\ UNCHANGED client
  <2>1. job[r].at # "free" /\ (job[r].op # "post" \/ job[r].at # "sent")
    BY DEF EditFails, DeleteReactions, DeleteFails, DeleteMentions, RecordMention, GetMessage,
           ChangeReaction, ReactionsForMessage, ReactionsFail, Broadcast, At
  <2>2. row' = row /\ UNCHANGED client
    BY DEF EditFails, DeleteReactions, DeleteFails, DeleteMentions, RecordMention, GetMessage,
           ChangeReaction, ReactionsForMessage, ReactionsFail, Broadcast, Refuse, store
  <2> QED
    BY <2>1, <2>2, ThereIs
<1>3. ASSUME Moved(r), pings' \in SUBSET User, reacts' \in SUBSET User,
             doubt' \in SUBSET User, pingDoubt' \in BOOLEAN, inbox' \in [User -> Seq(Frames)]
      PROVE  Sound'
  <2>1. StoreSound'
    BY <1>2, <1>3 DEF TypeOK, StoreSound
  <2> QED
    BY <1>2, <1>3, <2>1, HandlerSound
<1>4. CASE EditFails(r) \/ DeleteFails(r) \/ ReactionsFail(r)
  <2>1. Abandon(r) /\ UNCHANGED <<store, inbox>> /\ pingDoubt' \in BOOLEAN
    BY <1>4 DEF EditFails, DeleteFails, ReactionsFail, TypeOK
  <2> QED
    BY <1>3, <2>1, Moves, GhostTypes DEF Abandon, store, TypeOK
<1>5. CASE DeleteReactions(r)
  BY <1>3, <1>5, Moves, FrameTypes DEF DeleteReactions, TypeOK
<1>6. CASE DeleteMentions(r)
  <2>1. \E s \in Stage \ {"free", "sent"} : Go(r, s)
    BY <1>6 DEF DeleteMentions, Recording, Stage
  <2> QED
    BY <1>3, <1>6, <2>1, Moves DEF DeleteMentions, TypeOK
<1>7. CASE \E u \in User : RecordMention(r, u)
  <2>1. PICK u \in User : RecordMention(r, u)
    BY <1>7
  <2>2. PICK todo \in SUBSET job[r].text :
          job' = [job EXCEPT ![r] = [@ EXCEPT !.text = todo, !.at = Recording(todo)]]
    BY <2>1 DEF RecordMention
  <2> DEFINE j == [job[r] EXCEPT !.text = todo, !.at = Recording(todo)]
  <2>3. j \in Jobs /\ j.at = Recording(todo)
    BY <1>1 DEF Jobs, Text, Recording, Stage
  <2>4. job' = [job EXCEPT ![r] = j]
    BY <2>2
  <2> HIDE DEF j
  <2>5. Moved(r)
    BY <2>3, <2>4 DEF Moved, Recording
  <2> QED
    BY <1>3, <2>1, <2>5 DEF RecordMention, TypeOK
<1>8. CASE GetMessage(r)
  <2>1. CASE row.deleted
    BY <1>3, <1>8, <2>1, Moves DEF GetMessage, Refuse, store, TypeOK
  <2>2. CASE ~row.deleted
    <3>1. Go(r, "react") /\ Begin(r) /\ UNCHANGED <<store, inbox, pingDoubt>>
      BY <1>8, <2>2 DEF GetMessage
    <3> QED
      BY <1>3, <3>1, Moves, GhostTypes DEF store, TypeOK, Stage
  <2> QED
    BY <2>1, <2>2
<1>9. CASE ChangeReaction(r)
  <2>1. Go(r, "tally") /\ UNCHANGED <<pings, inbox, doubt, pingDoubt>>
    BY <1>9 DEF ChangeReaction
  <2>2. reacts' \in SUBSET User
    BY <1>1, <1>9 DEF ChangeReaction, TypeOK, Jobs
  <2> QED
    BY <1>3, <2>1, <2>2, Moves DEF TypeOK, Stage
<1>10. CASE ReactionsForMessage(r)
  <2>1. TallyFrame(reacts) \in Frames
    BY FrameTypes DEF TypeOK
  <2> QED
    BY <1>3, <1>10, <2>1, Moves DEF ReactionsForMessage, store, TypeOK
<1>11. CASE \E u \in User : Broadcast(r, u)
  <2>1. PICK u \in User : Broadcast(r, u)
    BY <1>11
  <2>2. inbox' = [inbox EXCEPT ![u] = Append(@, job[r].frame)]
        /\ UNCHANGED <<store, doubt, pingDoubt>>
    BY <2>1 DEF Broadcast
  <2>3. inbox' \in [User -> Seq(Frames)]
    <3>1. job[r].frame \in Frames /\ inbox[u] \in Seq(Frames)
      BY <1>1 DEF Jobs, TypeOK
    <3>2. Append(inbox[u], job[r].frame) \in Seq(Frames)
      BY <3>1
    <3> QED
      BY <2>2, <3>2 DEF TypeOK
  <2>4. Moved(r)
    <3> DEFINE left == job[r].to \ {u}
               j == [job[r] EXCEPT !.to = left]
    <3>1. j \in Jobs /\ j.at = "send"
      BY <1>1, <2>1 DEF Broadcast, Jobs
    <3>2. job' = [job EXCEPT ![r] = IF left = {} THEN Ended(r) ELSE j]
      BY <2>1 DEF Broadcast
    <3> HIDE DEF left, j
    <3>3. CASE left = {}
      BY <3>2, <3>3, Moves
    <3>4. CASE left # {}
      BY <3>1, <3>2, <3>4 DEF Moved
    <3> QED
      BY <3>3, <3>4
  <2> QED
    BY <1>3, <2>2, <2>3, <2>4 DEF store, TypeOK
<1> QED
  BY <1>4, <1>5, <1>6, <1>7, <1>8, <1>9, <1>10, <1>11

\* A client's copy is what it was told or has read.
LEMMA TabsKeepSound ==
  ASSUME Sound, NEW u \in User, Tab(u)
  PROVE  Sound'
<1> USE DEF Sound
<1>0. UNCHANGED <<store, job, pingDoubt>>
  BY DEF Tab, Receive, ListMessages, AttachReactions, SetMessages
<1>1. PostsFirst'
  BY <1>0 DEF PostsFirst, store
<1>2. \A c \in User : load[c] \in [at : {"none", "rows", "answer"}, answer : Copies]
  BY DEF TypeOK
<1>3. CASE Receive(u)
  <2>1. /\ copy' = [copy EXCEPT ![u] = Fold(@, Head(inbox[u]))]
        /\ inbox' = [inbox EXCEPT ![u] = Tail(@)]
        /\ inbox[u] # <<>> /\ UNCHANGED <<load, loads, doubt>>
    BY <1>3 DEF Receive
  <2>2. Head(inbox[u]) \in Frames /\ Tail(inbox[u]) \in Seq(Frames)
    BY <2>1 DEF TypeOK
  <2>3. ASSUME NEW c \in Copies, NEW f \in Frames PROVE Fold(c, f) \in Copies
    <3>1. CASE f.kind = "row"
      BY <3>1 DEF Fold, Copy, Copies, Frames
    <3>2. CASE f.kind = "gone" /\ c.row.there
      <4>1. [c.row EXCEPT !.deleted = TRUE, !.text = {}] \in Rows
        BY DEF Copies, Rows, Text
      <4> QED
        BY <3>2, <4>1 DEF Fold, Copy, Copies
    <3>3. CASE f.kind = "reacts" /\ c.row.there
      BY <3>3 DEF Fold, Copy, Copies, Frames
    <3>4. CASE f.kind # "row" /\ ~c.row.there
      BY <3>4 DEF Fold
    <3> QED
      BY <3>1, <3>2, <3>3, <3>4 DEF Frames, Change
  <2>4. TypeOK'
    <3>1. copy' \in [User -> Copies]
      BY <2>1, <2>2, <2>3 DEF TypeOK
    <3>2. inbox' \in [User -> Seq(Frames)]
      BY <2>1, <2>2 DEF TypeOK
    <3> QED
      BY <1>0, <2>1, <3>1, <3>2 DEF TypeOK, store
  <2>5. NothingBefore'
    BY <1>0, <2>1 DEF NothingBefore, store
  <2> QED
    BY <1>1, <2>4, <2>5
<1>4. CASE ListMessages(u)
  <2> DEFINE l == [at |-> "rows", answer |-> Copy(row, {})]
  <2>1. /\ load' = [load EXCEPT ![u] = l] /\ loads' = loads + 1 /\ loads < MaxLoads
        /\ UNCHANGED <<inbox, copy>> /\ doubt' \in SUBSET User
    BY <1>4 DEF ListMessages, TypeOK
  <2>2. /\ l \in [at : {"none", "rows", "answer"}, answer : Copies]
        /\ l.answer.row = row
    BY DEF Copy, Copies, TypeOK
  <2> HIDE DEF l
  <2>3. loads' \in 0..MaxLoads
    BY <2>1, LoadsAssumption DEF TypeOK
  <2>4. TypeOK'
    BY <1>0, <2>1, <2>2, <2>3 DEF TypeOK, store
  <2>5. NothingBefore'
    BY <1>0, <2>1, <2>2 DEF TypeOK, NothingBefore, store
  <2> QED
    BY <1>1, <2>4, <2>5
<1>5. CASE AttachReactions(u)
  <2> DEFINE l == [at |-> "answer",
                   answer |-> Copy(load[u].answer.row,
                                   IF load[u].answer.row.there THEN reacts ELSE {})]
  <2>1. load' = [load EXCEPT ![u] = l] /\ UNCHANGED <<inbox, copy, loads, doubt>>
    BY <1>5 DEF AttachReactions, TypeOK
  <2>2. /\ l \in [at : {"none", "rows", "answer"}, answer : Copies]
        /\ l.answer.row = load[u].answer.row
    BY <1>2 DEF Copy, Copies, TypeOK
  <2> HIDE DEF l
  <2>3. TypeOK'
    BY <1>0, <2>1, <2>2 DEF TypeOK, store
  <2>4. NothingBefore'
    BY <1>0, <2>1, <2>2 DEF TypeOK, NothingBefore, store
  <2> QED
    BY <1>1, <2>3, <2>4
<1>6. CASE SetMessages(u)
  <2>1. /\ copy' = [copy EXCEPT ![u] = load[u].answer] /\ load' = [load EXCEPT ![u] = NoLoad]
        /\ UNCHANGED <<inbox, loads, doubt>>
    BY <1>6 DEF SetMessages
  <2>2. NoLoad \in [at : {"none", "rows", "answer"}, answer : Copies] /\ ~NoLoad.answer.row.there
    BY DEF NoLoad, Copy, Copies, NoRow, Rows, Text
  <2>3. TypeOK'
    BY <1>0, <1>2, <2>1, <2>2 DEF TypeOK, store
  <2>4. NothingBefore'
    BY <1>0, <2>1, <2>2 DEF TypeOK, NothingBefore, store
  <2> QED
    BY <1>1, <2>3, <2>4
<1> QED
  BY <1>3, <1>4, <1>5, <1>6 DEF Tab

LEMMA StepSound ==
  Sound /\ [Next]_vars => Sound'
<1> SUFFICES ASSUME Sound, [Next]_vars PROVE Sound'
  OBVIOUS
<1>1. CASE Next
  BY <1>1, RequestsKeepSound, RowHandlersKeepSound, OtherHandlersKeepSound, TabsKeepSound
  DEF Next, Handler
<1>2. CASE UNCHANGED vars
  BY <1>2 DEF vars, store, client, Sound, TypeOK, PostsFirst, NothingBefore
<1> QED
  BY <1>1, <1>2

-----------------------------------------------------------------------------
\* The state is well formed; in particular a deleted message has no text and
\* is not pinned.
THEOREM Typing ==
  Spec => []TypeOK
<1>1. Sound => TypeOK
  BY DEF Sound
<1> QED
  BY <1>1, InitSound, StepSound, PTL DEF Spec

\* A deleted message is never changed again, by no number of edits, pins and
\* reactions that were on their way when it was deleted (the WHERE clauses of
\* EditMessage, SetMessagePinned and SoftDeleteMessage in store_messages.go).
THEOREM DeletedStays ==
  Spec => DeletedIsFinal
<1>1. Sound /\ [Next]_vars => [row.deleted => row' = row]_row
  <2> SUFFICES ASSUME Sound, Next, row.deleted PROVE row' = row
    BY DEF vars, store
  <2> USE DEF Sound
  <2>1. ASSUME NEW r \in Req, CreateMessage(r) PROVE FALSE
    BY <2>1 DEF CreateMessage, At, PostsFirst, TypeOK
  <2>2. ASSUME NEW r \in Req, EditMessage(r) \/ SoftDeleteMessage(r) PROVE row' = row
    BY <2>2 DEF EditMessage, SoftDeleteMessage, Refuse, store
  <2>3. ASSUME NEW r \in Req, SetMessagePinned(r) PROVE row' = row
    <3>1. CASE job[r].op = "pin"
      BY <2>3, <3>1 DEF SetMessagePinned, Refuse, store
    <3>2. CASE job[r].op # "pin"
      <4>1. [row EXCEPT !.pinned = FALSE] = row
        BY DEF TypeOK, Rows
      <4> QED
        BY <2>3, <3>2, <4>1 DEF SetMessagePinned, Keep
    <3> QED
      BY <3>1, <3>2
  <2>4. ASSUME NEW r \in Req, Handler(r) PROVE row' = row
    BY <2>1, <2>2, <2>3, <2>4
    DEF Handler, EditFails, DeleteReactions, DeleteFails, DeleteMentions, RecordMention,
        GetMessage, ChangeReaction, ReactionsForMessage, ReactionsFail, Broadcast, Refuse, store
  <2>5. ASSUME NEW u \in User, Tab(u) PROVE row' = row
    BY <2>5 DEF Tab, Receive, ListMessages, AttachReactions, SetMessages, store
  <2> QED
    BY <2>4, <2>5 DEF Next, Request, store
<1> QED
  BY <1>1, InitSound, StepSound, PTL DEF Spec, DeletedIsFinal

-----------------------------------------------------------------------------
(* The ping rows.                                                          *)

\* The handlers at work that rewrite them.
Rewriters == {q \in Running : job[q].op \in Repings}

\* What the rows are at a stage of the only such handler: it has still to clear
\* them, to record those left of its text, or nothing.
Due(r) ==
  /\ job[r].at = "clear" => row.text = IF job[r].op = "edit" THEN job[r].text ELSE {}
  /\ job[r].at = "record" => row.text = pings \cup job[r].text
  /\ job[r].at \notin {"clear", "record"} => row.text = pings

OnePost ==
  \A q, r \in Req :
    job[q].op = "post" /\ job[r].op = "post" /\ job[q].at # "free" /\ job[r].at # "free" => q = r

PingsKept ==
  ~pingDoubt =>
    /\ \A q, r \in Rewriters : q = r
    /\ \A r \in Rewriters : Due(r)
    /\ Rewriters = {} => row.text = pings

NoneBefore == ~row.there => row.text = {} /\ pings = {}

Kept == OnePost /\ PingsKept /\ NoneBefore

\* The handler of r goes on with the job j.
Takes(r, j) ==
  /\ j \in Jobs /\ j.op = job[r].op /\ j.at \notin {"free", "sent"}
  /\ job' = [job EXCEPT ![r] = j]

\* Whether a job is one at work on the ping rows.
Rewrites(j) == j.at \notin {"free", "sent", "done"} /\ j.op \in Repings

LEMMA InitKept ==
  Init => Kept
<1> SUFFICES ASSUME Init PROVE Kept
  OBVIOUS
<1>1. \A r \in Req : job[r].at = "free"
  BY DEF Init, FreeJob
<1>2. row.text = {} /\ pings = {}
  BY DEF Init, NoRow
<1>3. Rewriters = {}
  BY <1>1 DEF Rewriters, Running
<1> QED
  BY <1>1, <1>2, <1>3 DEF Kept, OnePost, PingsKept, NoneBefore

\* A handler that was free or waiting to begin is none of those at work.
LEMMA Workers ==
  ASSUME TypeOK, NEW r \in Req, NEW j, Takes(r, j)
  PROVE  /\ job'[r] = j /\ \A q \in Req \ {r} : job'[q] = job[q]
         /\ \A q \in Req : q \in Rewriters <=> Rewrites(job[q])
         /\ \A q \in Req : q \in Rewriters' <=> Rewrites(job'[q])
         /\ Rewriters \subseteq Req /\ Rewriters' \subseteq Req
  BY DEF TypeOK, Takes, Rewriters, Rewrites, Running

\* What a step of one handler has to see to.
LEMMA HandlerKept ==
  ASSUME Sound, Kept, NEW r \in Req, NEW j, Takes(r, j), job[r].at # "free", row'.there,
         \/ pingDoubt'
         \/ /\ Rewriters \subseteq {r}
            /\ Rewrites(j) => Due(r)'
            /\ ~Rewrites(j) => row'.text = pings'
         \/ /\ UNCHANGED <<pings, pingDoubt>> /\ row'.text = row.text
            /\ ~Rewrites(job[r]) /\ ~Rewrites(j)
  PROVE  Kept'
<1> USE DEF Sound, Kept
<1>1. /\ job'[r] = j /\ \A q \in Req \ {r} : job'[q] = job[q]
      /\ \A q \in Req : q \in Rewriters <=> Rewrites(job[q])
      /\ \A q \in Req : q \in Rewriters' <=> Rewrites(job'[q])
      /\ Rewriters \subseteq Req /\ Rewriters' \subseteq Req
  BY Workers
<1>2. OnePost'
  <2> SUFFICES ASSUME NEW p \in Req, NEW q \in Req, job'[p].op = "post", job'[q].op = "post",
                      job'[p].at # "free", job'[q].at # "free"
               PROVE  p = q
    BY DEF OnePost
  <2>1. \A some \in Req : job'[some].op = job[some].op /\ (job'[some].at # "free" => job[some].at # "free")
    BY <1>1 DEF Takes
  <2> QED
    BY <2>1 DEF OnePost
<1>3. NoneBefore'
  BY DEF NoneBefore
<1>4. CASE pingDoubt'
  BY <1>2, <1>3, <1>4 DEF PingsKept
<1>5. CASE /\ Rewriters \subseteq {r}
           /\ Rewrites(j) => Due(r)'
           /\ ~Rewrites(j) => row'.text = pings'
  <2>1. Rewriters' \subseteq {r}
    BY <1>1, <1>5
  <2>2. r \in Rewriters' <=> Rewrites(j)
    BY <1>1
  <2>3. /\ \A p, q \in Rewriters' : p = q
        /\ \A q \in Rewriters' : Due(q)'
    BY <1>5, <2>1, <2>2
  <2>4. Rewriters' = {} => row'.text = pings'
    BY <1>5, <2>2
  <2>5. PingsKept'
    BY <2>3, <2>4 DEF PingsKept
  <2> QED
    BY <1>2, <1>3, <2>5
<1>6. CASE /\ UNCHANGED <<pings, pingDoubt>> /\ row'.text = row.text
           /\ ~Rewrites(job[r]) /\ ~Rewrites(j)
  <2>1. Rewriters' = Rewriters /\ r \notin Rewriters
    BY <1>1, <1>6
  <2>2. ASSUME NEW q \in Rewriters, Due(q) PROVE Due(q)'
    BY <1>1, <1>6, <2>1, <2>2 DEF Due
  <2>3. PingsKept'
    BY <1>6, <2>1, <2>2 DEF PingsKept
  <2> QED
    BY <1>2, <1>3, <2>3
<1> QED
  BY <1>4, <1>5, <1>6

\* A step that leaves the rows alone, outside the stages that rewrite them.
LEMMA NeutralKept ==
  ASSUME Sound, Kept, NEW r \in Req, NEW j, Takes(r, j),
         job[r].at \notin {"free", "clear", "record"}, j.at \notin {"clear", "record"},
         Rewrites(j) => Rewrites(job[r]),
         UNCHANGED <<row, pings>>, pingDoubt' = pingDoubt, row.there
  PROVE  Kept'
<1> USE DEF Sound
<1>1. CASE pingDoubt
  BY <1>1, HandlerKept
<1>2. CASE ~Rewrites(job[r])
  BY <1>2, HandlerKept
<1>3. CASE ~pingDoubt /\ Rewrites(job[r])
  <2>1. r \in Rewriters /\ job'[r] = j
    BY <1>3, Workers
  <2>2. Rewriters \subseteq {r} /\ Due(r)
    BY <1>3, <2>1 DEF Kept, PingsKept
  <2>3. row.text = pings
    BY <2>2 DEF Due
  <2>4. Due(r)'
    BY <2>1, <2>3 DEF Due
  <2> QED
    BY <2>2, <2>3, <2>4, HandlerKept
<1> QED
  BY <1>1, <1>2, <1>3

LEMMA Goes ==
  ASSUME Sound, NEW r \in Req
  PROVE  /\ job' = [job EXCEPT ![r] = Ended(r)] => \E j \in Jobs : Takes(r, j) /\ j.at = "done"
         /\ \A s \in Stage \ {"free", "sent"} :
              Go(r, s) => \E j \in Jobs :
                /\ Takes(r, j) /\ j.at = s /\ j.text = job[r].text
                /\ j.frame = job[r].frame /\ j.to = job[r].to
         /\ \A f \in Frames : Send(r, f) => \E j \in Jobs :
                Takes(r, j) /\ j.at = "send" /\ j.frame = f /\ j.to = User
         /\ \A x \in Rows, s \in Stage \ {"free", "sent"} :
              Keep(r, x, s) => \E j \in Jobs :
                /\ Takes(r, j) /\ j.at = s /\ j.text = job[r].text
                /\ j.frame = RowFrame(x) /\ j.to = User
<1> USE DEF Sound
<1>1. job \in [Req -> Jobs] /\ job[r] \in Jobs
  BY DEF TypeOK
<1>2. ASSUME job' = [job EXCEPT ![r] = Ended(r)]
      PROVE  \E j \in Jobs : Takes(r, j) /\ j.at = "done"
  <2>1. FreeJob \in Jobs
    BY FrameTypes, UserAssumption DEF FreeJob, Jobs, Op, Text, Stage
  <2>2. Ended(r) \in Jobs /\ Ended(r).at = "done" /\ Ended(r).op = job[r].op
    BY <1>1, <2>1 DEF Ended, Jobs, Stage
  <2> QED
    BY <1>2, <2>2 DEF Takes
<1>3. ASSUME NEW s \in Stage \ {"free", "sent"}, Go(r, s)
      PROVE  \E j \in Jobs : /\ Takes(r, j) /\ j.at = s /\ j.text = job[r].text
                             /\ j.frame = job[r].frame /\ j.to = job[r].to
  <2> DEFINE j == [job[r] EXCEPT !.at = s]
  <2>1. /\ j \in Jobs /\ j.at = s /\ j.op = job[r].op /\ j.text = job[r].text
        /\ j.frame = job[r].frame /\ j.to = job[r].to
    BY <1>1 DEF Jobs
  <2>2. job' = [job EXCEPT ![r] = j]
    BY <1>1, <1>3 DEF Go
  <2> HIDE DEF j
  <2> QED
    BY <2>1, <2>2 DEF Takes
<1>4. ASSUME NEW f \in Frames, NEW s \in Stage \ {"free", "sent"},
             job' = [job EXCEPT ![r] = [@ EXCEPT !.at = s, !.frame = f, !.to = User]]
      PROVE  \E j \in Jobs : /\ Takes(r, j) /\ j.at = s /\ j.text = job[r].text
                             /\ j.frame = f /\ j.to = User
  <2> DEFINE j == [job[r] EXCEPT !.at = s, !.frame = f, !.to = User]
  <2>1. /\ j \in Jobs /\ j.at = s /\ j.op = job[r].op /\ j.text = job[r].text
        /\ j.frame = f /\ j.to = User
    BY <1>1 DEF Jobs
  <2>2. job' = [job EXCEPT ![r] = j]
    BY <1>1, <1>4
  <2> HIDE DEF j
  <2> QED
    BY <2>1, <2>2 DEF Takes
<1>5. ASSUME NEW f \in Frames, Send(r, f)
      PROVE  \E j \in Jobs : Takes(r, j) /\ j.at = "send" /\ j.frame = f /\ j.to = User
  <2> DEFINE j == [job[r] EXCEPT !.at = "send", !.frame = f, !.to = User]
  <2>1. /\ j \in Jobs /\ j.at = "send" /\ j.op = job[r].op /\ j.frame = f /\ j.to = User
    BY <1>1 DEF Jobs, Stage
  <2>2. job' = [job EXCEPT ![r] = j]
    BY <1>1, <1>5 DEF Send
  <2> HIDE DEF j
  <2> QED
    BY <2>1, <2>2 DEF Takes
<1>6. ASSUME NEW x \in Rows, NEW s \in Stage \ {"free", "sent"}, Keep(r, x, s)
      PROVE  \E j \in Jobs : /\ Takes(r, j) /\ j.at = s /\ j.text = job[r].text
                             /\ j.frame = RowFrame(x) /\ j.to = User
  <2>1. job' = [job EXCEPT ![r] = [@ EXCEPT !.at = s, !.frame = RowFrame(x), !.to = User]]
    BY <1>6 DEF Keep
  <2>2. RowFrame(x) \in Frames
    BY FrameTypes
  <2> QED
    BY <1>4, <2>1, <2>2
<1> QED
  BY <1>2, <1>3, <1>5, <1>6

LEMMA RefusalsKept ==
  ASSUME Sound, Kept, NEW r \in Req, Refuse(r), job[r].at = "sent", row.there
  PROVE  Kept'
<1>1. PICK j \in Jobs : Takes(r, j) /\ j.at = "done"
  BY Goes DEF Refuse
<1> QED
  BY <1>1, NeutralKept DEF Refuse, store, Rewrites

\* A handler that begins alone owes the rows its own text.
LEMMA BeginningKept ==
  ASSUME Sound, Kept, NEW r \in Req, NEW j, Takes(r, j), job[r].at = "sent", row'.there,
         BeginPings(r), Rewriters = {} => Due(r)', j.at # "done", j.op \in Repings
  PROVE  Kept'
<1>1. pingDoubt' \/ Rewriters = {}
  BY DEF BeginPings, Rewriters
<1>2. Rewrites(j)
  BY DEF Rewrites, Takes
<1> QED
  BY <1>1, <1>2, HandlerKept

LEMMA CreatingKept ==
  ASSUME Sound, Kept, NEW r \in Req, CreateMessage(r)
  PROVE  Kept'
<1> USE DEF Sound
<1> DEFINE new == [NoRow EXCEPT !.there = TRUE, !.text = job[r].text]
<1>1. job[r] \in Jobs /\ job[r].op = "post" /\ job[r].at = "sent"
  BY DEF CreateMessage, At, TypeOK
<1>2. new \in Rows /\ new.there /\ new.text = job[r].text
  BY <1>1 DEF NoRow, Rows, Jobs, Text
<1>3. Keep(r, new, Recording(job[r].text)) /\ BeginPings(r) /\ pings' = pings
  BY DEF CreateMessage
<1> HIDE DEF new
<1>4. pings = {}
  BY <1>1 DEF PostsFirst, Kept, NoneBefore
<1>5. PICK j \in Jobs : Takes(r, j) /\ j.at = Recording(job[r].text) /\ j.text = job[r].text
  BY <1>2, <1>3, Goes DEF Recording, Stage
<1>6. job'[r] = j /\ row' = new
  BY <1>3, <1>5, Workers DEF Keep
<1>7. Due(r)'
  BY <1>2, <1>3, <1>4, <1>5, <1>6 DEF Due, Recording
<1> QED
  BY <1>1, <1>2, <1>3, <1>5, <1>6, <1>7, BeginningKept DEF Takes, Recording, Repings

LEMMA EditingKept ==
  ASSUME Sound, Kept, NEW r \in Req, EditMessage(r)
  PROVE  Kept'
<1> USE DEF Sound
<1>1. job[r] \in Jobs /\ job[r].op = "edit" /\ job[r].at = "sent" /\ row.there
  BY ThereIs DEF EditMessage, At, TypeOK
<1>2. CASE row.deleted
  BY <1>1, <1>2, RefusalsKept DEF EditMessage
<1>3. CASE ~row.deleted
  <2> DEFINE new == [row EXCEPT !.text = job[r].text]
  <2>1. new \in Rows /\ new.there /\ new.text = job[r].text
    BY <1>1 DEF TypeOK, Rows, Jobs
  <2>2. Keep(r, new, "clear") /\ BeginPings(r) /\ pings' = pings
    BY <1>3 DEF EditMessage
  <2> HIDE DEF new
  <2>3. PICK j \in Jobs : Takes(r, j) /\ j.at = "clear" /\ j.text = job[r].text
    BY <2>1, <2>2, Goes DEF Stage
  <2>4. job'[r] = j /\ row' = new
    BY <2>2, <2>3, Workers DEF Keep
  <2>5. Due(r)'
    BY <1>1, <2>1, <2>3, <2>4 DEF Due, Takes
  <2> QED
    BY <1>1, <2>1, <2>2, <2>3, <2>4, <2>5, BeginningKept DEF Takes, Repings
<1> QED
  BY <1>2, <1>3

LEMMA DeletingKept ==
  ASSUME Sound, Kept, NEW r \in Req, SoftDeleteMessage(r)
  PROVE  Kept'
<1> USE DEF Sound
<1>1. job[r] \in Jobs /\ job[r].op = "delete" /\ job[r].at = "sent" /\ row.there
  BY ThereIs DEF SoftDeleteMessage, At, TypeOK
<1>2. CASE row.deleted
  BY <1>1, <1>2, RefusalsKept DEF SoftDeleteMessage
<1>3. CASE ~row.deleted
  <2>1. row'.there /\ row'.text = {}
    BY <1>3 DEF SoftDeleteMessage, NoRow
  <2>2. Go(r, "clear") /\ BeginPings(r) /\ pings' = pings
    BY <1>3 DEF SoftDeleteMessage
  <2>3. PICK j \in Jobs : Takes(r, j) /\ j.at = "clear"
    BY <2>2, Goes DEF Stage
  <2>4. job'[r] = j
    BY <2>3, Workers
  <2>5. Due(r)'
    BY <1>1, <2>1, <2>3, <2>4 DEF Due, Takes
  <2> QED
    BY <1>1, <2>1, <2>2, <2>3, <2>5, BeginningKept DEF Takes, Repings
<1> QED
  BY <1>2, <1>3

LEMMA PinningKept ==
  ASSUME Sound, Kept, NEW r \in Req, SetMessagePinned(r)
  PROVE  Kept'
<1> USE DEF Sound
<1>1. job[r] \in Jobs /\ job[r].op \in {"pin", "unpin"} /\ job[r].at = "sent" /\ row.there
  BY ThereIs DEF SetMessagePinned, At, TypeOK
<1>2. CASE job[r].op = "pin" /\ row.deleted
  BY <1>1, <1>2, RefusalsKept DEF SetMessagePinned
<1>3. CASE ~(job[r].op = "pin" /\ row.deleted)
  <2> DEFINE new == [row EXCEPT !.pinned = (job[r].op = "pin")]
  <2>1. new \in Rows /\ new.there /\ new.text = row.text
    BY <1>1 DEF TypeOK, Rows
  <2>2. Keep(r, new, "send") /\ UNCHANGED <<pings, pingDoubt>>
    BY <1>3 DEF SetMessagePinned
  <2> HIDE DEF new
  <2>3. PICK j \in Jobs : Takes(r, j) /\ j.at = "send"
    BY <2>1, <2>2, Goes DEF Stage
  <2>4. row' = new
    BY <2>2 DEF Keep
  <2>5. ~Rewrites(job[r]) /\ ~Rewrites(j)
    BY <1>1, <2>3 DEF Rewrites, Takes, Repings
  <2> QED
    BY <1>1, <2>1, <2>2, <2>3, <2>4, <2>5, HandlerKept
<1> QED
  BY <1>2, <1>3

\* The only handler at work on the rows, unless there is doubt.
LEMMA Alone ==
  ASSUME TypeOK, Kept, NEW r \in Req, Rewrites(job[r]), ~pingDoubt
  PROVE  Rewriters = {r} /\ Due(r)
  BY DEF Kept, PingsKept, Rewriters, Running, Rewrites

LEMMA ClearingKept ==
  ASSUME Sound, Kept, NEW r \in Req, DeleteMentions(r)
  PROVE  Kept'
<1> USE DEF Sound
<1>1. job[r] \in Jobs /\ job[r].op \in {"edit", "delete"} /\ job[r].at = "clear" /\ row.there
  BY ThereIs DEF DeleteMentions, At, TypeOK
<1>2. row' = row
  BY DEF DeleteMentions
<1> DEFINE stage == IF job[r].op = "edit" THEN Recording(job[r].text) ELSE "shed"
<1>3. PICK j \in Jobs : Takes(r, j) /\ j.at = stage /\ j.text = job[r].text
  <2>1. Go(r, stage) /\ stage \in Stage \ {"free", "sent"}
    BY DEF DeleteMentions, Recording, Stage
  <2> HIDE DEF stage
  <2> QED
    BY <2>1, Goes
<1>4. CASE pingDoubt'
  BY <1>1, <1>2, <1>3, <1>4, HandlerKept
<1>5. CASE ~pingDoubt'
  <2>1. pings' = {} /\ ~pingDoubt
    BY <1>5 DEF DeleteMentions
  <2>2. Rewrites(job[r]) /\ Rewrites(j)
    BY <1>1, <1>3 DEF Rewrites, Repings, Takes, Recording
  <2>3. Rewriters = {r} /\ Due(r)
    BY <2>1, <2>2, Alone
  <2>4. row.text = IF job[r].op = "edit" THEN job[r].text ELSE {}
    BY <1>1, <2>3 DEF Due
  <2>5. job'[r] = j
    BY <1>3, Workers
  <2>6. Due(r)'
    BY <1>1, <1>2, <1>3, <2>1, <2>4, <2>5 DEF Due, Recording, Takes
  <2> QED
    BY <1>1, <1>2, <1>3, <2>2, <2>3, <2>6, HandlerKept
<1> QED
  BY <1>4, <1>5

LEMMA RecordingKept ==
  ASSUME Sound, Kept, NEW r \in Req, NEW u \in User, RecordMention(r, u)
  PROVE  Kept'
<1> USE DEF Sound
<1>1. /\ job[r] \in Jobs /\ job[r].op \in {"post", "edit"} /\ job[r].at = "record"
      /\ u \in job[r].text /\ row.there /\ row' = row
  BY ThereIs DEF RecordMention, At, TypeOK
<1>2. PICK todo \in SUBSET job[r].text :
        /\ job' = [job EXCEPT ![r] = [@ EXCEPT !.text = todo, !.at = Recording(todo)]]
        /\ \/ pings' = pings \cup {u} /\ todo = job[r].text \ {u} /\ UNCHANGED pingDoubt
           \/ pingDoubt'
  <2> DEFINE next(todo) ==
               job' = [job EXCEPT ![r] = [@ EXCEPT !.text = todo, !.at = Recording(todo)]]
             left == job[r].text \ {u}
  <2>1. \/ pings' = pings \cup {u} /\ next(left) /\ UNCHANGED pingDoubt
        \/ pingDoubt' = TRUE /\ next({})
    BY DEF RecordMention
  <2>2. left \in SUBSET job[r].text /\ {} \in SUBSET job[r].text
    OBVIOUS
  <2>3. CASE pings' = pings \cup {u} /\ next(left) /\ UNCHANGED pingDoubt
    BY <2>2, <2>3
  <2>4. CASE pingDoubt' = TRUE /\ next({})
    BY <2>2, <2>4
  <2> QED
    BY <2>1, <2>3, <2>4
<1> DEFINE j == [job[r] EXCEPT !.text = todo, !.at = Recording(todo)]
<1>3. /\ j \in Jobs /\ j.op = job[r].op /\ j.text = todo /\ j.at = Recording(todo)
      /\ job' = [job EXCEPT ![r] = j]
  BY <1>1, <1>2 DEF Jobs, Text, Recording, Stage
<1> HIDE DEF j
<1>4. Takes(r, j)
  BY <1>3 DEF Takes, Recording
<1>5. CASE pingDoubt'
  BY <1>1, <1>4, <1>5, HandlerKept
<1>6. CASE ~pingDoubt'
  <2>1. pings' = pings \cup {u} /\ todo = job[r].text \ {u} /\ ~pingDoubt
    BY <1>2, <1>6
  <2>2. Rewrites(job[r]) /\ Rewrites(j)
    BY <1>1, <1>3 DEF Rewrites, Repings, Recording
  <2>3. Rewriters = {r} /\ Due(r)
    BY <2>1, <2>2, Alone
  <2>4. row.text = pings \cup job[r].text
    BY <1>1, <2>3 DEF Due
  <2>5. row.text = pings' \cup todo
    BY <1>1, <2>1, <2>4
  <2>6. job'[r] = j
    BY <1>4, Workers
  <2>7. Due(r)'
    BY <1>1, <1>3, <2>5, <2>6 DEF Due, Recording
  <2> QED
    BY <1>1, <1>4, <2>2, <2>3, <2>7, HandlerKept
<1> QED
  BY <1>5, <1>6

\* The rest: failures, reactions and broadcasts.
LEMMA RestKept ==
  ASSUME Sound, Kept, NEW r \in Req,
         \/ EditFails(r) \/ DeleteReactions(r) \/ DeleteFails(r)
         \/ GetMessage(r) \/ ChangeReaction(r) \/ ReactionsForMessage(r) \/ ReactionsFail(r)
         \/ \E u \in User : Broadcast(r, u)
  PROVE  Kept'
<1> USE DEF Sound
<1>1. job[r] \in Jobs /\ job[r].at # "free" /\ row.there
  <2>1. job[r].at # "free" /\ (job[r].op # "post" \/ job[r].at # "sent")
    BY DEF EditFails, DeleteReactions, DeleteFails, GetMessage, ChangeReaction,
           ReactionsForMessage, ReactionsFail, Broadcast, At
  <2> QED
    BY <2>1, ThereIs DEF TypeOK
<1>2. CASE EditFails(r)
  <2>1. PICK j \in Jobs : Takes(r, j) /\ j.at = "done"
    BY <1>2, Goes DEF EditFails, Abandon
  <2> QED
    BY <1>1, <1>2, <2>1, HandlerKept DEF EditFails, store
<1>3. CASE DeleteReactions(r)
  <2>1. PICK j \in Jobs : Takes(r, j) /\ j.at = "send"
    BY <1>3, Goes, FrameTypes DEF DeleteReactions
  <2> QED
    BY <1>1, <1>3, <2>1, NeutralKept DEF DeleteReactions, At, Rewrites, Takes
<1>4. CASE DeleteFails(r)
  <2>1. PICK j \in Jobs : Takes(r, j) /\ j.at = "done"
    BY <1>4, Goes DEF DeleteFails, Abandon
  <2> QED
    BY <1>1, <1>4, <2>1, NeutralKept DEF DeleteFails, At, Rewrites, store
<1>5. CASE GetMessage(r)
  <2>1. CASE row.deleted
    BY <1>1, <1>5, <2>1, RefusalsKept DEF GetMessage, At
  <2>2. CASE ~row.deleted
    <3>1. PICK j \in Jobs : Takes(r, j) /\ j.at = "react"
      BY <1>5, <2>2, Goes DEF GetMessage, Stage
    <3> QED
      BY <1>1, <1>5, <2>2, <3>1, NeutralKept DEF GetMessage, At, Rewrites, Takes, Repings, store
  <2> QED
    BY <2>1, <2>2
<1>6. CASE ChangeReaction(r)
  <2>1. PICK j \in Jobs : Takes(r, j) /\ j.at = "tally"
    BY <1>6, Goes DEF ChangeReaction, Stage
  <2> QED
    BY <1>1, <1>6, <2>1, NeutralKept DEF ChangeReaction, At, Rewrites, Takes
<1>7. CASE ReactionsForMessage(r)
  <2>1. PICK j \in Jobs : Takes(r, j) /\ j.at = "send"
    <3>1. TallyFrame(reacts) \in Frames
      BY FrameTypes DEF TypeOK
    <3> QED
      BY <1>7, <3>1, Goes DEF ReactionsForMessage
  <2> QED
    BY <1>1, <1>7, <2>1, NeutralKept DEF ReactionsForMessage, At, Rewrites, Takes, store
<1>8. CASE ReactionsFail(r)
  <2>1. PICK j \in Jobs : Takes(r, j) /\ j.at = "done"
    BY <1>8, Goes DEF ReactionsFail, Abandon
  <2> QED
    BY <1>1, <1>8, <2>1, NeutralKept DEF ReactionsFail, At, Rewrites, store
<1>9. CASE \E u \in User : Broadcast(r, u)
  <2>1. PICK u \in User : Broadcast(r, u)
    BY <1>9
  <2>2. job[r].at = "send" /\ UNCHANGED <<row, pings, pingDoubt>>
    BY <2>1 DEF Broadcast, store
  <2> DEFINE left == job[r].to \ {u}
             on == [job[r] EXCEPT !.to = left]
  <2>3. on \in Jobs /\ on.at = "send" /\ on.op = job[r].op
    BY <1>1, <2>2 DEF Jobs
  <2>4. job' = [job EXCEPT ![r] = IF left = {} THEN Ended(r) ELSE on]
    BY <2>1 DEF Broadcast
  <2> HIDE DEF left, on
  <2>5. PICK j \in Jobs : Takes(r, j) /\ j.at \in {"send", "done"}
    <3>1. CASE left = {}
      BY <2>4, <3>1, Goes
    <3>2. CASE left # {}
      BY <2>3, <2>4, <3>2 DEF Takes
    <3> QED
      BY <3>1, <3>2
  <2> QED
    BY <1>1, <2>2, <2>5, NeutralKept DEF Rewrites, Takes
<1> QED
  BY <1>2, <1>3, <1>4, <1>5, <1>6, <1>7, <1>8, <1>9

\* A request that has come in has not begun to work.
LEMMA RequestsKept ==
  ASSUME Sound, Kept, NEW r \in Req, NEW u \in User, NEW op \in Op, NEW text \in Text,
         Request(r, u, op, text)
  PROVE  Kept'
<1> USE DEF Sound
<1> DEFINE j == [job[r] EXCEPT !.op = op, !.by = u, !.text = text, !.at = "sent"]
<1>1. job \in [Req -> Jobs] /\ job[r] \in Jobs /\ job[r].at = "free"
  BY DEF Request, TypeOK
<1>2. j.op = op /\ j.at = "sent"
  BY <1>1 DEF Jobs
<1>3. job' = [job EXCEPT ![r] = j]
  BY DEF Request
<1> HIDE DEF j
<1>4. job'[r] = j /\ \A q \in Req \ {r} : job'[q] = job[q]
  BY <1>1, <1>3
<1>5. UNCHANGED <<row, pings, pingDoubt>>
  BY DEF Request, store
<1>6. Rewriters' = Rewriters /\ r \notin Rewriters
  BY <1>1, <1>2, <1>4 DEF Rewriters, Running
<1>7. ASSUME NEW q \in Rewriters, Due(q) PROVE Due(q)'
  BY <1>4, <1>5, <1>6, <1>7 DEF Due, Rewriters, Running
<1>8. PingsKept'
  BY <1>5, <1>6, <1>7 DEF Kept, PingsKept
<1>9. OnePost'
  <2>1. op = "post" => \A q \in Req : job[q].at = "free"
    BY DEF Request
  <2> QED
    BY <1>2, <1>4, <2>1 DEF Kept, OnePost
<1> QED
  BY <1>5, <1>8, <1>9 DEF Kept, NoneBefore

LEMMA StepKept ==
  Sound /\ Kept /\ [Next]_vars => Kept'
<1> SUFFICES ASSUME Sound, Kept, [Next]_vars PROVE Kept'
  OBVIOUS
<1>1. ASSUME UNCHANGED <<row, pings, job, pingDoubt>> PROVE Kept'
  BY <1>1 DEF Kept, OnePost, PingsKept, NoneBefore, Rewriters, Running, Due
<1>2. ASSUME NEW r \in Req, Handler(r) PROVE Kept'
  BY <1>2, CreatingKept, EditingKept, PinningKept, DeletingKept, ClearingKept, RecordingKept,
     RestKept DEF Handler
<1>3. ASSUME NEW u \in User, Tab(u) PROVE Kept'
  BY <1>1, <1>3 DEF Tab, Receive, ListMessages, AttachReactions, SetMessages, store
<1>4. CASE Next
  BY <1>2, <1>3, <1>4, RequestsKept DEF Next
<1>5. CASE UNCHANGED vars
  BY <1>1, <1>5 DEF vars, store
<1> QED
  BY <1>4, <1>5

\* The ping rows are the mentions of the text whenever no request is being
\* handled, and a mentioned user who can be told of a new message has his ping
\* already, for any number of requests that overlap, but for the doubt they or a
\* failing store leave (recordPings, handleEditMessage, handleDeleteMessage).
THEOREM PingsAreTheMentions ==
  Spec => []PingsAgree
<1>1. Sound /\ Kept => PingsAgree
  <2> SUFFICES ASSUME Sound, Kept PROVE PingsAgree
    OBVIOUS
  <2>1. Running = {} /\ ~pingDoubt => pings = row.text
    BY DEF Kept, PingsKept, Rewriters
  <2>2. ASSUME NEW r \in Req, NEW u \in User, job[r].op = "post",
               job[r].at \in {"send", "done"}, ~pingDoubt, Untouched, u \in row.text
        PROVE  u \in pings
    <3>1. CASE job[r].at = "send"
      <4>1. Rewrites(job[r])
        BY <2>2, <3>1 DEF Rewrites, Repings
      <4>2. Due(r)
        BY <2>2, <4>1, Alone DEF Sound
      <4> QED
        BY <2>2, <3>1, <4>2 DEF Due
    <3>2. CASE job[r].at = "done"
      <4>1. ASSUME NEW q \in Rewriters PROVE FALSE
        <5>1. q \in Req /\ job[q].at \notin {"free", "sent", "done"} /\ job[q].op \in Repings
          BY DEF Rewriters, Running
        <5>2. job[q].op = "post"
          BY <2>2, <5>1 DEF Untouched, Repings
        <5> QED
          BY <2>2, <3>2, <5>1, <5>2 DEF Kept, OnePost
      <4> QED
        BY <2>2, <4>1 DEF Kept, PingsKept
    <3> QED
      BY <2>2, <3>1, <3>2
  <2> QED
    BY <2>1, <2>2 DEF PingsAgree, NewsIsCounted
<1> QED
  BY <1>1, InitSound, InitKept, StepSound, StepKept, PTL DEF Spec

-----------------------------------------------------------------------------
(* The copies. A queue is judged by the last frame of a kind in it.        *)

Writes == {"post", "edit", "pin", "unpin"}
Reacts == {"react", "unreact"}
Working(j) == j.at \notin {"free", "sent", "done"}

\* A job that will still tell u of the row, of the reactions, of a new message.
OwesRow(j, u) ==
  /\ Working(j)
  /\ \/ j.op \in Writes /\ u \in j.to
     \/ j.op = "delete" /\ (j.at # "send" \/ u \in j.to)
OwesReacts(j, u) ==
  Working(j) /\ j.op \in Reacts \cup {"delete"} /\ (j.at # "send" \/ u \in j.to)
OwesNews(j, u) == Working(j) /\ j.op = "post" /\ u \in j.to
RowDue(u) == \E r \in Req : OwesRow(job[r], u)
ReactsDue(u) == \E r \in Req : OwesReacts(job[r], u)
NewsDue(u) == \E r \in Req : OwesNews(job[r], u)

RowKinds == {"row", "gone"}
ReactKinds == {"reacts", "gone"}
Last(q, i, kinds) == q[i].kind \in kinds /\ \A k \in (i + 1)..Len(q) : q[k].kind \notin kinds
Lacks(q, kinds) == \A i \in DOMAIN q : q[i].kind \notin kinds

\* What is drawn of the row x is what is stored.
Same(x) ==
  /\ x.there = row.there /\ x.deleted = row.deleted /\ x.text = row.text
  /\ ~row.deleted => x.pinned = row.pinned

\* The last frame that says something of the row, of the reactions, is right.
BringsRow(q) ==
  \A i \in DOMAIN q : Last(q, i, RowKinds) =>
    IF q[i].kind = "row" THEN q[i].row = row ELSE row.deleted
BringsReacts(q) ==
  \A i \in DOMAIN q : Last(q, i, ReactKinds) =>
    IF q[i].kind = "reacts" THEN q[i].reacts = reacts ELSE reacts = {}

\* A message is there before anything else is heard of it.
Orderly(q, c) ==
  \A i \in DOMAIN q :
    IF q[i].kind = "row" THEN q[i].row.there
    ELSE c.row.there \/ \E k \in 1..(i - 1) : q[k].kind = "row"

RowComes(u) ==
  /\ BringsRow(inbox[u])
  /\ load[u].at = "none" /\ Lacks(inbox[u], RowKinds) => Same(copy[u].row)
ReactsCome(u) ==
  /\ BringsReacts(inbox[u])
  /\ load[u].at = "none" /\ Lacks(inbox[u], ReactKinds) => copy[u].reacts = reacts
Known(u) ==
  /\ Orderly(inbox[u], copy[u])
  /\ load[u].at = "none" /\ row.there =>
       copy[u].row.there \/ ~Lacks(inbox[u], {"row"}) \/ NewsDue(u)

\* A load that nothing has come across will bring what is stored.
Loaded(u) ==
  load[u].at # "none" =>
    /\ Running = {} /\ load[u].answer.row = row
    /\ load[u].at = "answer" => load[u].answer.reacts = reacts

\* The handlers at work do not get in each other's way, and what each has to
\* tell is the state of the store.
Apart == \A p, q \in Running : p # q => Commute(job[p].op, job[q].op)
FrameTrue(j) ==
  /\ j.op \in Writes => j.frame = RowFrame(row)
  /\ j.op = "delete" =>
       row.deleted /\ (j.at = "send" => j.frame = GoneFrame /\ reacts = {})
  /\ j.op \in Reacts /\ j.at = "send" => j.frame = TallyFrame(reacts)
FramesTrue == \A r \in Running : FrameTrue(job[r])

Follows(u) ==
  /\ Apart /\ FramesTrue /\ Known(u) /\ Loaded(u)
  /\ RowDue(u) \/ RowComes(u)
  /\ ReactsDue(u) \/ ReactsCome(u)

Tracked == \A u \in User \ doubt : Follows(u)
NoReacts == ~row.there => reacts = {}

LEMMA QueueEnds ==
  ASSUME NEW q \in Seq(Frames), NEW f \in Frames, NEW kinds
  PROVE  /\ Append(q, f) \in Seq(Frames) /\ DOMAIN Append(q, f) = 1..(Len(q) + 1)
         /\ DOMAIN q = 1..Len(q) /\ Len(q) \in Nat
         /\ Append(q, f)[Len(q) + 1] = f
         /\ \A i \in DOMAIN q : Append(q, f)[i] = q[i]
         /\ f.kind \in kinds =>
              /\ \A i \in DOMAIN Append(q, f) : Last(Append(q, f), i, kinds) => i = Len(q) + 1
              /\ ~Lacks(Append(q, f), kinds)
         /\ f.kind \notin kinds =>
              /\ \A i \in DOMAIN Append(q, f) :
                   Last(Append(q, f), i, kinds) => i \in DOMAIN q /\ Last(q, i, kinds)
              /\ Lacks(Append(q, f), kinds) => Lacks(q, kinds)
         /\ ~Lacks(q, kinds) => ~Lacks(Append(q, f), kinds)
<1> DEFINE a == Append(q, f)
           n == Len(q)
<1>1. /\ a \in Seq(Frames) /\ DOMAIN a = 1..(n + 1) /\ Len(a) = n + 1 /\ DOMAIN q = 1..n
      /\ n \in Nat /\ a[n + 1] = f /\ \A i \in 1..n : a[i] = q[i]
  OBVIOUS
<1> HIDE DEF a, n
<1>2. ASSUME f.kind \in kinds, NEW i \in DOMAIN a, Last(a, i, kinds) PROVE i = n + 1
  BY <1>1, <1>2 DEF Last
<1>3. f.kind \in kinds => ~Lacks(a, kinds)
  BY <1>1 DEF Lacks
<1>4. ASSUME f.kind \notin kinds, NEW i \in DOMAIN a, Last(a, i, kinds)
      PROVE  i \in DOMAIN q /\ Last(q, i, kinds)
  <2>1. i \in 1..n
    BY <1>1, <1>4 DEF Last
  <2>2. \A k \in (i + 1)..n : k \in (i + 1)..(n + 1) /\ k \in 1..n
    BY <1>1, <2>1
  <2> QED
    BY <1>1, <1>4, <2>1, <2>2 DEF Last, n
<1>5. Lacks(a, kinds) => Lacks(q, kinds)
  BY <1>1 DEF Lacks
<1> QED
  BY <1>1, <1>2, <1>3, <1>4, <1>5 DEF a, n

LEMMA QueueStarts ==
  ASSUME NEW q \in Seq(Frames), q # <<>>, NEW kinds
  PROVE  /\ Tail(q) \in Seq(Frames) /\ Head(q) \in Frames /\ Head(q) = q[1] /\ 1 \in DOMAIN q
         /\ \A i \in DOMAIN Tail(q) : i + 1 \in DOMAIN q /\ Tail(q)[i] = q[i + 1] /\ i \in Nat
         /\ \A i \in DOMAIN Tail(q) : Last(Tail(q), i, kinds) => Last(q, i + 1, kinds)
         /\ \A k \in DOMAIN q : k = 1 \/ (k - 1 \in DOMAIN Tail(q) /\ Tail(q)[k - 1] = q[k])
         /\ Lacks(Tail(q), kinds) /\ Head(q).kind \in kinds => Last(q, 1, kinds)
         /\ Lacks(Tail(q), kinds) /\ Head(q).kind \notin kinds => Lacks(q, kinds)
<1> DEFINE t == Tail(q)
           n == Len(q)
<1>1. /\ t \in Seq(Frames) /\ Head(q) \in Frames /\ Head(q) = q[1] /\ n \in Nat \ {0}
      /\ DOMAIN q = 1..n /\ DOMAIN t = 1..(n - 1) /\ Len(t) = n - 1
      /\ \A i \in 1..(n - 1) : t[i] = q[i + 1]
  OBVIOUS
<1> HIDE DEF t, n
<1>2. \A i \in 1..(n - 1) : i + 1 \in 1..n
  BY <1>1
<1>3. \A k \in 1..n : k = 1 \/ (k - 1 \in 1..(n - 1) /\ t[k - 1] = q[k])
  <2> SUFFICES ASSUME NEW k \in 1..n, k # 1 PROVE k - 1 \in 1..(n - 1) /\ t[k - 1] = q[k]
    OBVIOUS
  <2>1. k - 1 \in 1..(n - 1) /\ (k - 1) + 1 = k
    BY <1>1
  <2> QED
    BY <1>1, <2>1
<1>4. ASSUME NEW i \in DOMAIN t, Last(t, i, kinds) PROVE Last(q, i + 1, kinds)
  <2>1. i \in 1..(n - 1) /\ q[i + 1].kind \in kinds
    BY <1>1, <1>4 DEF Last
  <2>2. ASSUME NEW k \in ((i + 1) + 1)..n PROVE q[k].kind \notin kinds
    <3>1. k \in 1..n /\ k # 1 /\ k - 1 \in (i + 1)..(n - 1)
      BY <1>1, <2>1
    <3> QED
      BY <1>1, <1>3, <1>4, <3>1 DEF Last
  <2> QED
    BY <2>1, <2>2 DEF Last, n
<1>5. ASSUME Lacks(t, kinds) PROVE \A k \in 1..n : k # 1 => q[k].kind \notin kinds
  BY <1>1, <1>3, <1>5 DEF Lacks
<1>6. Lacks(t, kinds) /\ Head(q).kind \in kinds => Last(q, 1, kinds)
  <2>1. \A k \in (1 + 1)..n : k \in 1..n /\ k # 1
    BY <1>1
  <2> QED
    BY <1>1, <1>5, <2>1 DEF Last, n
<1>7. Lacks(t, kinds) /\ Head(q).kind \notin kinds => Lacks(q, kinds)
  BY <1>1, <1>5 DEF Lacks
<1> QED
  BY <1>1, <1>2, <1>3, <1>4, <1>6, <1>7 DEF t, n

LEMMA InitFollows ==
  Init => Tracked /\ NoReacts
<1> SUFFICES ASSUME Init PROVE Tracked /\ NoReacts
  OBVIOUS
<1>1. \A r \in Req : job[r].at = "free"
  BY DEF Init, FreeJob
<1>2. Running = {} /\ reacts = {}
  BY <1>1 DEF Init, Running
<1>3. \A u \in User : /\ inbox[u] = <<>> /\ load[u].at = "none"
                      /\ copy[u].row = row /\ copy[u].reacts = reacts
  BY DEF Init, Copy, NoLoad
<1>4. ~row.there
  BY DEF Init, NoRow
<1>5. ASSUME NEW u \in User PROVE Follows(u)
  <2>1. RowComes(u) /\ ReactsCome(u) /\ Orderly(inbox[u], copy[u])
    BY <1>3 DEF RowComes, BringsRow, ReactsCome, BringsReacts, Same, Orderly
  <2> QED
    BY <1>2, <1>3, <1>4, <2>1 DEF Follows, Apart, FramesTrue, Known, Loaded
<1> QED
  BY <1>2, <1>5 DEF Tracked, NoReacts

LEMMA Going ==
  ASSUME TypeOK, NEW r \in Req, NEW j, Takes(r, j)
  PROVE  /\ job'[r] = j /\ \A q \in Req \ {r} : job'[q] = job[q]
         /\ \A q \in Req : q \in Running <=> Working(job[q])
         /\ \A q \in Req : q \in Running' <=> Working(job'[q])
         /\ Running \subseteq Req /\ Running' \subseteq Req
  BY DEF TypeOK, Takes, Running, Working

\* Nothing has happened to what u has and is owed.
LEMMA Unaffected ==
  ASSUME NEW u \in User, Follows(u), UNCHANGED <<row, reacts>>,
         inbox'[u] = inbox[u], copy'[u] = copy[u], load'[u] = load[u],
         \A q \in Req : Working(job'[q]) <=> Working(job[q]),
         \A q \in Req : Working(job[q]) => job'[q] = job[q]
  PROVE  Follows(u)'
<1>1. Running' = Running /\ \A q \in Running : job'[q] = job[q]
  BY DEF Running, Working
<1>2. Apart' /\ FramesTrue' /\ Loaded(u)'
  BY <1>1 DEF Follows, Apart, FramesTrue, FrameTrue, Loaded
<1>3. \A q \in Req : /\ OwesRow(job'[q], u) <=> OwesRow(job[q], u)
                     /\ OwesReacts(job'[q], u) <=> OwesReacts(job[q], u)
                     /\ OwesNews(job'[q], u) <=> OwesNews(job[q], u)
  BY DEF OwesRow, OwesReacts, OwesNews
<1>4. /\ RowDue(u)' <=> RowDue(u)
      /\ ReactsDue(u)' <=> ReactsDue(u)
      /\ NewsDue(u)' <=> NewsDue(u)
  BY <1>3 DEF RowDue, ReactsDue, NewsDue
<1>5. /\ RowComes(u)' <=> RowComes(u)
      /\ ReactsCome(u)' <=> ReactsCome(u)
      /\ Known(u)' <=> Known(u)
  BY <1>4 DEF RowComes, BringsRow, Same, ReactsCome, BringsReacts, Known, Orderly
<1> QED
  BY <1>2, <1>4, <1>5 DEF Follows

\* A step of the handler of r, as a client sees it that gets no frame by it.
LEMMA Handled ==
  ASSUME Sound, NEW r \in Req, NEW j, Takes(r, j), NEW u \in User, Follows(u),
         load[u].at = "none", Apart', FramesTrue',
         inbox'[u] = inbox[u], copy'[u] = copy[u], load'[u] = load[u],
         row' = row \/ OwesRow(j, u), OwesRow(job[r], u) => OwesRow(j, u),
         reacts' = reacts \/ OwesReacts(j, u), OwesReacts(job[r], u) => OwesReacts(j, u),
         row.there \/ OwesNews(j, u), OwesNews(job[r], u) => OwesNews(j, u)
  PROVE  Follows(u)'
<1> USE DEF Sound
<1>1. job'[r] = j /\ \A q \in Req \ {r} : job'[q] = job[q]
  BY Going
<1>2. /\ RowDue(u) => RowDue(u)'
      /\ ReactsDue(u) => ReactsDue(u)'
      /\ NewsDue(u) => NewsDue(u)'
  BY <1>1 DEF RowDue, ReactsDue, NewsDue
<1>3. /\ row' = row \/ RowDue(u)'
      /\ reacts' = reacts \/ ReactsDue(u)'
      /\ row.there \/ NewsDue(u)'
  BY <1>1 DEF RowDue, ReactsDue, NewsDue
<1>4. RowDue(u)' \/ RowComes(u)'
  BY <1>2, <1>3 DEF Follows, RowComes, BringsRow, Same
<1>5. ReactsDue(u)' \/ ReactsCome(u)'
  BY <1>2, <1>3 DEF Follows, ReactsCome, BringsReacts
<1>6. Known(u)'
  BY <1>2, <1>3 DEF Follows, Known, Orderly
<1> QED
  BY <1>4, <1>5, <1>6 DEF Follows, Loaded

\* Handlers that commute with that of r stay apart from it, and what they have
\* to tell is not what r changes.
LEMMA ApartStay ==
  ASSUME Sound, NEW r \in Req, NEW j, Takes(r, j), Apart,
         \A q \in Running \ {r} : Commute(job[q].op, j.op)
  PROVE  Apart'
<1>1. /\ job'[r] = j /\ \A q \in Req \ {r} : job'[q] = job[q]
      /\ \A q \in Req \ {r} : q \in Running' <=> q \in Running
      /\ Running' \subseteq Req
  BY Going DEF Sound
<1> SUFFICES ASSUME NEW p \in Running', NEW q \in Running', p # q
             PROVE  Commute(job'[p].op, job'[q].op)
  BY DEF Apart
<1>2. CASE p # r /\ q # r
  BY <1>1, <1>2 DEF Apart
<1>3. CASE p = r \/ q = r
  BY <1>1, <1>3 DEF Commute
<1> QED
  BY <1>2, <1>3

LEMMA FramesStay ==
  ASSUME Sound, NEW r \in Req, NEW j, Takes(r, j), FramesTrue, Working(j) => FrameTrue(j)',
         \A q \in Running \ {r} : /\ row' = row \/ job[q].op \in Reacts
                                  /\ reacts' = reacts \/ job[q].op \in Writes
  PROVE  FramesTrue'
<1>1. /\ job'[r] = j /\ \A q \in Req \ {r} : job'[q] = job[q]
      /\ \A q \in Req \ {r} : q \in Running' <=> q \in Running
      /\ r \in Running' <=> Working(j)
      /\ Running' \subseteq Req
  BY Going DEF Sound
<1>2. ASSUME NEW q \in Running \ {r} PROVE FrameTrue(job[q])'
  <2> PICK k : k = job[q]
    OBVIOUS
  <2>1. job'[q] = k /\ FrameTrue(k)
    BY <1>1 DEF FramesTrue, Running
  <2>2. /\ row' = row \/ k.op \in Reacts
        /\ reacts' = reacts \/ k.op \in Writes
    OBVIOUS
  <2>3. FrameTrue(k)'
    BY <2>1, <2>2 DEF FrameTrue, Writes, Reacts
  <2> QED
    BY <2>1, <2>3
<1>3. ASSUME NEW q \in Running' PROVE FrameTrue(job[q])'
  <2>1. CASE q = r
    BY <1>1, <2>1
  <2>2. CASE q # r
    BY <1>1, <1>2, <2>2
  <2> QED
    BY <2>1, <2>2
<1> QED
  BY <1>3 DEF FramesTrue

\* A handler that begins and leaves no doubt has nothing about it that it could
\* disturb.
LEMMA Begins ==
  ASSUME Tracked, NEW r \in Req, job[r].at = "sent", Begin(r), NEW u \in User \ doubt'
  PROVE  /\ u \notin doubt /\ Follows(u) /\ load[u].at = "none" /\ r \notin Running
         /\ \A q \in Running : Commute(job[q].op, job[r].op)
<1>1. {q \in Running : ~Commute(job[q].op, job[r].op)} = {}
  BY DEF Begin
<1>2. u \notin doubt /\ load[u].at = "none"
  BY <1>1 DEF Begin
<1> QED
  BY <1>1, <1>2 DEF Tracked, Running

\* Nor has one that is at work, while a client is not in doubt.
LEMMA AtWork ==
  ASSUME Tracked, NEW r \in Req, Working(job[r]), NEW u \in User \ doubt
  PROVE  /\ Follows(u) /\ load[u].at = "none" /\ Apart /\ FramesTrue /\ FrameTrue(job[r])
         /\ \A q \in Running \ {r} : Commute(job[q].op, job[r].op)
<1>1. r \in Running /\ Follows(u)
  BY DEF Running, Working, Tracked
<1> QED
  BY <1>1 DEF Follows, Loaded, Apart, FramesTrue

\* A refused request and one that has come in.
LEMMA WaitingTracked ==
  ASSUME TypeOK, Tracked, NEW r \in Req, NEW j, job' = [job EXCEPT ![r] = j],
         ~Working(job[r]), ~Working(j),
         UNCHANGED <<row, reacts, inbox, copy, load, doubt>>
  PROVE  Tracked'
<1>1. job'[r] = j /\ \A q \in Req \ {r} : job'[q] = job[q]
  BY DEF TypeOK
<1>2. ASSUME NEW u \in User \ doubt' PROVE Follows(u)'
  <2>1. Follows(u)
    BY DEF Tracked
  <2> QED
    BY <1>1, <2>1, Unaffected
<1> QED
  BY <1>2 DEF Tracked

LEMMA RefusalsTracked ==
  ASSUME Sound, Tracked, NEW r \in Req, Refuse(r), job[r].at = "sent"
  PROVE  Tracked'
<1>1. PICK j \in Jobs : Takes(r, j) /\ j.at = "done"
  BY Goes DEF Refuse
<1> QED
  BY <1>1, WaitingTracked DEF Refuse, Takes, Working, Sound, store, client

LEMMA CreatingTracked ==
  ASSUME Sound, Tracked, NEW r \in Req, CreateMessage(r)
  PROVE  Tracked'
<1> USE DEF Sound
<1> DEFINE new == [NoRow EXCEPT !.there = TRUE, !.text = job[r].text]
<1>1. job[r] \in Jobs /\ job[r].op = "post" /\ job[r].at = "sent"
  BY DEF CreateMessage, At, TypeOK
<1>2. new \in Rows
  BY <1>1 DEF NoRow, Rows, Jobs, Text
<1>3. /\ Keep(r, new, Recording(job[r].text)) /\ Begin(r)
      /\ UNCHANGED <<reacts, inbox, copy, load>>
  BY DEF CreateMessage, client
<1> HIDE DEF new
<1>4. PICK j \in Jobs : /\ Takes(r, j) /\ j.at = Recording(job[r].text)
                        /\ j.frame = RowFrame(new) /\ j.to = User
  BY <1>2, <1>3, Goes DEF Recording, Stage
<1>5. row' = new /\ Running = {}
  BY <1>1, <1>3 DEF Keep, PostsFirst, Running
<1>6. Working(j) /\ j.op = "post"
  BY <1>1, <1>4 DEF Working, Recording, Takes
<1>7. ASSUME NEW u \in User \ doubt' PROVE Follows(u)'
  <2>1. Follows(u) /\ load[u].at = "none"
    BY <1>1, <1>3, Begins
  <2>2. Apart'
    BY <1>4, <1>5, ApartStay DEF Apart
  <2>3. FrameTrue(j)'
    BY <1>4, <1>5, <1>6 DEF FrameTrue, Writes, Reacts
  <2>4. FramesTrue'
    BY <1>4, <1>5, <2>3, FramesStay DEF FramesTrue
  <2>5. OwesRow(j, u) /\ OwesNews(j, u)
    BY <1>4, <1>6 DEF OwesRow, OwesNews, Writes
  <2>6. ~OwesReacts(job[r], u)
    BY <1>1 DEF OwesReacts, Working
  <2> QED
    BY <1>3, <1>4, <2>1, <2>2, <2>4, <2>5, <2>6, Handled
<1> QED
  BY <1>7 DEF Tracked

\* An edit, a pin and an unpin: only reactions may be under way.
LEMMA RewritingTracked ==
  ASSUME Sound, Tracked, NEW r \in Req, job[r].op \in {"edit", "pin", "unpin"},
         job[r].at = "sent", row.there, NEW x \in Rows, NEW stage \in {"clear", "send"},
         Keep(r, x, stage), Begin(r), UNCHANGED <<reacts, inbox, copy, load>>
  PROVE  Tracked'
<1>1. PICK j \in Jobs : Takes(r, j) /\ j.at = stage /\ j.frame = RowFrame(x) /\ j.to = User
  BY Goes DEF Stage
<1>2. row' = x /\ Working(j) /\ j.op = job[r].op
  BY <1>1 DEF Keep, Working, Takes
<1>3. ASSUME NEW u \in User \ doubt' PROVE Follows(u)'
  <2>1. /\ Follows(u) /\ load[u].at = "none" /\ r \notin Running
        /\ \A q \in Running : Commute(job[q].op, job[r].op)
    BY Begins
  <2>2. Apart'
    BY <1>1, <1>2, <2>1, ApartStay DEF Follows
  <2>3. FrameTrue(j)'
    BY <1>1, <1>2 DEF FrameTrue, Writes, Reacts
  <2>4. \A q \in Running : job[q].op \in Reacts
    BY <2>1 DEF Commute, Reacts
  <2>5. FramesTrue'
    BY <1>1, <2>1, <2>3, <2>4, FramesStay DEF Follows
  <2>6. OwesRow(j, u)
    BY <1>1, <1>2 DEF OwesRow, Writes
  <2>7. ~OwesReacts(job[r], u) /\ ~OwesNews(job[r], u)
    BY DEF OwesReacts, OwesNews, Working
  <2> QED
    BY <1>1, <2>1, <2>2, <2>5, <2>6, <2>7, Handled
<1> QED
  BY <1>3 DEF Tracked

LEMMA EditingTracked ==
  ASSUME Sound, Tracked, NEW r \in Req, EditMessage(r)
  PROVE  Tracked'
<1> USE DEF Sound
<1>1. job[r] \in Jobs /\ job[r].op = "edit" /\ job[r].at = "sent" /\ row.there
  BY ThereIs DEF EditMessage, At, TypeOK
<1>2. CASE row.deleted
  BY <1>1, <1>2, RefusalsTracked DEF EditMessage
<1>3. CASE ~row.deleted
  <2> DEFINE new == [row EXCEPT !.text = job[r].text]
  <2>1. new \in Rows
    BY <1>1 DEF TypeOK, Rows, Jobs
  <2>2. Keep(r, new, "clear") /\ Begin(r) /\ UNCHANGED <<reacts, inbox, copy, load>>
    BY <1>3 DEF EditMessage, client
  <2> HIDE DEF new
  <2> QED
    BY <1>1, <2>1, <2>2, RewritingTracked
<1> QED
  BY <1>2, <1>3

LEMMA PinningTracked ==
  ASSUME Sound, Tracked, NEW r \in Req, SetMessagePinned(r)
  PROVE  Tracked'
<1> USE DEF Sound
<1>1. job[r] \in Jobs /\ job[r].op \in {"pin", "unpin"} /\ job[r].at = "sent" /\ row.there
  BY ThereIs DEF SetMessagePinned, At, TypeOK
<1>2. CASE job[r].op = "pin" /\ row.deleted
  BY <1>1, <1>2, RefusalsTracked DEF SetMessagePinned
<1>3. CASE ~(job[r].op = "pin" /\ row.deleted)
  <2> DEFINE new == [row EXCEPT !.pinned = (job[r].op = "pin")]
  <2>1. new \in Rows
    BY <1>1 DEF TypeOK, Rows
  <2>2. Keep(r, new, "send") /\ Begin(r) /\ UNCHANGED <<reacts, inbox, copy, load>>
    BY <1>3 DEF SetMessagePinned, client
  <2> HIDE DEF new
  <2> QED
    BY <1>1, <2>1, <2>2, RewritingTracked
<1> QED
  BY <1>2, <1>3

\* A delete: nothing may be under way.
LEMMA DeletingTracked ==
  ASSUME Sound, Tracked, NEW r \in Req, SoftDeleteMessage(r)
  PROVE  Tracked'
<1> USE DEF Sound
<1>1. job[r] \in Jobs /\ job[r].op = "delete" /\ job[r].at = "sent" /\ row.there
  BY ThereIs DEF SoftDeleteMessage, At, TypeOK
<1>2. CASE row.deleted
  BY <1>1, <1>2, RefusalsTracked DEF SoftDeleteMessage
<1>3. CASE ~row.deleted
  <2>1. row'.deleted
    BY <1>3 DEF SoftDeleteMessage, NoRow
  <2>2. Go(r, "clear") /\ Begin(r) /\ UNCHANGED <<reacts, inbox, copy, load>>
    BY <1>3 DEF SoftDeleteMessage, client
  <2>3. PICK j \in Jobs : Takes(r, j) /\ j.at = "clear"
    BY <2>2, Goes DEF Stage
  <2>4. Working(j) /\ j.op = "delete"
    BY <1>1, <2>3 DEF Working, Takes
  <2>5. ASSUME NEW u \in User \ doubt' PROVE Follows(u)'
    <3>1. Follows(u) /\ load[u].at = "none" /\ Running = {}
      BY <1>1, <2>2, Begins DEF Commute
    <3>2. Apart'
      BY <2>3, <3>1, ApartStay DEF Apart
    <3>3. FrameTrue(j)'
      BY <2>1, <2>3, <2>4 DEF FrameTrue, Writes, Reacts
    <3>4. FramesTrue'
      BY <2>3, <3>1, <3>3, FramesStay DEF FramesTrue
    <3>5. OwesRow(j, u) /\ OwesReacts(j, u)
      BY <2>3, <2>4 DEF OwesRow, OwesReacts
    <3>6. ~OwesNews(job[r], u)
      BY <1>1 DEF OwesNews, Working
    <3> QED
      BY <1>1, <2>2, <2>3, <3>1, <3>2, <3>4, <3>5, <3>6, Handled
  <2> QED
    BY <2>5 DEF Tracked
<1> QED
  BY <1>2, <1>3

LEMMA AddressingTracked ==
  ASSUME Sound, Tracked, NEW r \in Req, GetMessage(r)
  PROVE  Tracked'
<1> USE DEF Sound
<1>1. job[r] \in Jobs /\ job[r].op \in Reacts /\ job[r].at = "sent" /\ row.there
  BY ThereIs DEF GetMessage, At, TypeOK, Reacts
<1>2. CASE row.deleted
  BY <1>1, <1>2, RefusalsTracked DEF GetMessage
<1>3. CASE ~row.deleted
  <2>1. Go(r, "react") /\ Begin(r) /\ UNCHANGED <<row, reacts, inbox, copy, load>>
    BY <1>3 DEF GetMessage, store, client
  <2>2. PICK j \in Jobs : Takes(r, j) /\ j.at = "react"
    BY <2>1, Goes DEF Stage
  <2>3. Working(j) /\ j.op = job[r].op
    BY <1>1, <2>2 DEF Working, Takes
  <2>4. ASSUME NEW u \in User \ doubt' PROVE Follows(u)'
    <3>1. /\ Follows(u) /\ load[u].at = "none" /\ r \notin Running
          /\ \A q \in Running : Commute(job[q].op, job[r].op)
      BY <1>1, <2>1, Begins
    <3>2. Apart'
      BY <2>2, <2>3, <3>1, ApartStay DEF Follows
    <3>3. FrameTrue(j)'
      BY <1>1, <2>2, <2>3 DEF FrameTrue, Writes, Reacts
    <3>4. FramesTrue'
      BY <2>1, <2>2, <3>1, <3>3, FramesStay DEF Follows
    <3>5. ~OwesRow(job[r], u) /\ ~OwesReacts(job[r], u) /\ ~OwesNews(job[r], u)
      BY <1>1 DEF OwesRow, OwesReacts, OwesNews, Working
    <3> QED
      BY <1>1, <2>1, <2>2, <3>1, <3>2, <3>4, <3>5, Handled
  <2> QED
    BY <2>4 DEF Tracked
<1> QED
  BY <1>2, <1>3

\* Stages of a handler that change neither the row nor the reactions.
LEMMA WorkingTracked ==
  ASSUME Sound, Tracked, NEW r \in Req, Working(job[r]), NEW j, Takes(r, j), Working(j),
         UNCHANGED <<row, reacts, inbox, copy, load, doubt>>, row.there,
         FrameTrue(job[r]) => FrameTrue(j)',
         \/ j.to = job[r].to /\ (job[r].at = "send" <=> j.at = "send")
         \/ j.at = "send" /\ job[r].at # "send" /\ j.to = User /\ job[r].op \in Reacts
         \/ job[r].op \in {"post", "edit"} /\ j.to = job[r].to
  PROVE  Tracked'
<1>1. ASSUME NEW u \in User \ doubt' PROVE Follows(u)'
  <2>1. /\ Follows(u) /\ load[u].at = "none" /\ Apart /\ FramesTrue /\ FrameTrue(job[r])
        /\ \A q \in Running \ {r} : Commute(job[q].op, job[r].op)
    BY <1>1, AtWork
  <2>2. j.op = job[r].op
    BY DEF Takes
  <2>3. Apart' /\ FramesTrue'
    BY <2>1, <2>2, ApartStay, FramesStay
  <2>4. /\ OwesRow(job[r], u) => OwesRow(j, u)
        /\ OwesReacts(job[r], u) => OwesReacts(j, u)
        /\ OwesNews(job[r], u) => OwesNews(j, u)
    BY <2>2 DEF OwesRow, OwesReacts, OwesNews, Writes, Reacts
  <2> QED
    BY <2>1, <2>3, <2>4, Handled
<1> QED
  BY <1>1 DEF Tracked

LEMMA ClearingTracked ==
  ASSUME Sound, Tracked, NEW r \in Req, DeleteMentions(r)
  PROVE  Tracked'
<1> USE DEF Sound
<1>1. job[r] \in Jobs /\ job[r].op \in {"edit", "delete"} /\ job[r].at = "clear" /\ row.there
  BY ThereIs DEF DeleteMentions, At, TypeOK
<1> DEFINE stage == IF job[r].op = "edit" THEN Recording(job[r].text) ELSE "shed"
<1>2. PICK j \in Jobs :
        Takes(r, j) /\ j.at = stage /\ j.frame = job[r].frame /\ j.to = job[r].to
  <2>1. Go(r, stage) /\ stage \in Stage \ {"free", "sent"}
    BY DEF DeleteMentions, Recording, Stage
  <2> HIDE DEF stage
  <2> QED
    BY <2>1, Goes
<1>3. UNCHANGED <<row, reacts, inbox, copy, load, doubt>>
  BY DEF DeleteMentions, client
<1>4. Working(job[r]) /\ Working(j) /\ j.op = job[r].op
  BY <1>1, <1>2 DEF Working, Recording, Takes
<1>5. FrameTrue(job[r]) => FrameTrue(j)'
  BY <1>1, <1>2, <1>3, <1>4 DEF FrameTrue, Recording, Writes, Reacts
<1>6. \/ j.to = job[r].to /\ (job[r].at = "send" <=> j.at = "send")
      \/ job[r].op \in {"post", "edit"} /\ j.to = job[r].to
  BY <1>1, <1>2
<1> QED
  BY <1>1, <1>2, <1>3, <1>4, <1>5, <1>6, WorkingTracked

LEMMA RecordingTracked ==
  ASSUME Sound, Tracked, NEW r \in Req, NEW u \in User, RecordMention(r, u)
  PROVE  Tracked'
<1> USE DEF Sound
<1>1. job[r] \in Jobs /\ job[r].op \in {"post", "edit"} /\ job[r].at = "record" /\ row.there
  BY ThereIs DEF RecordMention, At, TypeOK
<1>2. PICK todo \in SUBSET job[r].text :
        job' = [job EXCEPT ![r] = [@ EXCEPT !.text = todo, !.at = Recording(todo)]]
  BY DEF RecordMention
<1>3. PICK j \in Jobs : /\ j.op = job[r].op /\ j.at = Recording(todo)
                        /\ j.frame = job[r].frame /\ j.to = job[r].to
                        /\ job' = [job EXCEPT ![r] = j]
  <2> DEFINE j == [job[r] EXCEPT !.text = todo, !.at = Recording(todo)]
  <2>1. /\ j \in Jobs /\ j.op = job[r].op /\ j.at = Recording(todo)
        /\ j.frame = job[r].frame /\ j.to = job[r].to
        /\ job' = [job EXCEPT ![r] = j]
    BY <1>1, <1>2 DEF Jobs, Text, Recording, Stage
  <2> HIDE DEF j
  <2> QED
    BY <2>1
<1>4. Takes(r, j) /\ Working(job[r]) /\ Working(j)
  BY <1>1, <1>3 DEF Takes, Recording, Working
<1>5. UNCHANGED <<row, reacts, inbox, copy, load, doubt>>
  BY DEF RecordMention, client
<1>6. FrameTrue(job[r]) => FrameTrue(j)'
  BY <1>1, <1>3, <1>5 DEF FrameTrue, Writes, Reacts
<1> QED
  BY <1>1, <1>3, <1>4, <1>5, <1>6, WorkingTracked

LEMMA TallyingTracked ==
  ASSUME Sound, Tracked, NEW r \in Req, ReactionsForMessage(r)
  PROVE  Tracked'
<1> USE DEF Sound
<1>1. job[r] \in Jobs /\ job[r].op \in Reacts /\ job[r].at = "tally" /\ row.there
  BY ThereIs DEF ReactionsForMessage, At, TypeOK, Reacts
<1>2. PICK j \in Jobs :
        Takes(r, j) /\ j.at = "send" /\ j.frame = TallyFrame(reacts) /\ j.to = User
  <2>1. TallyFrame(reacts) \in Frames
    BY FrameTypes DEF TypeOK
  <2> QED
    BY <2>1, Goes DEF ReactionsForMessage
<1>3. UNCHANGED <<row, reacts, inbox, copy, load, doubt>>
  BY DEF ReactionsForMessage, client, store
<1>4. Working(job[r]) /\ Working(j) /\ j.op = job[r].op
  BY <1>1, <1>2 DEF Working, Takes
<1>5. FrameTrue(j)'
  BY <1>1, <1>2, <1>3, <1>4 DEF FrameTrue, Writes, Reacts
<1> QED
  BY <1>1, <1>2, <1>3, <1>4, <1>5, WorkingTracked

\* A reaction changes while only the row may be under way otherwise.
LEMMA ReactingTracked ==
  ASSUME Sound, Tracked, NEW r \in Req, ChangeReaction(r)
  PROVE  Tracked'
<1> USE DEF Sound
<1>1. job[r] \in Jobs /\ job[r].op \in Reacts /\ job[r].at = "react" /\ row.there
  BY ThereIs DEF ChangeReaction, At, TypeOK, Reacts
<1>2. PICK j \in Jobs : Takes(r, j) /\ j.at = "tally"
  BY Goes DEF ChangeReaction, Stage
<1>3. UNCHANGED <<row, inbox, copy, load, doubt>>
  BY DEF ChangeReaction, client
<1>4. Working(job[r]) /\ Working(j) /\ j.op = job[r].op
  BY <1>1, <1>2 DEF Working, Takes
<1>5. ASSUME NEW u \in User \ doubt' PROVE Follows(u)'
  <2>1. /\ Follows(u) /\ load[u].at = "none" /\ Apart /\ FramesTrue
        /\ \A q \in Running \ {r} : Commute(job[q].op, job[r].op)
    BY <1>3, <1>4, <1>5, AtWork
  <2>2. \A q \in Running \ {r} : job[q].op \in Writes
    BY <1>1, <2>1 DEF Commute, Writes, Reacts
  <2>3. FrameTrue(j)'
    BY <1>1, <1>2, <1>4 DEF FrameTrue, Writes, Reacts
  <2>4. Apart' /\ FramesTrue'
    BY <1>2, <1>3, <1>4, <2>1, <2>2, <2>3, ApartStay, FramesStay
  <2>5. OwesReacts(j, u)
    BY <1>1, <1>2, <1>4 DEF OwesReacts
  <2>6. ~OwesRow(job[r], u) /\ ~OwesNews(job[r], u)
    BY <1>1 DEF OwesRow, OwesNews, Writes, Reacts
  <2> QED
    BY <1>1, <1>2, <1>3, <2>1, <2>4, <2>5, <2>6, Handled
<1> QED
  BY <1>5 DEF Tracked

\* The reactions of a deleted message go with nothing else under way.
LEMMA SheddingTracked ==
  ASSUME Sound, Tracked, NEW r \in Req, DeleteReactions(r)
  PROVE  Tracked'
<1> USE DEF Sound
<1>1. job[r] \in Jobs /\ job[r].op = "delete" /\ job[r].at = "shed" /\ row.there
  BY ThereIs DEF DeleteReactions, At, TypeOK
<1>2. PICK j \in Jobs : Takes(r, j) /\ j.at = "send" /\ j.frame = GoneFrame /\ j.to = User
  BY Goes, FrameTypes DEF DeleteReactions
<1>3. UNCHANGED <<row, inbox, copy, load>>
  BY DEF DeleteReactions, client
<1>4. Working(job[r]) /\ Working(j) /\ j.op = job[r].op
  BY <1>1, <1>2 DEF Working, Takes
<1>5. ASSUME NEW u \in User \ doubt' PROVE Follows(u)'
  <2>1. reacts' = {} /\ u \notin doubt
    BY <1>5 DEF DeleteReactions
  <2>2. /\ Follows(u) /\ load[u].at = "none" /\ Apart /\ FramesTrue /\ FrameTrue(job[r])
        /\ \A q \in Running \ {r} : Commute(job[q].op, job[r].op)
    BY <1>4, <2>1, AtWork
  <2>3. Running \ {r} = {}
    BY <1>1, <2>2 DEF Commute
  <2>4. FrameTrue(j)'
    BY <1>1, <1>2, <1>3, <1>4, <2>1, <2>2 DEF FrameTrue, Writes, Reacts
  <2>5. Apart' /\ FramesTrue'
    BY <1>2, <2>2, <2>3, <2>4, ApartStay, FramesStay
  <2>6. OwesReacts(j, u) /\ OwesRow(j, u)
    BY <1>1, <1>2, <1>4 DEF OwesReacts, OwesRow
  <2>7. ~OwesNews(job[r], u)
    BY <1>1 DEF OwesNews
  <2> QED
    BY <1>1, <1>2, <1>3, <2>2, <2>5, <2>6, <2>7, Handled
<1> QED
  BY <1>5 DEF Tracked

\* A client that gets a frame.
LEMMA Delivered ==
  ASSUME Sound, NEW r \in Req, NEW u \in User, NEW j, Takes(r, j), Follows(u),
         job[r].at = "send", Working(job[r]), row.there, load[u].at = "none",
         Apart', FramesTrue', FrameTrue(job[r]),
         \A p \in Running \ {r} : Commute(job[p].op, job[r].op),
         inbox'[u] = Append(inbox[u], job[r].frame), UNCHANGED <<row, reacts, copy, load>>
  PROVE  Follows(u)'
<1> USE DEF Sound
<1> PICK f, q, a : f = job[r].frame /\ q = inbox[u] /\ a = Append(q, f)
  OBVIOUS
<1>1. job[r] \in Jobs /\ q \in Seq(Frames) /\ f \in Frames
  BY DEF TypeOK, Jobs
<1>2. /\ DOMAIN a = 1..(Len(q) + 1) /\ DOMAIN q = 1..Len(q) /\ Len(q) \in Nat
      /\ a[Len(q) + 1] = f /\ \A i \in DOMAIN q : a[i] = q[i]
  BY <1>1, QueueEnds
<1>3. ASSUME NEW kinds
      PROVE  /\ f.kind \in kinds =>
                  /\ \A i \in DOMAIN a : Last(a, i, kinds) => i = Len(q) + 1
                  /\ ~Lacks(a, kinds)
             /\ f.kind \notin kinds =>
                  /\ \A i \in DOMAIN a : Last(a, i, kinds) => i \in DOMAIN q /\ Last(q, i, kinds)
                  /\ Lacks(a, kinds) => Lacks(q, kinds)
             /\ ~Lacks(q, kinds) => ~Lacks(a, kinds)
  BY <1>1, QueueEnds
<1>4. inbox'[u] = a /\ copy'[u] = copy[u] /\ load'[u] = load[u]
  OBVIOUS
<1>5. /\ job[r].op \in Writes => f.kind = "row" /\ f.row = row
      /\ job[r].op = "delete" => f.kind = "gone" /\ row.deleted /\ reacts = {}
      /\ job[r].op \in Reacts => f.kind = "reacts" /\ f.reacts = reacts
      /\ job[r].op \in Writes \cup {"delete"} \cup Reacts
  BY <1>1 DEF FrameTrue, RowFrame, GoneFrame, TallyFrame, Jobs, Op, Writes, Reacts
<1>6. job'[r] = j /\ \A p \in Req \ {r} : job'[p] = job[p]
  BY Going
<1>7. RowDue(u)' \/ RowComes(u)'
  <2>1. CASE job[r].op \in Writes \cup {"delete"}
    <3>1. f.kind \in RowKinds
      BY <1>5, <2>1 DEF RowKinds
    <3>2. \A i \in DOMAIN a : Last(a, i, RowKinds) => a[i] = f
      BY <1>2, <1>3, <3>1
    <3>3. BringsRow(a)'
      BY <1>5, <2>1, <3>2 DEF BringsRow, Writes
    <3> QED
      BY <1>3, <1>4, <3>1, <3>3 DEF RowComes
  <2>2. CASE job[r].op \in Reacts
    <3>1. f.kind \notin RowKinds
      BY <1>5, <2>2 DEF RowKinds
    <3>2. ~OwesRow(job[r], u)
      BY <2>2 DEF OwesRow, Writes, Reacts
    <3>3. RowDue(u) => RowDue(u)'
      BY <1>6, <3>2 DEF RowDue
    <3>4. ASSUME RowComes(u) PROVE RowComes(u)'
      <4>1. BringsRow(q)
        BY <3>4 DEF RowComes
      <4>2. BringsRow(a)'
        BY <1>2, <1>3, <3>1, <4>1 DEF BringsRow
      <4>3. Lacks(a, RowKinds) => Same(copy[u].row)
        BY <1>3, <3>1, <3>4 DEF RowComes
      <4> QED
        BY <1>4, <4>2, <4>3 DEF RowComes, Same
    <3> QED
      BY <3>3, <3>4 DEF Follows
  <2> QED
    BY <1>5, <2>1, <2>2
<1>8. ReactsDue(u)' \/ ReactsCome(u)'
  <2>1. CASE job[r].op \in Reacts \cup {"delete"}
    <3>1. f.kind \in ReactKinds
      BY <1>5, <2>1 DEF ReactKinds
    <3>2. \A i \in DOMAIN a : Last(a, i, ReactKinds) => a[i] = f
      BY <1>2, <1>3, <3>1
    <3>3. BringsReacts(a)'
      BY <1>5, <2>1, <3>2 DEF BringsReacts, Reacts
    <3> QED
      BY <1>3, <1>4, <3>1, <3>3 DEF ReactsCome
  <2>2. CASE job[r].op \in Writes
    <3>1. f.kind \notin ReactKinds
      BY <1>5, <2>2 DEF ReactKinds
    <3>2. ~OwesReacts(job[r], u)
      BY <2>2 DEF OwesReacts, Writes, Reacts
    <3>3. ReactsDue(u) => ReactsDue(u)'
      BY <1>6, <3>2 DEF ReactsDue
    <3>4. ASSUME ReactsCome(u) PROVE ReactsCome(u)'
      <4>1. BringsReacts(q)
        BY <3>4 DEF ReactsCome
      <4>2. BringsReacts(a)'
        BY <1>2, <1>3, <3>1, <4>1 DEF BringsReacts
      <4>3. Lacks(a, ReactKinds) => copy[u].reacts = reacts
        BY <1>3, <3>1, <3>4 DEF ReactsCome
      <4> QED
        BY <1>4, <4>2, <4>3 DEF ReactsCome
    <3> QED
      BY <3>3, <3>4 DEF Follows
  <2> QED
    BY <1>5, <2>1, <2>2
<1>9. copy[u].row.there \/ ~Lacks(q, {"row"}) \/ NewsDue(u)
  BY DEF Follows, Known
<1>10. Orderly(a, copy[u])
  <2>1. Orderly(q, copy[u])
    BY DEF Follows, Known
  <2>2. CASE f.kind = "row"
    BY <1>2, <1>5, <2>1, <2>2 DEF Orderly, Writes, Reacts
  <2>3. CASE f.kind # "row"
    <3>1. job[r].op \notin Writes
      BY <1>5, <2>3
    <3>2. ~NewsDue(u)
      <4> SUFFICES ASSUME NEW p \in Req, OwesNews(job[p], u) PROVE FALSE
        BY DEF NewsDue
      <4>1. p \in Running \ {r}
        BY <3>1 DEF OwesNews, Working, Running, Writes
      <4>2. Commute("post", job[r].op)
        BY <4>1 DEF OwesNews
      <4> QED
        BY <4>2 DEF Commute
    <3>3. copy[u].row.there \/ \E k \in 1..Len(q) : q[k].kind = "row"
      BY <1>2, <1>9, <3>2 DEF Lacks
    <3> QED
      BY <1>2, <2>1, <2>3, <3>3 DEF Orderly
  <2> QED
    BY <2>2, <2>3
<1>11. copy[u].row.there \/ ~Lacks(a, {"row"}) \/ NewsDue(u)'
  <2>1. CASE copy[u].row.there \/ ~Lacks(q, {"row"})
    BY <1>3, <2>1
  <2>2. CASE NewsDue(u)
    <3>1. PICK p \in Req : OwesNews(job[p], u)
      BY <2>2 DEF NewsDue
    <3>2. CASE p = r
      BY <1>3, <1>5, <3>1, <3>2 DEF OwesNews, Writes
    <3>3. CASE p # r
      BY <1>6, <3>1, <3>3 DEF NewsDue
    <3> QED
      BY <3>2, <3>3
  <2> QED
    BY <1>9, <2>1, <2>2
<1>12. Known(u)'
  BY <1>4, <1>10, <1>11 DEF Known, Orderly
<1> QED
  BY <1>4, <1>7, <1>8, <1>12 DEF Follows, Loaded

LEMMA BroadcastingTracked ==
  ASSUME Sound, Tracked, NEW r \in Req, NEW c \in User, Broadcast(r, c)
  PROVE  Tracked'
<1> USE DEF Sound
<1>1. job[r] \in Jobs /\ job[r].at = "send" /\ c \in job[r].to /\ row.there
  BY ThereIs DEF Broadcast, TypeOK
<1>2. /\ UNCHANGED <<row, reacts, copy, load, doubt>>
      /\ inbox' = [inbox EXCEPT ![c] = Append(inbox[c], job[r].frame)]
  BY DEF Broadcast, store, client
<1>3. PICK j \in Jobs :
        /\ Takes(r, j)
        /\ \/ j.at = "done" /\ job[r].to \ {c} = {}
           \/ j.at = "send" /\ j.to = job[r].to \ {c} /\ j.frame = job[r].frame
  <2> DEFINE left == job[r].to \ {c}
             on == [job[r] EXCEPT !.to = left]
  <2>1. on \in Jobs /\ on.at = "send" /\ on.op = job[r].op /\ on.to = left /\ on.frame = job[r].frame
    BY <1>1 DEF Jobs
  <2>2. job' = [job EXCEPT ![r] = IF left = {} THEN Ended(r) ELSE on]
    BY DEF Broadcast
  <2> HIDE DEF on
  <2>3. CASE left = {}
    BY <2>2, <2>3, Goes
  <2>4. CASE left # {}
    BY <2>1, <2>2, <2>4 DEF Takes
  <2> QED
    BY <2>3, <2>4
<1>4. Working(job[r]) /\ j.op = job[r].op
  BY <1>1, <1>3 DEF Working, Takes
<1>5. ASSUME NEW u \in User \ doubt' PROVE Follows(u)'
  <2>1. /\ Follows(u) /\ load[u].at = "none" /\ Apart /\ FramesTrue /\ FrameTrue(job[r])
        /\ \A q \in Running \ {r} : Commute(job[q].op, job[r].op)
    BY <1>2, <1>4, <1>5, AtWork
  <2>2. Working(j) => FrameTrue(j)'
    BY <1>1, <1>2, <1>3, <1>4, <2>1 DEF FrameTrue, Working
  <2>3. Apart' /\ FramesTrue'
    BY <1>2, <1>3, <1>4, <2>1, <2>2, ApartStay, FramesStay
  <2>4. CASE u = c
    <3>1. inbox'[u] = Append(inbox[u], job[r].frame)
      BY <1>2, <2>4 DEF TypeOK
    <3> QED
      BY <1>1, <1>2, <1>3, <1>4, <2>1, <2>3, <3>1, Delivered
  <2>5. CASE u # c
    <3>1. inbox'[u] = inbox[u]
      BY <1>2, <2>5 DEF TypeOK
    <3>2. u \in job[r].to => j.at = "send" /\ u \in j.to
      BY <1>3, <2>5
    <3>3. /\ OwesRow(job[r], u) => OwesRow(j, u)
          /\ OwesReacts(job[r], u) => OwesReacts(j, u)
          /\ OwesNews(job[r], u) => OwesNews(j, u)
      BY <1>1, <1>4, <3>2 DEF OwesRow, OwesReacts, OwesNews, Working
    <3> QED
      BY <1>1, <1>2, <1>3, <2>1, <2>3, <3>1, <3>3, Handled
  <2> QED
    BY <2>4, <2>5
<1> QED
  BY <1>5 DEF Tracked

\* A request that has come in has changed nothing yet.
LEMMA RequestsTracked ==
  ASSUME Sound, Tracked, NEW r \in Req, NEW u \in User, NEW op \in Op, NEW text \in Text,
         Request(r, u, op, text)
  PROVE  Tracked'
<1> USE DEF Sound
<1> PICK j : j = [job[r] EXCEPT !.op = op, !.by = u, !.text = text, !.at = "sent"]
  OBVIOUS
<1>1. job \in [Req -> Jobs] /\ job[r] \in Jobs /\ job[r].at = "free"
  BY DEF Request, TypeOK
<1>2. j.at = "sent" /\ job' = [job EXCEPT ![r] = j]
  BY <1>1 DEF Jobs, Request
<1>3. UNCHANGED <<row, reacts, inbox, copy, load, doubt>>
  BY DEF Request, store, client
<1> QED
  BY <1>1, <1>2, <1>3, WaitingTracked DEF Working

LEMMA HandlersTracked ==
  ASSUME Sound, Tracked, NEW r \in Req, Handler(r)
  PROVE  Tracked'
<1>1. CASE EditFails(r) \/ DeleteFails(r) \/ ReactionsFail(r)
  BY <1>1 DEF EditFails, DeleteFails, ReactionsFail, Abandon, Tracked
<1>2. CASE \E u \in User : RecordMention(r, u)
  BY <1>2, RecordingTracked
<1>3. CASE \E u \in User : Broadcast(r, u)
  BY <1>3, BroadcastingTracked
<1> QED
  BY <1>1, <1>2, <1>3, CreatingTracked, EditingTracked, PinningTracked, DeletingTracked,
     ClearingTracked, SheddingTracked, AddressingTracked, ReactingTracked, TallyingTracked
  DEF Handler

\* A client that applies a frame.
LEMMA ReceivingTracked ==
  ASSUME Sound, Tracked, NEW u \in User, Receive(u)
  PROVE  u \notin doubt' => Follows(u)'
<1> USE DEF Sound
<1> SUFFICES ASSUME u \notin doubt' PROVE Follows(u)'
  OBVIOUS
<1> PICK q, t, f, c, d : q = inbox[u] /\ t = Tail(q) /\ f = Head(q) /\ c = copy[u] /\ d = Fold(c, f)
  OBVIOUS
<1>1. q \in Seq(Frames) /\ q # <<>> /\ f \in Frames /\ c \in Copies
  BY DEF Receive, TypeOK
<1>2. /\ inbox'[u] = t /\ copy'[u] = d
      /\ UNCHANGED <<row, reacts, job, load, doubt>>
  BY DEF Receive, TypeOK, store
<1>3. /\ t \in Seq(Frames) /\ f = q[1] /\ 1 \in DOMAIN q
      /\ \A i \in DOMAIN t : i + 1 \in DOMAIN q /\ t[i] = q[i + 1] /\ i \in Nat
  BY <1>1, QueueStarts
<1>4. ASSUME NEW kinds
      PROVE  /\ \A i \in DOMAIN t : Last(t, i, kinds) => Last(q, i + 1, kinds)
             /\ Lacks(t, kinds) /\ f.kind \in kinds => Last(q, 1, kinds)
             /\ Lacks(t, kinds) /\ f.kind \notin kinds => Lacks(q, kinds)
  BY <1>1, QueueStarts
<1>5. Follows(u) /\ Orderly(q, c)
  BY <1>2 DEF Tracked, Follows, Known
<1>6. /\ f.kind = "row" => d.row = f.row /\ d.reacts = c.reacts /\ f.row.there
      /\ f.kind = "gone" => /\ d.row.there /\ d.row.deleted /\ d.row.text = {}
                            /\ d.reacts = {}
      /\ f.kind = "reacts" => d.row = c.row /\ d.reacts = f.reacts /\ c.row.there
  <2>1. f.kind = "row" => f.row.there
    BY <1>3, <1>5 DEF Orderly
  <2>2. f.kind # "row" => c.row.there
    BY <1>3, <1>5 DEF Orderly
  <2>3. CASE f.kind = "row"
    BY <2>1, <2>3 DEF Fold, Copy
  <2>4. CASE f.kind = "gone"
    BY <1>1, <2>2, <2>4 DEF Fold, Copy, Copies, Rows
  <2>5. CASE f.kind = "reacts"
    BY <2>2, <2>5 DEF Fold, Copy
  <2> QED
    BY <2>3, <2>4, <2>5
<1>7. f.kind \in {"row", "gone", "reacts"} /\ d.row.there
  BY <1>1, <1>6 DEF Frames, Change
<1>8. Known(u)'
  <2>1. Orderly(t, d)
    BY <1>3, <1>5, <1>7 DEF Orderly
  <2> QED
    BY <1>2, <1>7, <2>1 DEF Known, Orderly
<1>9. RowComes(u) => RowComes(u)'
  <2> SUFFICES ASSUME RowComes(u) PROVE RowComes(u)'
    OBVIOUS
  <2>1. BringsRow(q)
    BY DEF RowComes
  <2>2. BringsRow(t)
    BY <1>3, <1>4, <2>1 DEF BringsRow
  <2>3. load[u].at = "none" /\ Lacks(t, RowKinds) => Same(d.row)
    <3> SUFFICES ASSUME load[u].at = "none", Lacks(t, RowKinds) PROVE Same(d.row)
      OBVIOUS
    <3>1. CASE f.kind \in RowKinds
      <4>1. Last(q, 1, RowKinds)
        BY <1>4, <3>1
      <4>2. IF f.kind = "row" THEN f.row = row ELSE row.deleted
        BY <1>3, <2>1, <4>1 DEF BringsRow
      <4> QED
        BY <1>6, <1>7, <3>1, <4>2 DEF Same, TypeOK, RowKinds
    <3>2. CASE f.kind \notin RowKinds
      BY <1>4, <1>6, <1>7, <3>2 DEF RowComes, RowKinds
    <3> QED
      BY <3>1, <3>2
  <2> QED
    BY <1>2, <2>2, <2>3 DEF RowComes, BringsRow, Same
<1>10. ReactsCome(u) => ReactsCome(u)'
  <2> SUFFICES ASSUME ReactsCome(u) PROVE ReactsCome(u)'
    OBVIOUS
  <2>1. BringsReacts(q)
    BY DEF ReactsCome
  <2>2. BringsReacts(t)
    BY <1>3, <1>4, <2>1 DEF BringsReacts
  <2>3. load[u].at = "none" /\ Lacks(t, ReactKinds) => d.reacts = reacts
    <3> SUFFICES ASSUME load[u].at = "none", Lacks(t, ReactKinds) PROVE d.reacts = reacts
      OBVIOUS
    <3>1. CASE f.kind \in ReactKinds
      <4>1. Last(q, 1, ReactKinds)
        BY <1>4, <3>1
      <4>2. IF f.kind = "reacts" THEN f.reacts = reacts ELSE reacts = {}
        BY <1>3, <2>1, <4>1 DEF BringsReacts
      <4> QED
        BY <1>6, <3>1, <4>2 DEF ReactKinds
    <3>2. CASE f.kind \notin ReactKinds
      BY <1>4, <1>6, <1>7, <3>2 DEF ReactsCome, ReactKinds
    <3> QED
      BY <3>1, <3>2
  <2> QED
    BY <1>2, <2>2, <2>3 DEF ReactsCome, BringsReacts
<1>11. RowDue(u)' <=> RowDue(u)
  BY <1>2 DEF RowDue
<1>12. ReactsDue(u)' <=> ReactsDue(u)
  BY <1>2 DEF ReactsDue
<1>13. Apart' /\ FramesTrue' /\ Loaded(u)'
  BY <1>2, <1>5 DEF Follows, Apart, FramesTrue, FrameTrue, Loaded, Running
<1> QED
  BY <1>5, <1>8, <1>9, <1>10, <1>11, <1>12, <1>13 DEF Follows

\* With no handler at work nothing is owed to anybody.
LEMMA NothingDue ==
  ASSUME Running = {}, NEW u \in User
  PROVE  ~RowDue(u) /\ ~ReactsDue(u) /\ ~NewsDue(u) /\ Apart /\ FramesTrue
  BY DEF RowDue, ReactsDue, NewsDue, OwesRow, OwesReacts, OwesNews, Working, Running,
         Apart, FramesTrue

\* The three steps of a load.
LEMMA ListingTracked ==
  ASSUME Sound, Tracked, NEW u \in User, ListMessages(u)
  PROVE  u \notin doubt' => Follows(u)'
<1> USE DEF Sound
<1> SUFFICES ASSUME u \notin doubt' PROVE Follows(u)'
  OBVIOUS
<1>1. UNCHANGED <<row, reacts, job, inbox, copy>>
  BY DEF ListMessages, store
<1>2. Running = {} /\ (inbox[u] = <<>> \/ u \notin doubt)
  BY DEF ListMessages
<1>3. load'[u].at = "rows" /\ load'[u].answer.row = row
  <2>1. load'[u] = [at |-> "rows", answer |-> Copy(row, {})]
    BY DEF ListMessages, TypeOK
  <2> QED
    BY <2>1 DEF Copy
<1>4. Running' = Running /\ Loaded(u)'
  BY <1>1, <1>2, <1>3 DEF Loaded, Running
<1>5. Apart' /\ FramesTrue'
  BY <1>2, <1>4 DEF Apart, FramesTrue
<1>6. BringsRow(inbox[u]) /\ BringsReacts(inbox[u]) /\ Orderly(inbox[u], copy[u])
  <2>1. CASE inbox[u] = <<>>
    BY <2>1 DEF BringsRow, BringsReacts, Orderly
  <2>2. CASE u \notin doubt
    BY <1>2, <2>2, NothingDue DEF Tracked, Follows, RowComes, ReactsCome, Known
  <2> QED
    BY <1>2, <2>1, <2>2
<1>7. RowComes(u)' /\ ReactsCome(u)' /\ Known(u)'
  BY <1>1, <1>3, <1>6 DEF RowComes, ReactsCome, Known, BringsRow, BringsReacts, Orderly
<1> QED
  BY <1>4, <1>5, <1>7 DEF Follows

LEMMA AttachingTracked ==
  ASSUME Sound, Tracked, NoReacts, NEW u \in User, AttachReactions(u)
  PROVE  u \notin doubt' => Follows(u)'
<1> USE DEF Sound
<1> SUFFICES ASSUME u \notin doubt' PROVE Follows(u)'
  OBVIOUS
<1>1. UNCHANGED <<row, reacts, job, inbox, copy, doubt>> /\ load[u].at = "rows"
  BY DEF AttachReactions, store
<1>2. Follows(u)
  BY <1>1 DEF Tracked
<1>3. Running = {} /\ load[u].answer.row = row
  BY <1>1, <1>2 DEF Follows, Loaded
<1>4. load'[u].at = "answer" /\ load'[u].answer.row = row /\ load'[u].answer.reacts = reacts
  <2>1. load'[u] = [at |-> "answer", answer |-> Copy(row, IF row.there THEN reacts ELSE {})]
    BY <1>3 DEF AttachReactions, TypeOK
  <2> QED
    BY <2>1 DEF Copy, NoReacts
<1>5. Running' = Running /\ Loaded(u)'
  BY <1>1, <1>3, <1>4 DEF Loaded, Running
<1>6. Apart' /\ FramesTrue'
  BY <1>3, <1>5 DEF Apart, FramesTrue
<1>7. BringsRow(inbox[u]) /\ BringsReacts(inbox[u]) /\ Orderly(inbox[u], copy[u])
  BY <1>2, <1>3, NothingDue DEF Follows, RowComes, ReactsCome, Known
<1>8. RowComes(u)' /\ ReactsCome(u)' /\ Known(u)'
  BY <1>1, <1>4, <1>7 DEF RowComes, ReactsCome, Known, BringsRow, BringsReacts, Orderly
<1> QED
  BY <1>5, <1>6, <1>8 DEF Follows

LEMMA SettingTracked ==
  ASSUME Sound, Tracked, NEW u \in User, SetMessages(u)
  PROVE  u \notin doubt' => Follows(u)'
<1> USE DEF Sound
<1> SUFFICES ASSUME u \notin doubt' PROVE Follows(u)'
  OBVIOUS
<1>1. UNCHANGED <<row, reacts, job, inbox, doubt>> /\ load[u].at = "answer"
  BY DEF SetMessages, store
<1>2. Follows(u)
  BY <1>1 DEF Tracked
<1>3. Running = {} /\ load[u].answer.row = row /\ load[u].answer.reacts = reacts
  BY <1>1, <1>2 DEF Follows, Loaded
<1>4. copy'[u].row = row /\ copy'[u].reacts = reacts /\ load'[u].at = "none"
  BY <1>3 DEF SetMessages, TypeOK, NoLoad
<1>5. Running' = Running /\ Loaded(u)'
  BY <1>1, <1>3, <1>4 DEF Loaded, Running
<1>6. Apart' /\ FramesTrue'
  BY <1>3, <1>5 DEF Apart, FramesTrue
<1>7. BringsRow(inbox[u]) /\ BringsReacts(inbox[u]) /\ Orderly(inbox[u], copy[u])
  BY <1>2, <1>3, NothingDue DEF Follows, RowComes, ReactsCome, Known
<1>8. row.there \/ inbox[u] = <<>>
  BY DEF NothingBefore
<1>9. RowComes(u)' /\ ReactsCome(u)'
  BY <1>1, <1>4, <1>7 DEF RowComes, ReactsCome, BringsRow, BringsReacts, Same
<1>10. Known(u)'
  BY <1>1, <1>4, <1>7, <1>8 DEF Known, Orderly
<1> QED
  BY <1>5, <1>6, <1>9, <1>10 DEF Follows

LEMMA TabsTracked ==
  ASSUME Sound, Tracked, NoReacts, NEW u \in User, Tab(u)
  PROVE  Tracked'
<1>1. u \notin doubt' => Follows(u)'
  BY ReceivingTracked, ListingTracked, AttachingTracked, SettingTracked DEF Tab
<1>2. ASSUME NEW w \in User \ doubt', w # u PROVE Follows(w)'
  <2>1. /\ UNCHANGED <<row, reacts, job>> /\ w \notin doubt
        /\ inbox'[w] = inbox[w] /\ copy'[w] = copy[w] /\ load'[w] = load[w]
    BY <1>2 DEF Tab, Receive, ListMessages, AttachReactions, SetMessages, Sound, TypeOK, store
  <2> QED
    BY <2>1, Unaffected DEF Tracked
<1> QED
  BY <1>1, <1>2 DEF Tracked

\* Only a message that is there has reactions.
LEMMA ReactionsLast ==
  ASSUME Sound, NoReacts, Next
  PROVE  NoReacts'
<1>1. ASSUME UNCHANGED <<row, reacts>> PROVE NoReacts'
  BY <1>1 DEF NoReacts
<1>2. ASSUME NEW r \in Req, Handler(r) PROVE NoReacts'
  <2>1. CASE CreateMessage(r)
    BY <2>1 DEF CreateMessage, Keep, NoReacts, NoRow
  <2>2. CASE EditMessage(r) \/ SetMessagePinned(r)
    <3>1. row.there
      BY <2>2, ThereIs DEF EditMessage, SetMessagePinned, At
    <3>2. row'.there
      BY <2>2, <3>1 DEF EditMessage, SetMessagePinned, Keep, Refuse, store, Sound, TypeOK, Rows
    <3> QED
      BY <3>2 DEF NoReacts
  <2>3. CASE SoftDeleteMessage(r)
    <3>1. UNCHANGED <<row, reacts>> \/ row'.there
      BY <2>3 DEF SoftDeleteMessage, Refuse, NoRow, store
    <3> QED
      BY <1>1, <3>1 DEF NoReacts
  <2>4. CASE DeleteReactions(r) \/ ChangeReaction(r)
    <3>1. row.there /\ row' = row
      BY <2>4, ThereIs DEF DeleteReactions, ChangeReaction, At
    <3> QED
      BY <3>1 DEF NoReacts
  <2>5. CASE UNCHANGED <<row, reacts>>
    BY <1>1, <2>5
  <2> QED
    BY <1>2, <2>1, <2>2, <2>3, <2>4, <2>5
    DEF Handler, EditFails, DeleteFails, DeleteMentions, RecordMention, GetMessage,
        ReactionsForMessage, ReactionsFail, Broadcast, Refuse, store
<1> QED
  BY <1>1, <1>2 DEF Next, Request, Tab, Receive, ListMessages, AttachReactions, SetMessages, store

LEMMA StepTracked ==
  Sound /\ Tracked /\ NoReacts /\ [Next]_vars => Tracked' /\ NoReacts'
<1> SUFFICES ASSUME Sound, Tracked, NoReacts, [Next]_vars PROVE Tracked' /\ NoReacts'
  OBVIOUS
<1>1. CASE Next
  BY <1>1, RequestsTracked, HandlersTracked, TabsTracked, ReactionsLast DEF Next
<1>2. CASE UNCHANGED vars
  <2>1. UNCHANGED <<row, reacts, job, inbox, copy, load, doubt>>
    BY <1>2 DEF vars, store, client
  <2> QED
    BY <2>1, Unaffected DEF Tracked, NoReacts
<1> QED
  BY <1>1, <1>2

\* Once nothing is under way a client's copy is the stored message, for any
\* number of clients and of requests, but for the doubt that handlers which do
\* not commute, a failed store call or a load across a change leave: whatever
\* the order in which frames and answers come in (addMessage, setReactions,
\* markMessageDeleted, setMessages).
THEOREM CopiesFollow ==
  Spec => []CopiesAgree
<1>1. Sound /\ Tracked => CopiesAgree
  <2> SUFFICES ASSUME Sound, Tracked, NEW u \in User, Settled(u), u \notin doubt
               PROVE  Drawn(copy[u]) = Drawn(Copy(row, reacts))
    BY DEF CopiesAgree
  <2> USE DEF Sound
  <2>1. Running = {} /\ inbox[u] = <<>> /\ load[u].at = "none" /\ Follows(u)
    BY DEF Settled, Tracked
  <2>2. RowComes(u) /\ ReactsCome(u)
    BY <2>1, NothingDue DEF Follows
  <2>3. Same(copy[u].row) /\ copy[u].reacts = reacts
    BY <2>1, <2>2 DEF RowComes, ReactsCome, Lacks
  <2> PICK c, s : c = copy[u] /\ s = Copy(row, reacts)
    OBVIOUS
  <2>4. /\ c \in Copies /\ s \in Copies /\ s.row = row /\ s.reacts = reacts
        /\ row.deleted => ~row.pinned
    BY DEF TypeOK, Copy, Copies
  <2>5. /\ c.row.there = row.there /\ c.row.deleted = row.deleted /\ c.row.text = row.text
        /\ ~row.deleted => c.row.pinned = row.pinned
    BY <2>3 DEF Same
  <2>6. CASE row.deleted
    <3>1. [c.row EXCEPT !.pinned = FALSE] = [s.row EXCEPT !.pinned = FALSE]
      BY <2>4, <2>5, <2>6 DEF Copies, Rows
    <3>2. [c EXCEPT !.row.pinned = FALSE] = [s EXCEPT !.row.pinned = FALSE]
      BY <2>3, <2>4, <3>1 DEF Copies
    <3> QED
      BY <2>4, <2>5, <2>6, <3>2 DEF Drawn
  <2>7. CASE ~row.deleted
    <3>1. c.row = s.row
      BY <2>4, <2>5, <2>7 DEF Copies, Rows
    <3>2. c = s
      BY <2>3, <2>4, <3>1 DEF Copies
    <3> QED
      BY <3>2
  <2> QED
    BY <2>6, <2>7
<1> QED
  BY <1>1, InitSound, InitFollows, StepSound, StepTracked, PTL DEF Spec

=============================================================================
