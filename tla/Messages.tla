------------------------------ MODULE Messages ------------------------------
(***************************************************************************)
(* One message of a public channel: its row, its ping rows and its         *)
(* reactions in the store, the REST handlers that change them, and the     *)
(* copies that the clients keep and patch from broadcasts.                 *)
(*                                                                         *)
(* Every store call is one SQL statement and one step; a handler is        *)
(* several, and nothing orders the handlers of two requests. A broadcast   *)
(* is queued for one client after the other. A client applies what was     *)
(* queued for it in that order; the answer of a list request travels by    *)
(* itself and may come before or after any of it.                          *)
(*                                                                         *)
(* Abstracted: a text is the set of users it mentions; one emoji; replies, *)
(* DM and private channels (recipients of pings and broadcasts differ,     *)
(* steps do not); one tab per user, whose requests may overlap.            *)
(***************************************************************************)
EXTENDS Naturals, FiniteSets, Sequences

CONSTANTS
  User,
  Author,        \* the user who posts the message
  Moderator,     \* the users with moderator rank
  Req,           \* bound: the requests that change the message
  MaxLoads,      \* bound: list requests by all clients together
  StoreMayFail   \* whether store calls may fail

ASSUME UserAssumption == Author \in User /\ Moderator \subseteq User
ASSUME LoadsAssumption == MaxLoads \in Nat
ASSUME FailAssumption == StoreMayFail \in BOOLEAN

VARIABLES
  row,        \* messages: the row
  pings,      \* message_mentions: users with a ping row
  reacts,     \* message_reactions: users who reacted
  job,        \* request -> its handler
  inbox,      \* client -> frames queued for it and not yet applied
  copy,       \* client -> the message as it shows it
  load,       \* client -> its list request
  loads,      \* number of list requests so far
  doubt,      \* clients whose copy an overlap of requests may have spoilt
  pingDoubt   \* such an overlap may have spoilt the ping rows

store  == <<row, pings, reacts>>
client == <<copy, load, loads>>
vars   == <<store, job, inbox, client, doubt, pingDoubt>>

Text == SUBSET (User \ {Author})
NoRow == [there |-> FALSE, text |-> {}, deleted |-> FALSE, pinned |-> FALSE]
Rows  == [there : BOOLEAN, text : Text, deleted : BOOLEAN, pinned : BOOLEAN]

\* What a client shows: the row and its reactions.
Copy(r, rs) == [row |-> r, reacts |-> rs]
Copies      == [row : Rows, reacts : SUBSET User]

Op     == {"post", "edit", "pin", "unpin", "delete", "react", "unreact"}
Change == {"row", "gone", "reacts"}   \* message.new/.update, .delete, reaction.update
Frames == [kind : Change, row : Rows, reacts : SUBSET User]

\* The stages of a handler, each named for the step it takes next.
Stage == {"free", "sent", "clear", "record", "shed", "react", "tally", "send", "done"}
Jobs  == [op : Op, by : User, text : Text, at : Stage, frame : Frames, to : SUBSET User]

RowFrame(r)    == [kind |-> "row", row |-> r, reacts |-> {}]
GoneFrame      == [kind |-> "gone", row |-> NoRow, reacts |-> {}]
TallyFrame(rs) == [kind |-> "reacts", row |-> NoRow, reacts |-> rs]
FreeJob == [op |-> "post", by |-> Author, text |-> {}, at |-> "free",
            frame |-> GoneFrame, to |-> {}]
NoLoad  == [at |-> "none", answer |-> Copy(NoRow, {})]

TypeOK ==
  /\ row \in Rows
  /\ row.deleted => row.there /\ row.text = {} /\ ~row.pinned
  /\ pings \in SUBSET User /\ reacts \in SUBSET User
  /\ job \in [Req -> Jobs]
  /\ inbox \in [User -> Seq(Frames)]
  /\ copy \in [User -> Copies]
  /\ load \in [User -> [at : {"none", "rows", "answer"}, answer : Copies]]
  /\ loads \in 0..MaxLoads
  /\ doubt \in SUBSET User /\ pingDoubt \in BOOLEAN

Init ==
  /\ row = NoRow /\ pings = {} /\ reacts = {}
  /\ job = [r \in Req |-> FreeJob]
  /\ inbox = [u \in User |-> <<>>]
  /\ copy = [u \in User |-> Copy(NoRow, {})]
  /\ load = [u \in User |-> NoLoad]
  /\ loads = 0
  /\ doubt = {} /\ pingDoubt = FALSE

-----------------------------------------------------------------------------
(* Requests. A client offers to change what it shows, which may be stale.  *)

Live(u) == copy[u].row.there /\ ~copy[u].row.deleted

May(u, op) ==
  CASE op = "post"              -> u = Author /\ ~row.there
    [] op = "edit"              -> u = Author /\ Live(u)
    [] op \in {"pin", "unpin"}  -> u \in Moderator /\ Live(u)
    [] op = "delete"            -> (u = Author \/ u \in Moderator) /\ Live(u)
    [] op \in {"react", "unreact"} -> Live(u)

\* The message is posted once: its id is new to the request.
Request(r, u, op, text) ==
  /\ job[r].at = "free" /\ May(u, op)
  /\ op = "post" => \A q \in Req : job[q].at = "free"
  /\ op \notin {"post", "edit"} => text = {}
  /\ job' = [job EXCEPT ![r] = [@ EXCEPT !.op = op, !.by = u, !.text = text, !.at = "sent"]]
  /\ UNCHANGED <<store, inbox, client, doubt, pingDoubt>>

-----------------------------------------------------------------------------
(* What the two ghosts record.                                             *)

Running == {q \in Req : job[q].at \notin {"free", "sent", "done"}}

\* An edit or a pin touches other columns than a reaction: their broadcasts
\* commute.
Commute(a, b) ==
  \/ a \in {"edit", "pin", "unpin"} /\ b \in {"react", "unreact"}
  \/ b \in {"edit", "pin", "unpin"} /\ a \in {"react", "unreact"}

\* The handler of r starts to work while others are at work.
Begin(r) ==
  LET rivals == {q \in Running : ~Commute(job[q].op, job[r].op)}
  IN  doubt' = IF rivals # {} THEN User ELSE doubt \cup {u \in User : load[u].at # "none"}

Repings == {"post", "edit", "delete"}

\* It is one that rewrites the ping rows: alone, it leaves them as they ought
\* to be.
BeginPings(r) == pingDoubt' = \E q \in Running : job[q].op \in Repings

Ended(r) == [FreeJob EXCEPT !.op = job[r].op, !.at = "done"]

\* A store call failed in the middle: nothing is broadcast.
Abandon(r) ==
  /\ StoreMayFail
  /\ job' = [job EXCEPT ![r] = Ended(r)]
  /\ doubt' = User

-----------------------------------------------------------------------------
(* The handlers.                                                           *)

At(r, ops, stage) == job[r].op \in ops /\ job[r].at = stage
Go(r, stage) == job' = [job EXCEPT ![r].at = stage]
\* The broadcast is ready: the frame as of now, the audience everybody.
Send(r, frame) ==
  job' = [job EXCEPT ![r] = [@ EXCEPT !.at = "send", !.frame = frame, !.to = User]]
\* The row as the statement returned it is what will be broadcast.
Keep(r, new, stage) ==
  /\ row' = new
  /\ job' = [job EXCEPT ![r] = [@ EXCEPT !.at = stage, !.frame = RowFrame(new), !.to = User]]

\* 404: the statement found no row to change.
Refuse(r) ==
  /\ job' = [job EXCEPT ![r] = Ended(r)]
  /\ UNCHANGED <<store, inbox, client, doubt, pingDoubt>>

\* recordPings has nothing to do for a text that mentions nobody.
Recording(todo) == IF todo = {} THEN "send" ELSE "record"

\* handleCreateMessage: CreateMessage
CreateMessage(r) ==
  /\ At(r, {"post"}, "sent")
  /\ Keep(r, [NoRow EXCEPT !.there = TRUE, !.text = job[r].text], Recording(job[r].text))
  /\ Begin(r) /\ BeginPings(r)
  /\ UNCHANGED <<pings, reacts, inbox, client>>

\* handleEditMessage: EditMessage
EditMessage(r) ==
  /\ At(r, {"edit"}, "sent")
  /\ IF row.deleted THEN Refuse(r)
     ELSE /\ Keep(r, [row EXCEPT !.text = job[r].text], "clear")
          /\ Begin(r) /\ BeginPings(r)
          /\ UNCHANGED <<pings, reacts, inbox, client>>

\* Its GetChannel fails: 500.
EditFails(r) ==
  /\ At(r, {"edit"}, "clear")
  /\ Abandon(r)
  /\ pingDoubt' = TRUE
  /\ UNCHANGED <<store, inbox, client>>

\* Mutated form: a deleted message can be pinned.
SetMessagePinnedAny(r) ==
  /\ At(r, {"pin", "unpin"}, "sent")
  /\ Keep(r, [row EXCEPT !.pinned = job[r].op = "pin"], "send")
  /\ Begin(r)
  /\ UNCHANGED <<pings, reacts, inbox, client, pingDoubt>>

\* handlePinMessage, handleUnpinMessage: SetMessagePinned
SetMessagePinned(r) ==
  /\ At(r, {"pin", "unpin"}, "sent")
  /\ IF job[r].op = "pin" /\ row.deleted THEN Refuse(r)
     ELSE /\ Keep(r, [row EXCEPT !.pinned = job[r].op = "pin"], "send")
          /\ Begin(r)
          /\ UNCHANGED <<pings, reacts, inbox, client, pingDoubt>>

\* handleDeleteMessage: SoftDeleteMessage
SoftDeleteMessage(r) ==
  /\ At(r, {"delete"}, "sent")
  /\ IF row.deleted THEN Refuse(r)
     ELSE /\ row' = [NoRow EXCEPT !.there = TRUE, !.deleted = TRUE]
          /\ Go(r, "clear")
          /\ Begin(r) /\ BeginPings(r)
          /\ UNCHANGED <<pings, reacts, inbox, client>>

\* Mutated form: an edit adds to the pings of the earlier text.
DeleteMentionsKeep(r) ==
  /\ At(r, {"edit", "delete"}, "clear")
  /\ Go(r, IF job[r].op = "edit" THEN Recording(job[r].text) ELSE "shed")
  /\ pings' = IF job[r].op = "edit" THEN pings ELSE {}
  /\ UNCHANGED <<row, reacts, inbox, client, doubt, pingDoubt>>

\* DeleteMentionsForMessage, in an edit and in a delete. A failure is logged.
DeleteMentions(r) ==
  /\ At(r, {"edit", "delete"}, "clear")
  /\ Go(r, IF job[r].op = "edit" THEN Recording(job[r].text) ELSE "shed")
  /\ \/ pings' = {} /\ UNCHANGED pingDoubt
     \/ StoreMayFail /\ pingDoubt' = TRUE /\ UNCHANGED pings
  /\ UNCHANGED <<row, reacts, inbox, client, doubt>>

\* recordPings: one INSERT per recipient; the first failure ends it.
RecordMention(r, u) ==
  /\ At(r, {"post", "edit"}, "record") /\ u \in job[r].text
  /\ LET left == job[r].text \ {u}
         next(todo) == job' = [job EXCEPT ![r] = [@ EXCEPT !.text = todo, !.at = Recording(todo)]]
     IN  \/ pings' = pings \cup {u} /\ next(left) /\ UNCHANGED pingDoubt
         \/ StoreMayFail /\ pingDoubt' = TRUE /\ next({}) /\ UNCHANGED pings
  /\ UNCHANGED <<row, reacts, inbox, client, doubt>>

\* DeleteReactionsForMessage; a failure is logged.
DeleteReactions(r) ==
  /\ At(r, {"delete"}, "shed")
  /\ Send(r, GoneFrame)
  /\ \/ reacts' = {} /\ UNCHANGED doubt
     \/ StoreMayFail /\ doubt' = User /\ UNCHANGED reacts
  /\ UNCHANGED <<row, pings, inbox, client, pingDoubt>>

\* GetChannel fails after the message is gone: 500.
DeleteFails(r) ==
  /\ At(r, {"delete"}, "send") /\ job[r].to = User
  /\ Abandon(r)
  /\ UNCHANGED <<store, inbox, client, pingDoubt>>

\* setReaction: GetMessage; 409 for a deleted message.
GetMessage(r) ==
  /\ At(r, {"react", "unreact"}, "sent")
  /\ IF row.deleted THEN Refuse(r)
     ELSE /\ Go(r, "react")
          /\ Begin(r)
          /\ UNCHANGED <<store, inbox, client, pingDoubt>>

\* setReaction: AddReaction, RemoveReaction. Nothing looks at the message again.
ChangeReaction(r) ==
  /\ At(r, {"react", "unreact"}, "react")
  /\ reacts' = IF job[r].op = "react" THEN reacts \cup {job[r].by} ELSE reacts \ {job[r].by}
  /\ Go(r, "tally")
  /\ UNCHANGED <<row, pings, inbox, client, doubt, pingDoubt>>

\* setReaction: ReactionsForMessage
ReactionsForMessage(r) ==
  /\ At(r, {"react", "unreact"}, "tally")
  /\ Send(r, TallyFrame(reacts))
  /\ UNCHANGED <<store, inbox, client, doubt, pingDoubt>>

ReactionsFail(r) ==
  /\ At(r, {"react", "unreact"}, "tally")
  /\ Abandon(r)
  /\ UNCHANGED <<store, inbox, client, pingDoubt>>

\* Hub.Broadcast queues the frame for one client after the other.
Broadcast(r, u) ==
  /\ job[r].at = "send" /\ u \in job[r].to
  /\ inbox' = [inbox EXCEPT ![u] = Append(@, job[r].frame)]
  /\ LET left == job[r].to \ {u}
     IN  job' = [job EXCEPT ![r] = IF left = {} THEN Ended(r) ELSE [@ EXCEPT !.to = left]]
  /\ UNCHANGED <<store, client, doubt, pingDoubt>>

-----------------------------------------------------------------------------
(* The clients.                                                            *)

\* Mutated form: an edit blanks the reactions shown.
FoldBare(c, f) == IF f.kind = "row" THEN Copy(f.row, {}) ELSE c

\* addMessage: the row replaces the one shown, whichever is the newer; the
\* reactions shown stay. markMessageDeleted and setReactions patch a message
\* that is loaded and ignore one that is not.
Fold(c, f) ==
  CASE f.kind = "row" -> Copy(f.row, c.reacts)
    [] f.kind = "gone" /\ c.row.there ->
         Copy([c.row EXCEPT !.deleted = TRUE, !.text = {}], {})
    [] f.kind = "reacts" /\ c.row.there -> Copy(c.row, f.reacts)
    [] OTHER -> c

\* handleRealtime: applyEvent
Receive(u) ==
  /\ inbox[u] # <<>>
  /\ copy' = [copy EXCEPT ![u] = Fold(@, Head(inbox[u]))]
  /\ inbox' = [inbox EXCEPT ![u] = Tail(@)]
  /\ UNCHANGED <<store, job, load, loads, doubt, pingDoubt>>

\* loadChannel asks for the latest page: handleListMessages reads the rows.
\* Only a load with nothing under way or queued gives back a sound copy.
ListMessages(u) ==
  /\ load[u].at = "none" /\ loads < MaxLoads
  /\ load' = [load EXCEPT ![u] = [at |-> "rows", answer |-> Copy(row, {})]]
  /\ loads' = loads + 1
  /\ doubt' = IF Running # {} THEN doubt \cup {u}
              ELSE IF inbox[u] = <<>> THEN doubt \ {u} ELSE doubt
  /\ UNCHANGED <<store, job, inbox, copy, pingDoubt>>

\* attachReactions: a second statement, for the rows that were found.
AttachReactions(u) ==
  /\ load[u].at = "rows"
  /\ load' = [load EXCEPT ![u] =
       [at |-> "answer",
        answer |-> Copy(@.answer.row, IF @.answer.row.there THEN reacts ELSE {})]]
  /\ UNCHANGED <<store, job, inbox, copy, loads, doubt, pingDoubt>>

\* loadChannel: setMessages replaces the list with the answer.
SetMessages(u) ==
  /\ load[u].at = "answer"
  /\ copy' = [copy EXCEPT ![u] = load[u].answer]
  /\ load' = [load EXCEPT ![u] = NoLoad]
  /\ UNCHANGED <<store, job, inbox, loads, doubt, pingDoubt>>

-----------------------------------------------------------------------------
Handler(r) ==
  \/ CreateMessage(r)
  \/ EditMessage(r) \/ EditFails(r)
  \/ SetMessagePinned(r)
  \/ SoftDeleteMessage(r) \/ DeleteReactions(r) \/ DeleteFails(r)
  \/ DeleteMentions(r)
  \/ \E u \in User : RecordMention(r, u)
  \/ GetMessage(r) \/ ChangeReaction(r) \/ ReactionsForMessage(r) \/ ReactionsFail(r)
  \/ \E u \in User : Broadcast(r, u)

Tab(u) == Receive(u) \/ ListMessages(u) \/ AttachReactions(u) \/ SetMessages(u)

\* Only a free slot can take a request.
Next ==
  \/ \E r \in {q \in Req : job[q].at = "free"}, u \in User, op \in Op, text \in Text :
       Request(r, u, op, text)
  \/ \E r \in Req : Handler(r)
  \/ \E u \in User : Tab(u)

Spec == Init /\ [][Next]_vars

-----------------------------------------------------------------------------
\* Nothing is under way that may still change u's copy.
Settled(u) == Running = {} /\ inbox[u] = <<>> /\ load[u].at = "none"

\* What is drawn of a deleted message does not depend on its pin.
Drawn(c) == IF c.row.deleted THEN [c EXCEPT !.row.pinned = FALSE] ELSE c

\* A client's copy is the stored message, reactions included, once nothing is
\* under way, unless requests that do not commute overlapped (or a store call
\* failed, or a list request overlapped a change) since its last undisturbed
\* load: the broadcasts carry no version a client could order them by.
CopiesAgree ==
  \A u \in User : Settled(u) /\ u \notin doubt => Drawn(copy[u]) = Drawn(Copy(row, reacts))

\* No edit or delete has begun.
Untouched ==
  \A q \in Req : job[q].op \in {"edit", "delete"} => job[q].at = "sent"
\* "Record durable pings before broadcasting, so a client that reacts to
\* message.new by re-fetching unread sees them": whoever can be told of the
\* new message and is mentioned in it already has the ping.
NewsIsCounted ==
  \A r \in Req, u \in User :
    (job[r].op = "post" /\ job[r].at \in {"send", "done"} /\ u \notin job[r].to
       /\ ~pingDoubt /\ Untouched /\ u \in row.text) => u \in pings

\* The ping rows are the mentions of the text, and none for a deleted message,
\* unless an edit or delete overlapped another or a store call failed since
\* the last that ran alone; and nobody hears of a new message before its pings
\* are stored (handleSendMessage, handleEditMessage, handleDeleteMessage).
PingsAgree == ((Running = {} /\ ~pingDoubt) => pings = row.text) /\ NewsIsCounted

\* A deleted message is never changed again: not by an edit or a pin that was
\* on its way when it was deleted.
DeletedIsFinal == [][row.deleted => row' = row]_row
=============================================================================
