------------------------------- MODULE Composer -------------------------------
(***************************************************************************)
(* The images a message is composed with (attachments.js, drafts.js, the   *)
(* composer of app.js): staged as tiles in a tray, uploaded meanwhile, put *)
(* aside with the channel they were staged in, sent with its text. It runs *)
(* over Pane, which has the text and the calls.                            *)
(*                                                                         *)
(* The tray is a JavaScript array, and what the draft store gives back is  *)
(* the array it holds: a tile added to it or removed from it is added or   *)
(* removed there too, until the tray is emptied. Abstracted: pasting,      *)
(* dropping and choosing a file are one step; spoiler marks, the order of  *)
(* the tiles, oversized files, secret sessions; a message of images alone; *)
(* two drafts that share one array (only after a hasty step).              *)
(***************************************************************************)
EXTENDS Pane

CONSTANT NoChan

ASSUME NoChanAssumption == NoChan \notin Chan

VARIABLES
  tray,   \* pending: the tiles shown
  stash,  \* drafts.attachments: channel -> tiles put aside
  alias,  \* the channel whose stash is the very array of the tray
  upload, \* tile -> how its upload stands; the tiles are numbered as staged
  riding, \* send -> the tiles that went with it, until it is answered
  origin, \* ghost: tile -> the channel it was staged in
  posted, \* ghost: <<tile, channel>>, in a message of that channel
  gone,   \* ghost: tiles released with a failed send the user had left behind
  again,  \* ghost: tiles sent that the code brings back
  rash    \* ghost: the user staged, jumped or reopened where the code mislays tiles

tiles == <<tray, stash, alias, upload, riding>>
marks == <<origin, posted, gone, again, rash>>
composerVars == <<paneVars, tiles, marks>>

ComposerInit ==
  /\ PaneInit
  /\ tray = {} /\ stash = [c \in Chan |-> {}] /\ alias = NoChan /\ upload = <<>>
  /\ riding = <<>>
  /\ origin = <<>> /\ posted = {} /\ gone = {} /\ again = {} /\ rash = FALSE

\* The array of the tray becomes S: in the store as well, if it is the one kept there.
TrayIs(S) ==
  /\ tray' = S
  /\ stash' = IF alias = NoChan THEN stash ELSE [stash EXCEPT ![alias] = S]

-----------------------------------------------------------------------------
(* The tray.                                                               *)

\* uploadAndInsert up to its await. Wrong place: the channel's own are not back yet.
UploadAndInsert ==
  LET i == Len(upload) + 1
  IN  /\ Allowed("attach") /\ Wired /\ i <= limit.images
      /\ upload' = Append(upload, "uploading") /\ origin' = Append(origin, active)
      /\ TrayIs(tray \cup {i})
      /\ rash' = (rash \/ Selecting)
      /\ UNCHANGED <<paneVars, alias, riding, posted, gone, again>>

\* uploadAndInsert after its await: the tile is done, wherever it is by now ...
UploadDone(i) ==
  /\ upload[i] = "uploading" /\ upload' = [upload EXCEPT ![i] = "done"]
  /\ UNCHANGED <<paneVars, tray, stash, alias, riding, marks>>
\* ... or it failed, and is removed if the tray has it; one put aside stays as
\* it is, and blocks the composer from then on.
UploadFails(i) ==
  /\ upload[i] = "uploading" /\ Allowed("fail") /\ faults < limit.faults /\ faults' = faults + 1
  /\ upload' = [upload EXCEPT ![i] = IF i \in tray THEN "removed" ELSE "stuck"]
  /\ TrayIs(tray \ {i})
  /\ UNCHANGED <<server, socket, window, pane, text, limit, moves, ghosts, alias, riding, marks>>

\* remove: the cross of a tile that is done.
RemoveTile(i) ==
  /\ i \in tray /\ upload[i] = "done" /\ upload' = [upload EXCEPT ![i] = "removed"]
  /\ TrayIs(tray \ {i})
  /\ UNCHANGED <<paneVars, alias, riding, marks>>

HasUploading == \E i \in tray : upload[i] \in {"uploading", "stuck"}

\* Mutated form: the tiles are saved for the channel and stay in the tray.
StashKeeps(c) == stash' = [stash EXCEPT ![c] = tray] /\ UNCHANGED <<tray, alias>>
\* stash
Stash(c) == stash' = [stash EXCEPT ![c] = tray] /\ tray' = {} /\ alias' = NoChan
\* unstash: the store still has what it gives.
Unstash(c) ==
  /\ tray' = stash[c] /\ alias' = IF stash[c] # {} \/ alias = c THEN c ELSE NoChan
  /\ UNCHANGED stash

-----------------------------------------------------------------------------
(* The steps of the pane that have to do with it.                          *)

\* selectChannel up to its await. The open channel's tiles are not put aside,
\* and what was put aside there before comes back in their stead.
SelectAndStash(c) ==
  /\ SelectChannel(c)
  /\ IF c # active THEN Stash(active) /\ UNCHANGED <<rash, again>>
     ELSE /\ rash' = (rash \/ (tray # {} /\ alias # c)) /\ again' = again \cup stash[c]
          /\ UNCHANGED <<tray, stash, alias>>
  /\ UNCHANGED <<upload, riding, origin, posted, gone>>

\* jumpToMessage takes the tray along and leaves the target's aside; what was
\* sent from the channel it leaves stays in that channel's store.
JumpWithTray(i) ==
  /\ JumpToMessage(i)
  /\ rash' = (rash \/ (active' # active /\ (tray # {} \/ alias # NoChan \/ stash[active'] # {} \/ Selecting)))
  /\ again' = IF active' # active THEN again \cup stash[active] ELSE again
  /\ UNCHANGED <<tiles, origin, posted, gone>>

\* selectChannel after its await.
LoadAndUnstash(k) ==
  /\ AnswerLoad(k)
  /\ IF k.select THEN Unstash(k.chan) ELSE UNCHANGED <<tray, stash, alias>>
  /\ UNCHANGED <<upload, riding, marks>>

\* Enter: not while an image is uploading; takeAll.
SendWithTiles ==
  /\ ~HasUploading /\ Enter
  /\ LET n == Asked(calls, "send", active, 0).n
     IN  riding' = [m \in DOMAIN riding \cup {n} |-> IF m = n THEN tray ELSE riding[m]]
  /\ tray' = {} /\ alias' = NoChan
  /\ UNCHANGED <<stash, upload, marks>>

ServeWithTiles(k) ==
  /\ ServeSend(k) /\ posted' = posted \cup (riding[k.n] \X {k.chan})
  /\ UNCHANGED <<tiles, origin, gone, again, rash>>

\* The server may have posted what the tab takes for failed.
FailWithTiles(k) ==
  /\ Fail(k)
  /\ again' = IF k.op = "send" THEN again \cup riding[k.n] ELSE again
  /\ UNCHANGED <<tiles, origin, posted, gone, rash>>

\* The send is answered: the tiles are done with, or put back if the user is
\* still there, in the place of what was staged since, or else released.
AnswerWithTiles(k) ==
  LET S == riding[k.n]
      back == k.served = "failed" /\ k.chan = active
  IN  /\ AnswerSend(k)
      /\ riding' = [m \in DOMAIN riding \ {k.n} |-> riding[m]]
      /\ IF back THEN tray' = S /\ alias' = NoChan ELSE UNCHANGED <<tray, alias>>
      /\ rash' = (rash \/ (back /\ tray # {}))
      /\ gone' = IF k.served = "failed" /\ ~back THEN gone \cup S ELSE gone
      /\ UNCHANGED <<stash, upload, origin, posted, again>>

ComposerStep ==
  \/ PaneStep /\ UNCHANGED <<tiles, marks>>
  \/ UploadAndInsert \/ SendWithTiles
  \/ \E i \in DOMAIN upload : UploadDone(i) \/ UploadFails(i) \/ RemoveTile(i)
  \/ \E c \in Chan : SelectAndStash(c)
  \/ \E i \in Id : JumpWithTray(i)
  \/ \E k \in calls : LoadAndUnstash(k) \/ ServeWithTiles(k) \/ FailWithTiles(k) \/ AnswerWithTiles(k)

-----------------------------------------------------------------------------
\* A tile is in the tray, put aside, on its way or posted, each in the channel
\* it was staged in, unless its upload failed, the user removed it, or a failed
\* send released it; and what was posted does not come back to be sent again.
TilesKept ==
  \A i \in DOMAIN origin :
    LET c == origin[i] IN
    /\ upload[i] # "removed" /\ i \notin gone =>
         i \in tray \cup stash[c] \cup UNION {riding[n] : n \in DOMAIN riding} \/ <<i, c>> \in posted
    /\ i \in tray => active = c
    /\ i \in tray /\ <<i, c>> \in posted => i \in again
    /\ \A d \in Chan \ {c} : i \notin stash[d] /\ <<i, d>> \notin posted

\* What is composed is never lost and never leaves the channel it was written
\* in, text and images, whatever fails and wherever the user goes meanwhile:
\* as long as the user lets a channel be loaded before going on, and stages
\* nothing while a send may still give its images back. (drafts.js,
\* attachments.js, selectChannel, the failed send)
DraftKept == TextKept /\ (~hasty /\ ~rash => TilesKept)
=============================================================================
