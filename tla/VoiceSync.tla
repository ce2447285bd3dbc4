----------------------------- MODULE VoiceSync ------------------------------
(***************************************************************************)
(* How the participants of one group voice channel learn who is in it: the *)
(* server stamps every change of the roster with Hub.voiceSeq under its    *)
(* lock and broadcasts the whole roster after releasing it (voice.state),  *)
(* each client adopts what is newer than the last it applied and keeps one *)
(* peer connection per remote participant (onVoiceState in voice.js).      *)
(*                                                                         *)
(* Connections stay up here: each client's frames reach its handler in     *)
(* order, what is queued for a client arrives in order, and only handlers  *)
(* of different connections race. A client receives a frame at the moment  *)
(* the frame is queued for it. That loses no behaviour: all it does before *)
(* it receives the frame can be moved ahead of that moment, because        *)
(* nothing but the frames it sends leaves it, and those wait in `up`.      *)
(* User ids are 1..N: the lower id of a pair makes the first offer and     *)
(* waits for createOffer.                                                  *)
(*                                                                         *)
(* Abstracted: the frames of offers, answers and candidates; the mute and  *)
(* sharing flags, which travel like the camera flag; getUserMedia, which   *)
(* joinVoiceChannel awaits before it changes anything shown here.          *)
(***************************************************************************)
EXTENDS Naturals, FiniteSets, Sequences

CONSTANTS
  N,        \* number of users
  MaxActs   \* bound: joins, leaves and camera toggles by all users together

ASSUME NAssumption == N \in Nat \ {0}
ASSUME ActsAssumption == MaxActs \in Nat

Caller == 1..N

VARIABLES
  roster,   \* server: users listed in the channel
  camera,   \* server: those whose camera is on
  seq,      \* server: Hub.voiceSeq
  up,       \* client -> its frames the server has not read yet
  job,      \* client -> what its connection's handler is doing
  inCall,   \* client -> activeChannelId # null
  participants, \* client -> the roster it shows
  last,     \* client -> lastVoiceSeq
  peers,    \* client -> remote users it holds an RTCPeerConnection to
  loop,     \* client -> the onVoiceState that is waiting for createOffer
  acts      \* number of user actions so far

callServer == <<roster, camera, seq, job>>
client == <<inCall, participants, last, peers, loop>>
callVars   == <<callServer, client, up, acts>>

Roster(in, on) == [in |-> in, on |-> on]
Nobody         == Roster({}, {})
State(s, r)    == [seq |-> s, roster |-> r]
Idle           == [at |-> "idle", state |-> State(0, Nobody), to |-> {}]
NoLoop         == [busy |-> FALSE, todo |-> {}, keep |-> {}]

Rosters == [in : SUBSET Caller, on : SUBSET Caller]
States  == [seq : Nat, roster : Rosters]
CallFrame   == {"join", "leave", "cameraOn", "cameraOff"}

CallInit ==
  /\ roster = {} /\ camera = {} /\ seq = 0 /\ acts = 0
  /\ up = [k \in Caller |-> <<>>]
  /\ job = [k \in Caller |-> Idle]
  /\ inCall = [k \in Caller |-> FALSE]
  /\ participants = [k \in Caller |-> Nobody]
  /\ last = [k \in Caller |-> 0]
  /\ peers = [k \in Caller |-> {}]
  /\ loop = [k \in Caller |-> NoLoop]

-----------------------------------------------------------------------------
(* What a user does.                                                       *)

Act == acts < MaxActs /\ acts' = acts + 1

Submit(k, frames) == up' = [up EXCEPT ![k] = @ \o frames]

CameraFrame(on) == IF on THEN "cameraOn" ELSE "cameraOff"

\* joinVoiceChannel once the microphone is there: the roster and the sequence
\* number of an earlier call are forgotten, the join and the camera announced.
Join(k, on) ==
  /\ Act /\ ~inCall[k]
  /\ inCall' = [inCall EXCEPT ![k] = TRUE]
  /\ participants' = [participants EXCEPT ![k] = Nobody]
  /\ last' = [last EXCEPT ![k] = 0]
  /\ Submit(k, <<"join", CameraFrame(on)>>)
  /\ UNCHANGED <<callServer, peers, loop>>

\* What leaveVoiceChannel and endCallLocally have in common: the call is over
\* at once and finishTeardown closes every peer connection.
Hangup(k) ==
  /\ inCall' = [inCall EXCEPT ![k] = FALSE]
  /\ participants' = [participants EXCEPT ![k] = Nobody]
  /\ peers' = [peers EXCEPT ![k] = {}]

\* leaveVoiceChannel
Leave(k) ==
  /\ Act /\ inCall[k]
  /\ Hangup(k)
  /\ Submit(k, <<"leave">>)
  /\ UNCHANGED <<callServer, last, loop>>

\* setCameraEnabled ends in sendMuteState.
Toggle(k, on) ==
  /\ Act /\ inCall[k]
  /\ Submit(k, <<CameraFrame(on)>>)
  /\ UNCHANGED <<callServer, client>>

-----------------------------------------------------------------------------
(* The handler of client k's connection.                                   *)

\* A mutation under voiceMu: the new roster, stamped with the next number.
Stamp(in, on) == roster' = in /\ camera' = on /\ seq' = seq + 1

\* Mutated form: the sender is left out.
AnnounceOthers(k) ==
  job' = [job EXCEPT ![k] = [at    |-> "send",
                             state |-> State(seq', Roster(roster', camera')),
                             to    |-> Caller \ {k}]]

\* The handler goes on to queue voice.state for everybody (the audience of a
\* public channel), the lock released.
AnnounceRoster(k) ==
  job' = [job EXCEPT ![k] = [at    |-> "send",
                             state |-> State(seq', Roster(roster', camera')),
                             to    |-> Caller]]

Read(k, frame) ==
  /\ job[k].at = "idle" /\ up[k] # <<>> /\ Head(up[k]) = frame
  /\ up' = [up EXCEPT ![k] = Tail(@)]

\* voice.join, first half: VoiceLeaveAll. The channel being joined is skipped
\* when the others are announced.
ReadJoin(k) ==
  /\ Read(k, "join")
  /\ Stamp(roster \ {k}, camera \ {k})
  /\ job' = [job EXCEPT ![k] = [Idle EXCEPT !.at = "enter"]]
  /\ UNCHANGED <<client, acts>>

\* voice.join, second half: VoiceJoin, which starts video-muted.
Enter(k) ==
  /\ job[k].at = "enter"
  /\ Stamp(roster \cup {k}, camera)
  /\ AnnounceRoster(k)
  /\ UNCHANGED <<up, client, acts>>

\* voice.leave
ReadLeave(k) ==
  /\ Read(k, "leave")
  /\ Stamp(roster \ {k}, camera \ {k})
  /\ AnnounceRoster(k)
  /\ UNCHANGED <<client, acts>>

\* voice.mute: announced even when the user is not listed.
ReadCamera(k, on) ==
  /\ Read(k, CameraFrame(on))
  /\ Stamp(roster, IF on /\ k \in roster THEN camera \cup {k} ELSE camera \ {k})
  /\ AnnounceRoster(k)
  /\ UNCHANGED <<client, acts>>

-----------------------------------------------------------------------------
(* onVoiceState. The signal chain applies one frame at a time; while it     *)
(* waits for createOffer the user may still leave and join again.          *)

\* Mutated form: a reordered roster is applied.
SupersededNever(k, s) == FALSE
\* Mutated form: those who left are kept.
KeepAll(k, had, keep) == had

\* A roster that is not newer than the last one applied in this call.
Superseded(k, s) == s <= last[k]

\* The peer connections left when the loop is through: those to the listed.
KeepListed(k, had, keep) == had \cap keep

\* One stretch of the loop over the roster, up to the next createOffer: the
\* users of `seen` (any, for the roster's order is by join time) are visited
\* and those without a peer connection get one. It ends with the first the
\* client has to offer to, or with the loop.
Stretch(k, todo, seen) ==
  LET offers == {p \in seen \ peers[k] : k < p}
  IN  /\ seen \subseteq todo
      /\ Cardinality(offers) <= 1
      /\ offers = {} => seen = todo

Waits(k, seen) == \E p \in seen \ peers[k] : k < p

\* The rest of onVoiceState for a loop with `todo` left: wait for an offer, or
\* close the connections to those who are gone and end the call if the roster
\* shown now is empty.
Continue(k, todo, keep, shown, active) ==
  \E seen \in SUBSET todo :
    /\ Stretch(k, todo, seen)
    /\ IF Waits(k, seen)
         THEN /\ loop' = [loop EXCEPT ![k] = [busy |-> TRUE, todo |-> todo \ seen,
                                              keep |-> keep]]
              /\ peers' = [peers EXCEPT ![k] = @ \cup seen]
              /\ participants' = [participants EXCEPT ![k] = shown]
              /\ UNCHANGED inCall
         ELSE /\ loop' = [loop EXCEPT ![k] = NoLoop]
              /\ IF shown.in = {} /\ active
                   THEN Hangup(k)
                   ELSE /\ peers' = [peers EXCEPT ![k] = KeepListed(k, @ \cup seen, keep)]
                        /\ participants' = [participants EXCEPT ![k] = shown]
                        /\ UNCHANGED inCall

\* Hub.Broadcast queues the frame for one connection after the other.
Queue(k, j) ==
  /\ job[k].at = "send" /\ j \in job[k].to
  /\ job' = [job EXCEPT ![k] = IF @.to = {j} THEN Idle ELSE [@ EXCEPT !.to = job[k].to \ {j}]]
  /\ UNCHANGED <<roster, camera, seq, up, acts>>

\* j is not in the call, or the roster is a reordered one: it is dropped.
Ignore(k, j) ==
  /\ Queue(k, j)
  /\ ~loop[j].busy
  /\ ~inCall[j] \/ Superseded(j, job[k].state.seq)
  /\ UNCHANGED client

\* j adopts a newer roster as it is.
Apply(k, j) ==
  /\ Queue(k, j)
  /\ ~loop[j].busy
  /\ LET new    == job[k].state
         others == new.roster.in \ {j}
     IN  /\ inCall[j] /\ ~Superseded(j, new.seq)
         /\ last' = [last EXCEPT ![j] = new.seq]
         /\ Continue(j, others, others, new.roster, TRUE)

\* createOffer and setLocalDescription are through; the loop goes on with the
\* roster it was called with, whatever the user did in between.
Resume(k) ==
  /\ loop[k].busy
  /\ Continue(k, loop[k].todo, loop[k].keep, participants[k], inCall[k])
  /\ UNCHANGED <<callServer, last, up, acts>>

-----------------------------------------------------------------------------
UserStep(k) ==
  \/ \E on \in BOOLEAN : Join(k, on) \/ Toggle(k, on)
  \/ Leave(k)

Handler(k) ==
  \/ ReadJoin(k) \/ Enter(k) \/ ReadLeave(k)
  \/ \E on \in BOOLEAN : ReadCamera(k, on)
  \/ \E j \in Caller : Ignore(k, j) \/ Apply(k, j)

CallNext == \E k \in Caller : UserStep(k) \/ Handler(k) \/ Resume(k)

CallSpec == CallInit /\ [][CallNext]_callVars

Fairness == \A k \in Caller : WF_callVars(Handler(k)) /\ WF_callVars(Resume(k))

FairSpec == CallSpec /\ Fairness

-----------------------------------------------------------------------------
\* Nothing is in flight between the server and the clients.
NothingInFlight ==
  \A k \in Caller :
    up[k] = <<>> /\ job[k].at = "idle" /\ ~loop[k].busy

\* Whoever is in the call shows the server's roster, cameras included, once
\* nothing is in flight, whatever order the broadcasts arrived in: "a stale
\* roster landing last" is what voiceSeq is there to prevent.
ViewIsNewest ==
  NothingInFlight => \A k \in Caller : inCall[k] => participants[k] = Roster(roster, camera)

\* ... is listed by the server, and holds a peer connection to every other
\* participant and to nobody else, although the loop that builds them is
\* overtaken by leaves and joins (onVoiceState).
MeshTrue == NothingInFlight => \A k \in Caller : inCall[k] => k \in roster /\ peers[k] = roster \ {k}

\* A join is answered: a user who joins and neither leaves nor is hung up on
\* comes to show a roster they are in themselves.
JoinIsShown ==
  \A k \in Caller : inCall[k] ~> (~inCall[k] \/ k \in participants[k].in)
=============================================================================
