--------------------------------- MODULE Media ---------------------------------
(***************************************************************************)
(* What one tab captures in a call and what it sends (voice.js): joining,  *)
(* leaving, the camera and screen toggles, the peer connections' senders,  *)
(* the posture announced to the server and the congestion monitor that     *)
(* shapes the video senders.                                               *)
(*                                                                         *)
(* An operation that waits for a device, for the farewell tone or for      *)
(* getStats is a record in `waits` (or `mon`); its answer is an action and *)
(* meets whatever state the other operations have left. replaceTrack and   *)
(* the offers of a roster settle within the step that calls them. Left out:*)
(* the farewell tone itself, our own meter, the local preview, codec order,*)
(* the retries with relaxed constraints (a device gives what was asked for *)
(* or not), two monitor runs at once. What is heard of the peers is in     *)
(* Playout.                                                                *)
(***************************************************************************)
EXTENDS Bitrate, SequencesExt, FiniteSets

CONSTANTS
  Chan,     \* voice channels
  None,     \* activeChannelId null
  Peer,     \* remote users
  Reports,  \* what getStats may say
  Limits    \* bound: how much of what happens, chosen at the start

ASSUME NoneAssumption == None \notin Chan
ASSUME PeerAssumption == IsFiniteSet(Peer)

VARIABLES
  chan,     \* activeChannelId
  gen,      \* callGen
  local,    \* localStream: the number of a stream, 0 for null
  muted, camera, screen, listen, \* muted, cameraEnabled, videoIsScreen, listenOnly
  sound,    \* screenAudioTrack: a track, 0 for null
  tracks,   \* every track captured: kind, live, on (.enabled), in (stream)
  roster,   \* participants: the remote ones
  pcs,      \* peerConns, peerMeta and the senders of each connection
  motion,   \* screenMotionState
  posture,  \* the last voice.mute of this call
  waits,    \* operations at an await
  mon,      \* the run of monitorCongestion at an await
  limit,    \* what is left of the bounds
  raced     \* ghost: which of the named races have happened

flags == <<muted, camera, screen, listen, sound>>
net == <<roster, pcs, motion, mon>>
media == <<chan, gen, local, flags, tracks, net, posture, waits, limit, raced>>

Idle == [ceiling |-> 0, seen |-> {}, fps |-> -1]
Still == [active |-> FALSE, ticks |-> 0]
Nothing == [chan |-> None, muted |-> TRUE, video |-> FALSE, sharing |-> FALSE]

MediaInit ==
  /\ chan = None /\ gen = 0 /\ local = 0 /\ sound = 0
  /\ muted = FALSE /\ camera = FALSE /\ screen = FALSE /\ listen = FALSE
  /\ tracks = <<>> /\ roster = {} /\ pcs = <<>> /\ motion = Still
  /\ posture = Nothing /\ waits = {} /\ mon = Idle /\ limit \in Limits /\ raced = {}

InCall == chan # None
Does(what) == limit[what] > 0 /\ limit' = [limit EXCEPT ![what] = @ - 1]
Wait(op, to, video) ==
  [op |-> op, to |-> to, video |-> video, gen |-> gen, stream |-> local, n |-> limit]
Waiting(ops) == {x \in waits : x.op \in ops}
Races(what) == raced' = raced \cup what
RacesIf(cond, what) == Races(IF cond THEN {what} ELSE {})

Track(kind, on, in) == [kind |-> kind, live |-> TRUE, on |-> on, in |-> in]
Owned(s, kinds) == {i \in DOMAIN tracks : s # 0 /\ tracks[i].in = s /\ tracks[i].kind \in kinds}
Video == {"camera", "screen"}
InOrder(S) == CHOOSE s \in [1..Cardinality(S) -> S] : \A i, j \in DOMAIN s : i < j => s[i] < s[j]
FirstOf(S) == IF S = {} THEN 0 ELSE Min(S)
Enabled(trs, S, on) == [i \in DOMAIN trs |-> IF i \in S THEN [trs[i] EXCEPT !.on = on] ELSE trs[i]]
Stopped(trs, S) == [i \in DOMAIN trs |-> IF i \in S THEN [trs[i] EXCEPT !.live = FALSE, !.in = 0] ELSE trs[i]]

-----------------------------------------------------------------------------
(* Senders and their encoding shape.                                       *)

EffectiveVideoCap(pc, n, scr) ==
  LET top == BitrateCapFor(n, scr) IN IF pc.target = 0 THEN top ELSE Clamp(pc.target, top)

\* applyVideoBitrateCaps, for n participants and the source scr. A sender whose
\* encodings are not negotiated yet takes nothing.
ApplyVideoBitrateCaps(pc, n, scr, moving) ==
  LET cap == EffectiveVideoCap(pc, n, scr)
      constrained == pc.soft # 0 /\ pc.soft * 10 < BitrateCapFor(n, scr) * 9
      aim == IF scr /\ moving /\ constrained THEN cap \div 2 ELSE cap
      scale == ResolutionWithHysteresis(pc.scale, aim, scr)
      sends == pc.ready /\ \E i \in DOMAIN pc.vid : pc.vid[i] # 0
  IN  [pc EXCEPT !.scale = scale, !.rate = IF sends THEN cap ELSE @,
                 !.shape = IF sends THEN scale ELSE @, !.source = IF sends THEN scr ELSE @]

Members == Cardinality(roster) + 1
Applied(f, scr) == [p \in DOMAIN f |-> ApplyVideoBitrateCaps(f[p], Members, scr, motion.active)]
ResetScales(f) == [p \in DOMAIN f |-> [f[p] EXCEPT !.scale = 0]]

Replaced(s, t) == LET i == SelectInSeq(s, LAMBDA x : x # 0) IN IF i = 0 THEN s ELSE ReplaceAt(s, i, t)
WithVideo(f, t) == [p \in DOMAIN f |-> [f[p] EXCEPT !.vid = Replaced(@, t)]]
WithAudio(f, t) == [p \in DOMAIN f |-> [f[p] EXCEPT !.aud = Replaced(@, t)]]
\* The dormant sender a turned-off share leaves is used again, else one is added.
AttachVideoToPeers(f, t, scr) ==
  LET attach(pc) == LET i == SelectInSeq(pc.vid, LAMBDA x : x = 0)
                    IN  IF i # 0 THEN [pc EXCEPT !.vid = ReplaceAt(@, i, t)]
                        ELSE [pc EXCEPT !.vid = Append(@, t), !.ready = FALSE]
  IN  Applied([p \in DOMAIN f |-> attach(f[p])], scr)
AttachScreenAudioToPeers(f, t) == [p \in DOMAIN f |-> [f[p] EXCEPT !.aud = Append(@, t)]]
\* removeTrack: the sender stays, without a track.
WithoutSound(f) ==
  [p \in DOMAIN f |-> [f[p] EXCEPT !.aud = [i \in DOMAIN @ |-> IF @[i] = sound THEN 0 ELSE @[i]]]]

\* Mutated form: a late joiner is not sent the sound of a screen shared already.
CreatePCWithoutSound ==
  [aud |-> InOrder(Owned(local, {"mic"})), vid |-> InOrder(Owned(local, Video)),
   ready |-> FALSE, target |-> 0, soft |-> 0, streak |-> 0, scale |-> 0, rate |-> 0, shape |-> 0,
   source |-> FALSE, stressed |-> FALSE, low |-> Ceiling(TRUE)]

CreatePC ==
  [aud |-> InOrder(Owned(local, {"mic"})) \o IF local # 0 /\ sound # 0 THEN <<sound>> ELSE <<>>,
   vid |-> InOrder(Owned(local, Video)), ready |-> FALSE,
   target |-> 0, soft |-> 0, streak |-> 0, scale |-> 0, rate |-> 0, shape |-> 0, source |-> FALSE,
   stressed |-> FALSE, low |-> Ceiling(TRUE)]

\* sendMuteState.
Announce(m, cam, scr, lis) ==
  IF InCall THEN [chan |-> chan, muted |-> m \/ lis, video |-> cam, sharing |-> scr] ELSE posture

-----------------------------------------------------------------------------
(* Joining and leaving.                                                    *)

\* leaveVoiceChannel, and endCallLocally on voice.end, a refused join or an
\* empty roster: the peers go at once, the capture after the farewell tone.
HangUp(then) ==
  /\ InCall
  /\ chan' = None /\ roster' = {} /\ pcs' = <<>> /\ posture' = Nothing
  /\ waits' = waits \cup {then}
  /\ UNCHANGED <<gen, local, flags, tracks, motion, mon>>

Leave == Does("leaves") /\ HangUp(Wait("tone", None, FALSE)) /\ UNCHANGED raced

\* joinVoiceChannel up to its first await: leave the other call, or ask the devices.
JoinVoiceChannel(c, video) ==
  /\ chan # c /\ Does("joins")
  /\ IF InCall
     THEN HangUp(Wait("leaving", c, video)) /\ UNCHANGED raced
     ELSE /\ waits' = waits \cup {Wait("join", c, video)}
          /\ camera' = video /\ listen' = FALSE
          /\ RacesIf(Waiting({"join", "leaving"}) # {}, "joins")
          /\ UNCHANGED <<chan, gen, local, muted, screen, sound, tracks, net, posture>>

\* Mutated form: the teardown of a call stops whatever stream is there.
ToneEndsUnguarded(x) ==
  /\ x.op \in {"tone", "leaving"}
  /\ tracks' = Stopped(tracks, Owned(local, {"mic"} \cup Video) \cup ({sound} \ {0}))
  /\ local' = 0 /\ sound' = 0 /\ screen' = FALSE /\ camera' = x.video /\ listen' = FALSE
  /\ waits' = IF x.op = "leaving" THEN (waits \ {x}) \cup {[x EXCEPT !.op = "join"]} ELSE waits \ {x}
  /\ UNCHANGED <<chan, gen, muted, net, posture, limit, raced>>

\* finishTeardown after the delay: stopLocalStream, or, when a new call owns the
\* module's state, only the stream this teardown took down.
ToneEnds(x) ==
  LET mine == x.gen = gen
      more == x.op = "leaving"
  IN  /\ x.op \in {"tone", "leaving"}
      /\ tracks' = Stopped(tracks, IF mine THEN Owned(local, {"mic"} \cup Video) \cup ({sound} \ {0})
                                           ELSE Owned(x.stream, {"mic"} \cup Video))
      /\ local' = (IF mine THEN 0 ELSE local) /\ sound' = (IF mine THEN 0 ELSE sound)
      /\ screen' = (screen /\ ~mine)
      /\ camera' = (IF more THEN x.video ELSE camera /\ ~mine)
      /\ listen' = (listen /\ ~mine /\ ~more)
      /\ waits' = IF more THEN (waits \ {x}) \cup {[x EXCEPT !.op = "join"]} ELSE waits \ {x}
      /\ Races((IF (mine \/ more) /\ Waiting({"join"}) # {} THEN {"early"} ELSE {}) \cup
               (IF more /\ (InCall \/ Waiting({"join"}) # {}) THEN {"joins"} ELSE {}))
      /\ UNCHANGED <<chan, gen, muted, net, posture, limit>>

\* Mutated form: the fallback to the microphone alone leaves cameraEnabled set.
CameraAsAsked(x, got) == camera

\* acquireJoinStream: what is left of cameraEnabled.
CameraGot(x, got) == camera /\ (got = "both" \/ (got = "mic" /\ ~x.video))

\* acquireJoinStream answers and the join completes.
JoinGets(x, got) ==
  LET s == Len(tracks) + 1
      cam == CameraGot(x, got)
  IN  /\ x.op = "join" /\ (got # "both" \/ x.video)
      /\ tracks' = tracks \o CASE got = "both" -> <<Track("mic", ~muted, s), Track("camera", TRUE, s)>>
                               [] got = "mic" -> <<Track("mic", ~muted, s)>>
                               [] got = "none" -> <<>>
      /\ local' = (IF got = "none" THEN 0 ELSE s)
      /\ camera' = cam /\ listen' = (listen \/ got = "none")
      /\ chan' = x.to /\ gen' = gen + 1 /\ roster' = {}
      /\ posture' = [chan |-> x.to, muted |-> muted \/ listen', video |-> cam, sharing |-> screen]
      /\ waits' = waits \ {x}
      /\ Races((IF InCall THEN {"joins"} ELSE {}) \cup (IF screen \/ sound # 0 THEN {"rejoin"} ELSE {}))
      /\ UNCHANGED <<muted, screen, sound, pcs, motion, mon, limit>>

-----------------------------------------------------------------------------
(* The toggles.                                                            *)

SetVoiceMuted(m) ==
  /\ Does("mutes") /\ muted # m /\ muted' = m
  /\ tracks' = Enabled(tracks, Owned(local, {"mic"}), ~m)
  /\ posture' = Announce(m, camera, screen, listen)
  /\ UNCHANGED <<chan, gen, local, camera, screen, listen, sound, net, waits, raced>>

Capturing == local # 0 /\ InCall
\* A device answers: is the stream that asked still the current one, and in a call?
Answered(x) == CASE x.stream # local -> {"late"} [] x.stream = local /\ ~InCall -> {"left"} [] OTHER -> {}
Overlaps == Waiting({"first", "restore", "switch", "display"}) # {}

\* setCameraEnabled up to its first await.
SetCameraEnabled(on) ==
  LET mic == FirstOf(Owned(local, {"mic"}))
      vids == Owned(local, Video)
  IN  /\ Capturing
      /\ \/ /\ on /\ screen
            /\ waits' = waits \cup {Wait("switch", None, FALSE)}
            /\ UNCHANGED <<tracks, camera, posture>>
         \/ /\ on /\ ~screen /\ vids = {}
            /\ tracks' = Stopped(tracks, {mic} \ {0})
            /\ waits' = waits \cup {Wait("first", None, FALSE)}
            /\ UNCHANGED <<camera, posture>>
         \/ /\ ~(on /\ screen) /\ vids # {}
            /\ tracks' = Enabled(tracks, vids, on) /\ camera' = on
            /\ posture' = Announce(muted, on, screen, listen)
            /\ UNCHANGED waits
         \/ /\ ~on /\ vids = {}
            /\ posture' = Announce(muted, camera, screen, listen)
            /\ UNCHANGED <<waits, tracks, camera>>
      /\ UNCHANGED <<chan, gen, local, muted, screen, listen, sound, net>>

CameraClick ==
  /\ Does("toggles") /\ SetCameraEnabled(screen \/ ~camera)
  /\ RacesIf(Overlaps, "overlap")

\* voice.join_denied with video_full.
VideoFull ==
  /\ Does("toggles") /\ SetCameraEnabled(FALSE)
  /\ RacesIf(Overlaps, "overlap")

\* Mutated form: the microphone of the new session comes unmuted.
FirstGetsUnmuted(x) ==
  LET a == Len(tracks) + 1
  IN  /\ x.op = "first" /\ local # 0
      /\ tracks' = tracks \o <<Track("mic", TRUE, local), Track("camera", TRUE, local)>>
      /\ pcs' = AttachVideoToPeers(WithAudio(pcs, a), a + 1, screen)
      /\ camera' = TRUE /\ posture' = Announce(muted, TRUE, screen, listen)
      /\ waits' = waits \ {x}
      /\ UNCHANGED <<chan, gen, local, muted, screen, listen, sound, roster, motion, mon, limit, raced>>

\* The combined capture of the first enable answers, in whatever call there is now.
FirstGets(x) ==
  LET a == Len(tracks) + 1
  IN  /\ x.op = "first"
      /\ tracks' = tracks \o <<Track("mic", ~muted, local), Track("camera", TRUE, local)>>
      /\ IF local = 0 THEN UNCHANGED <<pcs, camera, posture>>
         ELSE /\ pcs' = AttachVideoToPeers(WithAudio(pcs, a), a + 1, screen)
              /\ camera' = TRUE /\ posture' = Announce(muted, TRUE, screen, listen)
      /\ waits' = waits \ {x} /\ Races(Answered(x))
      /\ UNCHANGED <<chan, gen, local, muted, screen, listen, sound, roster, motion, mon, limit>>

\* It fails, and the microphone it released is asked for again.
FirstFails(x) ==
  /\ x.op = "first" /\ waits' = (waits \ {x}) \cup {[x EXCEPT !.op = "restore"]}
  /\ UNCHANGED <<chan, gen, local, flags, tracks, net, posture, limit, raced>>

RestoreGets(x, ok) ==
  /\ x.op = "restore" /\ waits' = waits \ {x}
  /\ tracks' = IF ok THEN Append(tracks, Track("mic", ~muted, local)) ELSE tracks
  /\ pcs' = IF ok /\ local # 0 THEN WithAudio(pcs, Len(tracks) + 1) ELSE pcs
  /\ Races((IF ok THEN {} ELSE {"deaf"}) \cup Answered(x))
  /\ UNCHANGED <<chan, gen, local, flags, roster, motion, mon, posture, limit>>

\* The camera alone answers and takes the place of the screen.
SwitchGets(x, ok) ==
  LET t == Len(tracks) + 1
      old == {FirstOf(Owned(local, Video)), sound} \ {0}
  IN  /\ x.op = "switch" /\ waits' = waits \ {x}
      /\ Races(IF ok THEN Answered(x) ELSE {})
      /\ IF ok THEN tracks' = Append(IF local = 0 THEN tracks ELSE Stopped(tracks, old), Track("camera", TRUE, local))
               ELSE UNCHANGED tracks
      /\ IF ok /\ local # 0
         THEN /\ pcs' = Applied(ResetScales(WithoutSound(WithVideo(pcs, t))), FALSE)
              /\ screen' = FALSE /\ camera' = TRUE /\ sound' = 0 /\ motion' = Still
              /\ posture' = Announce(muted, TRUE, FALSE, listen)
         ELSE UNCHANGED <<pcs, screen, camera, sound, motion, posture>>
      /\ UNCHANGED <<chan, gen, local, muted, listen, roster, mon, limit>>

\* setScreenShareEnabled(false), after the tracks of `ended` have ended by themselves.
ShareOff(ended) ==
  LET old == {FirstOf(Owned(local, Video)), sound} \ {0}
  IN  /\ tracks' = Stopped(tracks, old \cup ended)
      /\ pcs' = ResetScales(WithoutSound(WithVideo(pcs, 0)))
      /\ screen' = FALSE /\ camera' = FALSE /\ sound' = 0 /\ motion' = Still
      /\ posture' = Announce(muted, FALSE, FALSE, listen)

ShareClick ==
  /\ Does("toggles") /\ Capturing
  /\ IF screen THEN ShareOff({}) /\ UNCHANGED waits
               ELSE /\ waits' = waits \cup {Wait("display", None, FALSE)}
                    /\ UNCHANGED <<tracks, pcs, screen, camera, sound, motion, posture>>
  /\ RacesIf(Overlaps, "overlap")
  /\ UNCHANGED <<chan, gen, local, muted, listen, roster, mon>>

\* screenTrack.onended: the browser's own control stops the capture.
ScreenEnds(i) ==
  /\ Does("toggles") /\ tracks[i].kind = "screen" /\ tracks[i].live
  /\ IF Capturing THEN ShareOff({i})
     ELSE tracks' = Stopped(tracks, {i}) /\ UNCHANGED <<pcs, screen, camera, sound, motion, posture>>
  /\ RacesIf(Overlaps, "overlap")
  /\ UNCHANGED <<chan, gen, local, muted, listen, roster, mon, waits>>

\* The picker answers: the screen, with or without sound, or a cancel.
DisplayGets(x, got) ==
  LET t == Len(tracks) + 1
      old == FirstOf(Owned(local, Video))
      new == IF got = "sound" THEN <<Track("screen", TRUE, local), Track("sound", TRUE, 0)>>
                              ELSE <<Track("screen", TRUE, local)>>
      seen == IF old # 0 THEN WithVideo(pcs, t) ELSE AttachVideoToPeers(pcs, t, screen)
  IN  /\ x.op = "display" /\ waits' = waits \ {x}
      /\ Races(IF got # "cancel" THEN Answered(x) ELSE {})
      /\ IF got = "cancel" \/ local = 0
         THEN /\ tracks' = IF got = "cancel" THEN tracks ELSE tracks \o new
              /\ UNCHANGED <<pcs, screen, camera, sound, motion, posture>>
         ELSE LET gone == {old} \cup IF got = "sound" THEN {sound} ELSE {}
              IN  /\ tracks' = Stopped(tracks, gone \ {0}) \o new
                  /\ pcs' = ResetScales(IF got = "sound" THEN AttachScreenAudioToPeers(WithoutSound(seen), t + 1) ELSE seen)
                  /\ sound' = (IF got = "sound" THEN t + 1 ELSE sound)
                  /\ screen' = TRUE /\ camera' = TRUE /\ motion' = Still
                  /\ posture' = Announce(muted, TRUE, TRUE, listen)
      /\ UNCHANGED <<chan, gen, local, muted, listen, roster, mon, limit>>

-----------------------------------------------------------------------------
(* The roster, and the congestion monitor.                                 *)

\* onVoiceState: connections to who is new, none to who is gone, every sender
\* shaped for the new size.
OnVoiceState(others) ==
  /\ InCall /\ Does("rosters") /\ others # roster
  /\ roster' = others
  /\ pcs' = LET open == [p \in others |-> IF p \in DOMAIN pcs THEN pcs[p] ELSE CreatePC]
            IN  [p \in others |-> ApplyVideoBitrateCaps(open[p], Cardinality(others) + 1, screen, motion.active)]
  /\ RacesIf(others \ DOMAIN pcs # {} /\ Waiting({"first", "restore"}) # {}, "newcomer")
  /\ UNCHANGED <<chan, gen, local, flags, tracks, motion, mon, posture, waits>>

\* An offer/answer exchange completes, or the connection comes up.
Negotiated(p) ==
  /\ pcs' = [pcs EXCEPT ![p] = ApplyVideoBitrateCaps([@ EXCEPT !.ready = TRUE], Members, screen, motion.active)]
  /\ pcs' # pcs
  /\ UNCHANGED <<chan, gen, local, flags, tracks, roster, motion, mon, posture, waits, limit, raced>>

MonitorStarts ==
  /\ InCall /\ mon = Idle /\ Does("ticks")
  /\ mon' = [Idle EXCEPT !.ceiling = BitrateCapFor(Members, screen)]
  /\ UNCHANGED <<chan, gen, local, flags, tracks, roster, pcs, motion, posture, waits, raced>>

\* getStats answers for one peer: the ceiling is the one of the run's start.
MonitorSample(p, r) ==
  LET pc == pcs[p]
      streak == IF UplinkStressed(r) THEN 0 ELSE Min({pc.streak + 1, ClimbAfter})
      prev == IF pc.target = 0 THEN mon.ceiling ELSE pc.target
      soft == SoftCeilingFor(pc.soft, mon.ceiling, prev, r, streak, screen)
      next == CongestionTarget(prev, Min({mon.ceiling, soft}), r, streak, screen)
      now == [pc EXCEPT !.streak = streak, !.soft = soft, !.target = next,
                        !.stressed = @ \/ r.linkBad, !.low = Min({@, mon.ceiling})]
      sends == pc.ready /\ \E i \in DOMAIN pc.vid : pc.vid[i] # 0
  IN  /\ mon # Idle /\ p \in DOMAIN pcs \ mon.seen
      /\ IF sends
         THEN /\ mon' = [mon EXCEPT !.seen = @ \cup {p}, !.fps = Max({@, r.fps})]
              /\ pcs' = [pcs EXCEPT ![p] =
                           IF next = pc.target THEN now
                           ELSE ApplyVideoBitrateCaps(now, Members, screen, motion.active)]
         ELSE mon' = [mon EXCEPT !.seen = @ \cup {p}] /\ UNCHANGED pcs
      /\ UNCHANGED <<chan, gen, local, flags, tracks, roster, motion, posture, waits, limit, raced>>

\* All peers sampled: the motion latch, one for every peer.
MonitorEnds ==
  LET next == IF screen THEN DetectScreenMotion(motion, mon.fps) ELSE motion
  IN  /\ mon # Idle /\ DOMAIN pcs \subseteq mon.seen /\ mon' = Idle /\ motion' = next
      /\ pcs' = IF next.active = motion.active THEN pcs
                ELSE [p \in DOMAIN pcs |-> ApplyVideoBitrateCaps(pcs[p], Members, screen, next.active)]
      /\ UNCHANGED <<chan, gen, local, flags, tracks, roster, posture, waits, limit, raced>>

Capture ==
  \/ Leave \/ CameraClick \/ VideoFull \/ ShareClick \/ MonitorStarts \/ MonitorEnds
  \/ \E c \in Chan, video \in BOOLEAN : JoinVoiceChannel(c, video)
  \/ \E m \in BOOLEAN : SetVoiceMuted(m)
  \/ \E i \in DOMAIN tracks : ScreenEnds(i)
  \/ \E S \in SUBSET Peer : OnVoiceState(S)
  \/ \E p \in DOMAIN pcs : Negotiated(p) \/ \E r \in Reports : MonitorSample(p, r)
  \/ \E x \in waits :
       \/ ToneEnds(x) \/ FirstGets(x) \/ FirstFails(x)
       \/ \E got \in {"both", "mic", "none"} : JoinGets(x, got)
       \/ \E ok \in BOOLEAN : RestoreGets(x, ok) \/ SwitchGets(x, ok)
       \/ \E got \in {"cancel", "picture", "sound"} : DisplayGets(x, got)

-----------------------------------------------------------------------------
(* What must be true. `raced` holds the cases in which the code loses it,  *)
(* each named where it happens: "joins" (a join starts while another waits *)
(* for the devices), "early" (an old call's tone ends while a join waits), *)
(* "rejoin" (a join completes before the tone of a call that was sharing), *)
(* "late" (a device answers after its stream was replaced or released),    *)
(* "left" (it answers in the tone of the call that was left meanwhile),    *)
(* "overlap" (a toggle while another waits), "deaf" (the microphone could  *)
(* not be had back), "newcomer" (a peer arrives while the camera's capture *)
(* is awaited).                                                            *)

Spared(cases) == raced \cap cases = {}
Hears(p) == {t \in Range(pcs[p].aud) : t # 0}
Sees(p) == {t \in Range(pcs[p].vid) : t # 0}

\* Muted, no peer is sent a microphone that captures, whatever stream, toggle or
\* restored capture its track came from (voice.js setVoiceMuted, setCameraEnabled,
\* acquireJoinStream, createPC).
MutedIsSilent ==
  muted /\ Spared({"joins"}) =>
    \A p \in DOMAIN pcs : \A t \in Hears(p) : tracks[t].kind = "mic" /\ tracks[t].live => ~tracks[t].on

\* Once nothing is awaited every peer is sent exactly the tracks of the current
\* stream and the screen's sound, those who joined amid a toggle included
\* (voice.js createPC, attachVideoToPeers, setCameraEnabled, setScreenShareEnabled).
PeersGetStream ==
  waits = {} /\ Capturing /\ Spared({"joins", "rejoin", "late", "overlap", "deaf", "newcomer"}) =>
    \A p \in DOMAIN pcs : Hears(p) = Owned(local, {"mic"}) \cup ({sound} \ {0}) /\ Sees(p) = Owned(local, Video)

\* Once nothing is awaited, what the server was told (muted, video, sharing) is
\* what the call's stream captures (voice.js sendMuteState and its callers).
PostureTrue ==
  waits = {} /\ InCall /\ Spared({"joins", "early", "rejoin", "late", "left", "overlap", "deaf"}) =>
    posture = [chan |-> chan,
               muted |-> ~\E i \in Owned(local, {"mic"}) : tracks[i].live /\ tracks[i].on,
               video |-> \E i \in Owned(local, Video) : tracks[i].live /\ tracks[i].on,
               sharing |-> \E i \in Owned(local, {"screen"}) : tracks[i].live]

\* No device is left capturing: a live track is the current stream's or the
\* screen's sound, in a call or until its tone has ended, or belongs to a stream
\* that a pending teardown will stop (voice.js finishTeardown, stopLocalStream,
\* setScreenShareEnabled, and every await for a device).
CaptureHeld ==
  Spared({"joins", "late", "overlap", "rejoin"}) =>
    \A i \in DOMAIN tracks : tracks[i].live =>
      \/ (i = sound \/ (tracks[i].in = local /\ local # 0)) /\ (InCall \/ \E x \in Waiting({"tone", "leaving"}) : x.gen = gen)
      \/ tracks[i].in # 0 /\ \E x \in Waiting({"tone", "leaving"}) : x.gen # gen /\ x.stream = tracks[i].in

Fits(pc, seen) ==
  pc.ready /\ seen # {} /\ pc.rate # 0 =>
    /\ pc.source => screen
    /\ pc.rate <= BitrateCapFor(Members, screen)
    /\ pc.source = screen => pc.shape >= VideoScaleForTarget(pc.rate, screen)
LearnsFromLink(pc) == pc.stressed \/ pc.soft = 0 \/ pc.soft >= pc.low

\* A video sender never gets more than its share of the roster's budget nor a
\* finer picture than its rate affords; only a camera's shape may outlive its
\* source, for a screen that took its place. And a link that never lost packets
\* nor slowed down has not learned a ceiling under the smallest budget it was
\* sampled with: a busy encoder teaches none (voice.js applyVideoBitrateCaps and
\* its callers, monitorCongestion, softCeilingFor).
ShapeFits ==
  /\ Spared({"overlap", "late", "joins"}) => \A p \in DOMAIN pcs : Fits(pcs[p], Sees(p))
  /\ \A p \in DOMAIN pcs : LearnsFromLink(pcs[p])
=============================================================================
