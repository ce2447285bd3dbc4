-------------------------------- MODULE Playout --------------------------------
(***************************************************************************)
(* What one tab hears of its peers (voice.js): which audio element plays   *)
(* which of their streams, at what gain, deafened or not, and who is shown *)
(* speaking. It runs over Media: every step of the call opens and closes   *)
(* the connections, and closePeer takes down what hung on them.            *)
(*                                                                         *)
(* The peer is external: it sends its microphone on one stream and each    *)
(* share's sound on a new one, and an exchange delivers them in the order  *)
(* of their m-lines. A peer that joined without a microphone is the named  *)
(* case "mute": the first stream heard of it is taken for its voice. Left  *)
(* out: video elements, localStorage, the analyser (a meter finds its user *)
(* speaking or silent), our own meter.                                     *)
(***************************************************************************)
EXTENDS Media

VARIABLES
  sent,          \* per connection: the streams delivered, voice and share, 0 for none
  streams,       \* bound and ids: streams each peer has made so far
  voiceStreamIds, audioEls, screenAudioEls, \* as the Maps of voice.js
  meters,        \* meters: whether their user was last found speaking
  speakingIds,   \* voiceui: who is shown speaking
  volumes, screenVolumes, deafened

els == <<voiceStreamIds, audioEls, screenAudioEls, meters, speakingIds>>
gains == <<volumes, screenVolumes, deafened>>
vars == <<media, sent, streams, els, gains>>

Init ==
  /\ MediaInit /\ sent = <<>> /\ streams = [p \in Peer |-> 0]
  /\ voiceStreamIds = <<>> /\ audioEls = <<>> /\ screenAudioEls = <<>> /\ meters = <<>> /\ speakingIds = {}
  /\ volumes = [p \in Peer |-> 1] /\ screenVolumes = [p \in Peer |-> 1] /\ deafened = FALSE

Without(f, S) == [p \in DOMAIN f \ S |-> f[p]]
With(f, p, x) == [q \in DOMAIN f \cup {p} |-> IF q = p THEN x ELSE f[q]]

\* removeMeter: a highlight that is on goes with it.
RemoveMeters(S) ==
  /\ meters' = Without(meters, S)
  /\ speakingIds' = speakingIds \ {p \in DOMAIN meters \cap S : meters[p]}

\* addMeter: a meter anew, its user silent so far, and any prior meter's highlight gone.
AddMeter(p) ==
  /\ meters' = With(meters, p, FALSE)
  /\ speakingIds' = speakingIds \ {q \in DOMAIN meters \cap {p} : meters[q]}

\* Mutated form: which stream was the voice is remembered for the next connection.
ClosePeersKeepVoice(S) ==
  /\ audioEls' = Without(audioEls, S) /\ screenAudioEls' = Without(screenAudioEls, S)
  /\ UNCHANGED voiceStreamIds /\ RemoveMeters(S)
\* closePeer.
ClosePeers(S) ==
  /\ audioEls' = Without(audioEls, S) /\ screenAudioEls' = Without(screenAudioEls, S)
  /\ voiceStreamIds' = Without(voiceStreamIds, S) /\ RemoveMeters(S)

\* A step of the call, with the connections it opens and closes.
Call ==
  /\ Capture /\ ClosePeers(DOMAIN pcs \ DOMAIN pcs')
  /\ sent' = [p \in DOMAIN pcs' |-> IF p \in DOMAIN sent THEN sent[p] ELSE [voice |-> 0, share |-> 0]]
  /\ UNCHANGED <<streams, gains>>

-----------------------------------------------------------------------------
Delivers(p) ==
  /\ p \in DOMAIN pcs /\ Does("hears")
  /\ UNCHANGED <<chan, gen, local, flags, tracks, net, posture, waits>>

\* ontrack: the first audio stream of a connection is the voice, any other the
\* share's; an element there is bound anew, else one is made.
OnTrack(p, stream) ==
  LET first == IF p \in DOMAIN voiceStreamIds THEN voiceStreamIds[p] ELSE stream
      bound(them, gain) == With(them, p, IF p \in DOMAIN them THEN [them[p] EXCEPT !.plays = stream]
                                         ELSE [plays |-> stream, muted |-> deafened, volume |-> gain[p]])
  IN
  /\ voiceStreamIds' = With(voiceStreamIds, p, first)
  /\ IF stream = first
       THEN audioEls' = bound(audioEls, volumes) /\ UNCHANGED screenAudioEls /\ AddMeter(p)
       ELSE screenAudioEls' = bound(screenAudioEls, screenVolumes) /\ UNCHANGED <<audioEls, meters, speakingIds>>

\* The peer's microphone is delivered, or the sound of a new share.
VoiceArrives(p) ==
  /\ Delivers(p) /\ sent[p].voice = 0
  /\ streams' = [streams EXCEPT ![p] = @ + 1] /\ sent' = [sent EXCEPT ![p].voice = streams'[p]]
  /\ sent[p].share = 0 /\ OnTrack(p, streams'[p])
  /\ UNCHANGED <<raced, gains>>
ShareArrives(p) ==
  /\ Delivers(p) /\ sent[p].share = 0
  /\ streams' = [streams EXCEPT ![p] = @ + 1] /\ sent' = [sent EXCEPT ![p].share = streams'[p]]
  /\ OnTrack(p, streams'[p]) /\ RacesIf(sent[p].voice = 0, "mute")
  /\ UNCHANGED gains

\* The peer stops sharing: removetrack takes the element down (removeScreenAudio),
\* if the stream was known for a share's.
ShareEnds(p) ==
  /\ Delivers(p) /\ sent[p].share # 0 /\ sent' = [sent EXCEPT ![p].share = 0]
  /\ screenAudioEls' = IF voiceStreamIds[p] = sent[p].share THEN screenAudioEls ELSE Without(screenAudioEls, {p})
  /\ UNCHANGED <<raced, streams, voiceStreamIds, audioEls, meters, speakingIds, gains>>

OnSpeaking(p, speaking) == speakingIds' = IF speaking THEN speakingIds \cup {p} ELSE speakingIds \ {p}
PollMeters(p) ==
  /\ Delivers(p) /\ p \in DOMAIN meters
  /\ meters' = [meters EXCEPT ![p] = ~@] /\ OnSpeaking(p, meters'[p])
  /\ UNCHANGED <<raced, sent, streams, voiceStreamIds, audioEls, screenAudioEls, gains>>

-----------------------------------------------------------------------------
Sets == Does("hears") /\ UNCHANGED <<chan, gen, local, flags, tracks, net, posture, waits, raced, sent, streams,
                                      voiceStreamIds, meters, speakingIds>>
Silenced(f, on) == [p \in DOMAIN f |-> [f[p] EXCEPT !.muted = on]]
SetVoiceDeafened(on) ==
  /\ Sets /\ deafened' = on
  /\ audioEls' = Silenced(audioEls, on) /\ screenAudioEls' = Silenced(screenAudioEls, on)
  /\ UNCHANGED <<volumes, screenVolumes>>

AtGain(f, p, v) == IF p \in DOMAIN f THEN [f EXCEPT ![p].volume = v] ELSE f
SetVolumeForUser(p, v) ==
  /\ volumes' = [volumes EXCEPT ![p] = v] /\ audioEls' = AtGain(audioEls, p, v)
  /\ UNCHANGED <<screenAudioEls, screenVolumes, deafened>>
SetScreenVolumeForUser(p, v) ==
  /\ screenVolumes' = [screenVolumes EXCEPT ![p] = v] /\ screenAudioEls' = AtGain(screenAudioEls, p, v)
  /\ UNCHANGED <<audioEls, volumes, deafened>>
HasScreenAudio(p) == p \in DOMAIN screenAudioEls
\* Each member in the call has the first slider, who shares sound the second too.
VolumeSlider(p, v) == Sets /\ p \in roster /\ SetVolumeForUser(p, v)
ScreenVolumeSlider(p, v) == Sets /\ HasScreenAudio(p) /\ SetScreenVolumeForUser(p, v)

Next ==
  \/ Call
  \/ \E p \in Peer : \/ VoiceArrives(p) \/ ShareArrives(p) \/ ShareEnds(p) \/ PollMeters(p)
                     \/ \E v \in {0, 1} : VolumeSlider(p, v) \/ ScreenVolumeSlider(p, v)
  \/ \E on \in BOOLEAN \ {deafened} : SetVoiceDeafened(on)
Spec == Init /\ [][Next]_vars

-----------------------------------------------------------------------------
\* In the gains kept for its user and kind; deafened, silent.
AtGains(them, gain) == \A p \in DOMAIN them : them[p].muted = deafened /\ them[p].volume = gain[p]

\* Every peer's voice plays on its voice element and its share on the other, so
\* that each slider governs what it says, at the gain kept for it, silent when
\* deafened; nobody who has left is still played or shown speaking. Whatever
\* shares, sliders, departures and returns went before (voice.js ontrack,
\* closePeer, removeScreenAudio, removeMeter, setVoiceDeafened). Excused: a peer
\* without a microphone whose share is heard first.
VoiceIsVoice ==
  /\ "mute" \notin raced =>
       /\ [p \in DOMAIN audioEls |-> audioEls[p].plays] =
            [p \in {q \in DOMAIN pcs : sent[q].voice # 0} |-> sent[p].voice]
       /\ [p \in DOMAIN screenAudioEls |-> screenAudioEls[p].plays] =
            [p \in {q \in DOMAIN pcs : sent[q].share # 0} |-> sent[p].share]
       /\ speakingIds \subseteq DOMAIN audioEls
  /\ AtGains(audioEls, volumes) /\ AtGains(screenAudioEls, screenVolumes)
=============================================================================
