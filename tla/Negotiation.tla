----------------------------- MODULE Negotiation ----------------------------
(***************************************************************************)
(* Perfect Negotiation between two participants of a call: who offers,     *)
(* who gives way when offers cross, and how a track that a discarded offer *)
(* carried is offered again (sendOffer, maybeRenegotiate, onOffer,         *)
(* onAnswer and doIceRestart of voice.js).                                 *)
(*                                                                         *)
(* Peer 1 has the lower user id: it makes the first offer and is the       *)
(* impolite one. Frames travel through the server in order and are handled *)
(* one at a time (signalChain), but negotiationneeded and the restart      *)
(* timer run in between. The browser's RTCPeerConnection is external: its  *)
(* signaling state, the tracks each description sends (one m-line per kind *)
(* of track), implicit rollback, and negotiationneeded, which is raised    *)
(* once for each time the connection is stable with something to           *)
(* negotiate, and possibly not at all after a rollback.                    *)
(*                                                                         *)
(* Abstracted: the microphone (in every description), ICE candidates,      *)
(* codecs and bitrates; giving up after MAX_ICE_RESTARTS; lost frames; a   *)
(* second restart begun while the offer of the first is being made.        *)
(***************************************************************************)
EXTENDS Naturals, FiniteSets, Sequences

CONSTANTS
  Kind,         \* kinds of track besides the microphone
  Removable,    \* those that are removed when they end; a camera's is only muted
  MaxToggles,   \* bound: tracks added or removed by both users together
  MaxTroubles,  \* bound: times the network breaks the transport
  MaxRestarts   \* bound: ICE restarts in all

ASSUME RemovableAssumption == Removable \subseteq Kind
ASSUME TogglesAssumption == MaxToggles \in Nat
ASSUME TroublesAssumption == MaxTroubles \in Nat
ASSUME RestartsAssumption == MaxRestarts \in Nat

Peer == {1, 2}
Other(k) == 3 - k

Polite(k) == k > Other(k)       \* politeFor
Offerer(k) == k < Other(k)      \* isOfferer

VARIABLES
  local,      \* peer -> kinds of track it wants to send
  pc,         \* peer -> whether it has an RTCPeerConnection to the other
  sig,        \* peer -> signalingState
  remote,     \* peer -> whether it has a remoteDescription
  lines,      \* peer -> kinds with an m-line in the negotiated session
  sends,      \* peer -> kinds it is negotiated to send
  hears,      \* peer -> kinds it is negotiated to receive
  offered,    \* peer -> its offer that is not answered yet
  raised,     \* peer -> negotiationneeded was raised since it is stable
  chain,      \* peer -> the offers being made: its connection's queue of operations
  making,     \* peer -> makingOffer
  pending,    \* peer -> renegotiatePending
  handler,    \* peer -> the frame its signal chain is at
  inbox,      \* peer -> frames under way to it
  ice,        \* peer -> the ICE generation its transport stands on
  gens,       \* number of generations gathered so far
  valid,      \* the first generation gathered since the last trouble
  restarts,   \* ICE restarts so far
  toggles, troubles

conn == <<pc, sig, remote, lines, sends, hears, offered, raised>>
code == <<chain, making, pending, handler>>
link == <<ice, gens, valid, restarts, troubles>>
vars == <<local, conn, code, inbox, link, toggles>>

Descriptions ==
  [type : {"offer", "answer"}, ice : Nat, lines : SUBSET Kind, sends : SUBSET Kind]
Description(type, gen, ls, ss) == [type |-> type, ice |-> gen, lines |-> ls, sends |-> ss]
NoDescription == Description("offer", 0, {}, {})

Stages == {"idle", "initial", "setOffer", "setAnswer"}
Idle == [at |-> "idle", frame |-> NoDescription, rolled |-> FALSE]

Init ==
  /\ local \in [Peer -> SUBSET Kind]
  /\ pc = [k \in Peer |-> FALSE] /\ remote = [k \in Peer |-> FALSE]
  /\ sig = [k \in Peer |-> "stable"]
  /\ lines = [k \in Peer |-> {}] /\ sends = [k \in Peer |-> {}]
  /\ hears = [k \in Peer |-> {}]
  /\ offered = [k \in Peer |-> NoDescription]
  /\ raised = [k \in Peer |-> FALSE]
  /\ chain = [k \in Peer |-> <<>>] /\ making = [k \in Peer |-> FALSE]
  /\ pending = [k \in Peer |-> FALSE]
  /\ handler = [k \in Peer |-> Idle]
  /\ inbox = [k \in Peer |-> <<>>]
  /\ ice = [k \in Peer |-> 0] /\ gens = 1 /\ valid = 1
  /\ toggles = 0 /\ restarts = 0 /\ troubles = 0

-----------------------------------------------------------------------------
(* Users: a camera or a share's audio is added to the peer connection, a   *)
(* share's audio is removed from it.                                       *)

Toggle(k, kind, on) ==
  /\ toggles < MaxToggles /\ toggles' = toggles + 1
  /\ on # (kind \in local[k])
  /\ on \/ kind \in Removable
  /\ local' = [local EXCEPT ![k] = IF on THEN @ \cup {kind} ELSE @ \ {kind}]
  /\ raised' = [raised EXCEPT ![k] = FALSE]
  /\ UNCHANGED <<pc, sig, remote, lines, sends, hears, offered, code, inbox, link>>

-----------------------------------------------------------------------------
(* Offers.                                                                 *)

\* An offer is begun: makingOffer, and its operations are queued. (Two can be
\* under way, and the first to end clears makingOffer.)
Begin(k, why) ==
  /\ chain' = [chain EXCEPT ![k] = Append(@, why)]
  /\ making' = [making EXCEPT ![k] = TRUE]

AtHead(k, why) == chain[k] # <<>> /\ Head(chain[k]) = why

End(k) ==
  /\ chain' = [chain EXCEPT ![k] = Tail(@)]
  /\ making' = [making EXCEPT ![k] = FALSE]

\* setLocalDescription(offer) and the frame: every kind with an m-line or a
\* track to send. It replaces an offer that is still out.
Offer(k, gen) ==
  LET d == Description("offer", gen, lines[k] \cup local[k], local[k])
  IN  /\ sig' = [sig EXCEPT ![k] = "have-local-offer"]
      /\ offered' = [offered EXCEPT ![k] = d]
      /\ inbox' = [inbox EXCEPT ![Other(k)] = Append(@, d)]

\* onVoiceState lists the other: createPC, and the offerer starts on the first
\* offer while the signal chain waits.
Meet(k) ==
  /\ ~pc[k] /\ handler[k].at = "idle"
  /\ pc' = [pc EXCEPT ![k] = TRUE]
  /\ IF Offerer(k)
       THEN /\ Begin(k, "initial")
            /\ handler' = [handler EXCEPT ![k].at = "initial"]
       ELSE UNCHANGED <<chain, making, handler>>
  /\ UNCHANGED <<local, sig, remote, lines, sends, hears, offered, raised, pending,
                 inbox, toggles, link>>

\* ... which is made and sent.
FirstOffer(k) ==
  /\ AtHead(k, "initial") /\ End(k)
  /\ Offer(k, gens)
  /\ handler' = [handler EXCEPT ![k] = Idle]
  /\ UNCHANGED <<local, pc, remote, lines, sends, hears, raised, pending, toggles, link>>

\* The browser raises negotiationneeded in a stable connection with nothing
\* queued, at either peer: whoever adds the track must be the one to offer.
Needs(k) ==
  /\ pc[k] /\ sig[k] = "stable" /\ ~raised[k] /\ local[k] # sends[k]
  /\ chain[k] = <<>> /\ handler[k].at = "idle"

\* sendOffer ignores it until the first offer was answered, and otherwise
\* begins to make an offer.
NegotiationNeeded(k) ==
  /\ Needs(k)
  /\ raised' = [raised EXCEPT ![k] = TRUE]
  /\ IF remote[k]
       THEN /\ Begin(k, "reneg")
            /\ pending' = [pending EXCEPT ![k] = FALSE]
       ELSE UNCHANGED <<chain, making, pending>>
  /\ UNCHANGED <<local, pc, sig, remote, lines, sends, hears, offered, handler,
                 inbox, toggles, link>>

\* sendOffer goes on when setLocalDescription has run.
SendOffer(k) ==
  /\ AtHead(k, "reneg") /\ End(k)
  /\ Offer(k, IF sig[k] = "have-local-offer" THEN offered[k].ice ELSE ice[k])
  /\ UNCHANGED <<local, pc, remote, lines, sends, hears, raised, pending, handler,
                 toggles, link>>

\* Both transports stand on one generation that no trouble has outdated.
Up == ice[1] = ice[2] /\ ice[1] >= valid
Connecting == \E k \in Peer : ~remote[k]

\* The network breaks the transport: only a new generation mends it.
Trouble ==
  /\ troubles < MaxTroubles /\ troubles' = troubles + 1
  /\ Up
  /\ valid' = gens + 1
  /\ UNCHANGED <<local, conn, code, inbox, ice, gens, restarts, toggles>>

\* restartOutcome: the count of restarts is a bound here.
MayRestart == restarts < MaxRestarts

\* reconnectPlan: while the transport is down the offerer has a timer that
\* restarts it; the answerer waits for that.
PlansRestart(k) == Offerer(k) /\ pc[k] /\ ~Up /\ ~Connecting

\* doIceRestart: the timer fires, whatever the signaling state and whatever
\* other offer is being made.
IceRestart(k) ==
  /\ PlansRestart(k)
  /\ MayRestart /\ restarts' = restarts + 1
  /\ \A i \in DOMAIN chain[k] : chain[k][i] # "restart"
  /\ Begin(k, "restart")
  /\ UNCHANGED <<local, conn, pending, handler, inbox, ice, gens, valid, troubles, toggles>>

\* Its createOffer and setLocalDescription run after what is queued before
\* them; with a remote offer to answer they fail, and that is all.
RestartOffer(k) ==
  /\ AtHead(k, "restart") /\ End(k)
  /\ handler[k].at # "setOffer"
  /\ IF sig[k] = "have-remote-offer"
       THEN UNCHANGED <<sig, offered, inbox, gens>>
       ELSE /\ gens' = gens + 1
            /\ Offer(k, gens')
  /\ UNCHANGED <<local, pc, remote, lines, sends, hears, raised, pending, handler,
                 ice, valid, restarts, troubles, toggles>>

-----------------------------------------------------------------------------
(* The signal chain.                                                       *)

Receive(k, type) ==
  /\ handler[k].at = "idle"
  /\ inbox[k] # <<>> /\ Head(inbox[k]).type = type
  /\ inbox' = [inbox EXCEPT ![k] = Tail(@)]

Collision(k) == making[k] \/ sig[k] # "stable"

\* onOffer: the impolite peer ignores an offer that crosses its own.
IgnoreOffer(k) ==
  /\ Receive(k, "offer")
  /\ ~Polite(k) /\ Collision(k)
  /\ UNCHANGED <<local, conn, code, toggles, link>>

\* onOffer takes it, with a new peer connection if need be.
TakeOffer(k) ==
  /\ Receive(k, "offer")
  /\ Polite(k) \/ ~Collision(k)
  /\ pc' = [pc EXCEPT ![k] = TRUE]
  /\ handler' = [handler EXCEPT ![k] =
                   [at |-> "setOffer", frame |-> Head(inbox[k]), rolled |-> FALSE]]
  /\ UNCHANGED <<local, sig, remote, lines, sends, hears, offered, raised, chain, making, pending,
                 toggles, link>>

\* setRemoteDescription(offer), after an offer of ours that is being made; ours
\* is rolled back.
SetOffer(k) ==
  /\ handler[k].at = "setOffer" /\ ~AtHead(k, "reneg")
  /\ sig' = [sig EXCEPT ![k] = "have-remote-offer"]
  /\ remote' = [remote EXCEPT ![k] = TRUE]
  /\ offered' = [offered EXCEPT ![k] = NoDescription]
  /\ handler' = [handler EXCEPT ![k] = [@ EXCEPT !.at = "setAnswer",
                                                 !.rolled = sig[k] = "have-local-offer"]]
  /\ UNCHANGED <<local, pc, lines, sends, hears, raised, chain, making, pending,
                 inbox, toggles, link>>

\* An exchange is complete: what is sent and heard from now on, and what the
\* transport stands on.
Settle(k, d, gen, mine, theirs) ==
  /\ sig' = [sig EXCEPT ![k] = "stable"]
  /\ lines' = [lines EXCEPT ![k] = d.lines]
  /\ sends' = [sends EXCEPT ![k] = mine]
  /\ hears' = [hears EXCEPT ![k] = theirs]
  /\ ice' = [ice EXCEPT ![k] = gen]
  /\ UNCHANGED <<gens, valid, restarts, troubles>>

\* Mutated form: a rolled-back track is forgotten.
HasUnsentLocalTrackNever(k, mine) == FALSE

\* hasUnsentLocalTrack: a track of ours that the exchange just made does not send.
HasUnsentLocalTrack(k, mine) == ~(local[k] \subseteq mine)

\* Mutated form: the debt is not cleared when the offer it asks for is begun.
MaybeRenegotiateAgain(k, owed) ==
  /\ IF owed /\ ~making[k] THEN Begin(k, "reneg") ELSE UNCHANGED <<chain, making>>
  /\ pending' = [pending EXCEPT ![k] = owed]

\* maybeRenegotiate, the connection being stable: owed is the debt as it stands.
MaybeRenegotiate(k, owed) ==
  LET now == owed /\ ~making[k]
  IN  /\ IF now THEN Begin(k, "reneg") ELSE UNCHANGED <<chain, making>>
      /\ pending' = [pending EXCEPT ![k] = owed /\ ~now]

\* setLocalDescription(answer) and the rest of onOffer: a track of ours that
\* the exchange does not send is a debt.
SetAnswer(k) ==
  /\ handler[k].at = "setAnswer"
  /\ LET d    == handler[k].frame
         mine == local[k] \cap d.lines
     IN  /\ Settle(k, d, d.ice, mine, d.sends)
         /\ inbox' = [inbox EXCEPT ![Other(k)] =
                        Append(@, Description("answer", d.ice, d.lines, mine))]
         /\ MaybeRenegotiate(k, pending[k] \/ HasUnsentLocalTrack(k, mine))
  /\ \E lost \in BOOLEAN :
       /\ lost => handler[k].rolled
       /\ raised' = [raised EXCEPT ![k] = lost]
  /\ handler' = [handler EXCEPT ![k] = Idle]
  /\ UNCHANGED <<local, pc, remote, offered, toggles>>

\* onAnswer: not for an offer of ours, or (setRemoteDescription throws) one
\* whose m-lines are not ours.
DropAnswer(k) ==
  /\ Receive(k, "answer")
  /\ sig[k] # "have-local-offer" \/ Head(inbox[k]).lines # offered[k].lines
  /\ UNCHANGED <<local, conn, code, toggles, link>>

\* onAnswer
OnAnswer(k) ==
  /\ Receive(k, "answer")
  /\ sig[k] = "have-local-offer"
  /\ LET d == Head(inbox[k])
     IN  /\ d.lines = offered[k].lines
         /\ Settle(k, d, IF d.ice = offered[k].ice THEN d.ice ELSE 0, offered[k].sends, d.sends)
  /\ remote' = [remote EXCEPT ![k] = TRUE]
  /\ offered' = [offered EXCEPT ![k] = NoDescription]
  /\ raised' = [raised EXCEPT ![k] = FALSE]
  /\ MaybeRenegotiate(k, pending[k])
  /\ UNCHANGED <<local, pc, handler, toggles>>

-----------------------------------------------------------------------------
Step(k) ==
  \/ Meet(k) \/ FirstOffer(k)
  \/ NegotiationNeeded(k) \/ SendOffer(k) \/ RestartOffer(k)
  \/ IgnoreOffer(k) \/ TakeOffer(k) \/ SetOffer(k) \/ SetAnswer(k)
  \/ DropAnswer(k) \/ OnAnswer(k)
  \/ IceRestart(k)

Next ==
  \/ Trouble
  \/ \E k \in Peer, kind \in Kind, on \in BOOLEAN : Toggle(k, kind, on)
  \/ \E k \in Peer : Step(k)

Spec == Init /\ [][Next]_vars

FairSpec == Spec /\ \A k \in Peer : WF_vars(Step(k))

-----------------------------------------------------------------------------
\* Neither peer, nor its browser, has anything left to do.
Settled ==
  \A k \in Peer :
    /\ pc[k] /\ inbox[k] = <<>> /\ handler[k].at = "idle" /\ chain[k] = <<>>
    /\ sig[k] = "stable" /\ local[k] # sends[k] => raised[k]

\* No media is lost (voice.js:1995): when the two have settled, each is
\* negotiated to send the tracks it has and the other to receive them, however
\* offers crossed, and neither still owes the other an offer.
TracksFlow ==
  Settled /\ Up => \A k \in Peer : sends[k] = local[k] /\ hears[Other(k)] = local[k] /\ ~pending[k]

\* The peers do not re-offer in lockstep for ever (voice.js:2000).
Settles == <>[]Settled
=============================================================================
