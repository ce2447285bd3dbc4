----------------------------- MODULE SecretChat -----------------------------
(***************************************************************************)
(* Secret chat in one direct message: the handshake, the message ratchet   *)
(* and the end of a session (secret.js), the banner and buttons            *)
(* (secretui.js), the relay (handleSecretWSMessage) and the presence that  *)
(* ends a session with a peer who went away (hub.go, app.js).              *)
(*                                                                         *)
(* Everything that awaits is cut there: a click, then what it sets; a      *)
(* frame, then what its handler does when the key is derived or the text   *)
(* decrypted. handleRealtimeEvent does not wait for a handler, so a tab    *)
(* may have several under way. A handler holds on to the session object    *)
(* it started with, which may no longer be the DM's.                       *)
(*                                                                         *)
(* A frame enters the queues of its receivers when it is sent: tabs that   *)
(* send to one receiver do not influence each other but through frames,    *)
(* so a later relay is a later send. One sent on a connection that has     *)
(* died is lost.                                                           *)
(*                                                                         *)
(* Abstracted: a shared secret is the pair of the offer and the tab that   *)
(* accepted it; a text opens under the same secret, direction and position *)
(* in the chain, with the same nonce in its associated data; what it says, *)
(* and the list it is shown in, is left out. So are identity keys that     *)
(* were never published or have changed, and crypto that fails.            *)
(***************************************************************************)
EXTENDS Naturals, Sequences, FiniteSets

CONSTANTS
  Tab,         \* browser tabs
  Low,         \* those of the user with the lower id; the others are the peer's
  MaxOffers,   \* bound: sessions asked for
  MaxTexts,    \* bound: messages written
  MaxFaults,   \* bound: connections lost and pages reloaded
  Limits,      \* bound: the instances a run looks at, each with its tabs and its bounds
  None

ASSUME TabAssumption == Low \subseteq Tab /\ None \notin Tab
ASSUME BoundsAssumption ==
  /\ MaxOffers \in Nat /\ MaxTexts \in Nat /\ MaxFaults \in Nat
  /\ Limits \subseteq [tabs : SUBSET Tab, offers : 0..MaxOffers, texts : 0..MaxTexts, faults : 0..MaxFaults]

Side == {"low", "high"}
Owner(t) == IF t \in Low THEN "low" ELSE "high"
Peer(t) == IF t \in Low THEN "high" ELSE "low"
TabsOf(u) == {t \in Tab : Owner(t) = u}

VARIABLES
  sess,      \* tab -> its session object for the DM
  request,   \* tab -> secretRequestState: the banner asks to accept or decline
  tasks,     \* tab -> handlers that await
  in,        \* tab -> frames under way to it
  up,        \* tabs whose connection is open
  announce,  \* user -> presence changes the server has still to broadcast
  seen,      \* tab -> whether it shows the peer as online
  flip,      \* tab -> a debounced presence change waits
  limit, offers, texts, faults,
  lost,      \* ghost: tabs that lost a connection or were reloaded
  crossed,   \* ghost: up to this one, set-ups that something came across
  overlapped,\* ghost: sessions in which a tab wrote while it was encrypting
  bunched    \* ghost: sessions in which a text came while a key was still at work

session == <<sess, request, tasks>>
presence == <<announce, seen, flip>>
bounds == <<limit, offers, texts, faults>>
ghosts == <<lost, crossed, overlapped, bunched>>
vars == <<session, in, up, presence, bounds, ghosts>>

Offer == 1..MaxOffers
\* A chain key: which secret, whose direction, how often it was stepped.
Chain == [by : Tab, side : Side, step : Nat]
NoChain == [by |-> None, side |-> "low", step |-> 0]
Phase == {"none", "offered", "incoming", "active", "ended"}
Sessions ==
  [phase : Phase, n : Offer \cup {0}, send : Chain \cup {NoChain}, recv : Chain \cup {NoChain},
   sendCounter : Nat, recvNextExpected : Nat]
Wires == [n : Offer, chain : Chain, counter : Nat]
Frames ==
  [type : {"offer"}, n : Offer] \cup [type : {"accept"}, n : Offer, by : Tab]
    \cup [type : {"end", "dismiss"}] \cup [type : {"msg"}, wire : Wires]
    \cup [type : {"presence"}, online : BOOLEAN]
Tasks ==
  [at : {"offer", "accept"}, n : Offer]
    \cup [at : {"verify", "derive", "spent"}, n : Offer, by : Tab, for : Offer]
    \cup [at : {"encrypt"}, n : Offer, chain : Chain, counter : Nat, id : 1..MaxTexts]
    \cup [at : {"decrypt"}, n : Offer, chain : Chain, wire : Wires]
    \cup [at : {"roster"}, online : BOOLEAN]

NoSession ==
  [phase |-> "none", n |-> 0, send |-> NoChain, recv |-> NoChain,
   sendCounter |-> 0, recvNextExpected |-> 0]
\* makeSession
MakeSession(phase, n) == [NoSession EXCEPT !.phase = phase, !.n = n]

Init ==
  /\ sess = [t \in Tab |-> NoSession] /\ request = [t \in Tab |-> FALSE]
  /\ tasks = [t \in Tab |-> {}] /\ in = [t \in Tab |-> <<>>]
  /\ limit \in Limits /\ up = limit.tabs
  /\ announce = [u \in Side |-> [on |-> FALSE, off |-> 0]]
  /\ seen = [t \in Tab |-> TRUE] /\ flip = [t \in Tab |-> FALSE]
  /\ offers = 0 /\ texts = 0 /\ faults = 0
  /\ lost = {} /\ crossed = 0 /\ overlapped = {} /\ bunched = {}

In(t, phases) == sess[t].phase \in phases
\* The DM's session object is still the one a handler started with.
Still(t, task) == ~In(t, {"none"}) /\ sess[t].n = task.n
Put(t, s) == sess' = [sess EXCEPT ![t] = s]
Delete(t) == Put(t, NoSession)
Ask(t, b) == request' = [request EXCEPT ![t] = b]
Add(t, task) == tasks' = [tasks EXCEPT ![t] = @ \cup {task}]
Done(t, task) == tasks' = [tasks EXCEPT ![t] = @ \ {task}]
Await(t, at) == {task \in tasks[t] : task.at = at}

\* handleSecretWSMessage relays to all connections of the other user;
\* an accept also dismisses those of the user it comes from, its own included.
Frame(type) == [type |-> type]
Relay(t, f) ==
  in' = [q \in Tab |->
          IF {t, q} \subseteq up
            THEN IF Owner(q) # Owner(t) THEN Append(in[q], f)
                 ELSE IF f.type = "accept" THEN Append(in[q], Frame("dismiss")) ELSE in[q]
            ELSE in[q]]

-----------------------------------------------------------------------------
(* The buttons (secretui.js).                                              *)

\* Nothing of a handshake or of an end is under way.
Settled ==
  \A t \in Tab :
    /\ \A task \in tasks[t] : task.at \notin {"offer", "accept", "verify", "derive", "spent"}
    /\ \A i \in DOMAIN in[t] : in[t][i].type \notin {"offer", "accept", "end", "dismiss"}
Crosses(b) == crossed' = IF b \/ ~Settled THEN offers' ELSE crossed

ClearEndedSession(t) == IF In(t, {"ended"}) THEN Delete(t) ELSE UNCHANGED sess

\* The lock button: a session that has ended makes way for a new one.
SecretButton(t) ==
  /\ ~In(t, {"active", "offered"}) /\ offers < limit.offers
  /\ offers' = offers + 1
  /\ ClearEndedSession(t)
  /\ Add(t, [at |-> "offer", n |-> offers'])
  /\ Crosses(\E q \in Tab : In(q, {"active", "offered"}) \/ request[q])
  /\ UNCHANGED <<request, in, up, presence, limit, texts, faults, lost, overlapped, bunched>>

\* initiateSecret, when its keys are there. It puts its session in the place of
\* whatever came in meanwhile.
InitiateSecret(t, task) ==
  /\ task \in Await(t, "offer") /\ Done(t, task)
  /\ Put(t, MakeSession("offered", task.n))
  /\ Relay(t, [type |-> "offer", n |-> task.n])
  /\ UNCHANGED <<request, up, presence, bounds, ghosts>>

AcceptButton(t) ==
  /\ request[t] /\ In(t, {"incoming"})
  /\ Ask(t, FALSE) /\ Add(t, [at |-> "accept", n |-> sess[t].n])
  /\ UNCHANGED bounds /\ Crosses(FALSE)
  /\ UNCHANGED <<sess, in, up, presence, lost, overlapped, bunched>>

\* Mutated form: both ends send with the low half.
DeriveSessionKeysUnordered(t, n, by, s) ==
  [s EXCEPT !.phase = "active",
            !.send = [by |-> by, side |-> "low", step |-> 0],
            !.recv = [by |-> by, side |-> "high", step |-> 0]]

\* deriveSessionKeys: the lower user id sends with the low half.
DeriveSessionKeys(t, n, by, s) ==
  [s EXCEPT !.phase = "active",
            !.send = [by |-> by, side |-> Owner(t), step |-> 0],
            !.recv = [by |-> by, side |-> Peer(t), step |-> 0]]

\* acceptSecret, when its keys are there; or the DM could not be opened.
AcceptSecret(t, task) ==
  /\ task \in Await(t, "accept") /\ Done(t, task)
  /\ \/ /\ Put(t, DeriveSessionKeys(t, task.n, t, MakeSession("active", task.n)))
        /\ Relay(t, [type |-> "accept", n |-> task.n, by |-> t])
        /\ Ask(t, FALSE) /\ UNCHANGED crossed
     \/ UNCHANGED <<sess, in, request>> /\ crossed' = offers
  /\ UNCHANGED <<up, presence, bounds, lost, overlapped, bunched>>

\* declineSecret and endSecret: the session goes and every tab of the peer hears.
EndSecret(t) ==
  /\ Delete(t) /\ Ask(t, FALSE) /\ Relay(t, Frame("end"))
  /\ UNCHANGED bounds /\ Crosses(\E q \in TabsOf(Owner(t)) \ {t} : request[q])
  /\ UNCHANGED <<tasks, up, presence, lost, overlapped, bunched>>

\* Declines the request on the banner, or else cancels the offer.
DeclineButton(t) == (request[t] \/ In(t, {"offered"})) /\ EndSecret(t)

\* The safety dialog's.
SafetyEndButton(t) == In(t, {"active"}) /\ EndSecret(t)

ReturnToChat(t) ==
  /\ In(t, {"ended"}) /\ ClearEndedSession(t)
  /\ UNCHANGED <<request, tasks, in, up, presence, bounds, ghosts>>

-----------------------------------------------------------------------------
(* Messages.                                                               *)

\* sendSecretMessage up to encryptMessage, which takes counter and chain as
\* they are; until it returns nothing has changed.
Compose(t) ==
  /\ In(t, {"active"}) /\ texts < limit.texts /\ texts' = texts + 1
  /\ Add(t, [at |-> "encrypt", n |-> sess[t].n, chain |-> sess[t].send,
             counter |-> sess[t].sendCounter, id |-> texts'])
  /\ overlapped' = IF \E task \in Await(t, "encrypt") : task.n = sess[t].n
                     THEN overlapped \cup {sess[t].n} ELSE overlapped
  /\ UNCHANGED <<sess, request, in, up, presence, limit, offers, faults, lost, crossed, bunched>>

Stepped(chain) == [chain EXCEPT !.step = @ + 1]

\* ... and from there: the session moves on and the text is sent.
EncryptMessage(t, task) ==
  /\ task \in Await(t, "encrypt") /\ Done(t, task)
  /\ Put(t, IF Still(t, task)
              THEN [sess[t] EXCEPT !.send = Stepped(task.chain), !.sendCounter = @ + 1]
              ELSE sess[t])
  /\ Relay(t, [type |-> "msg",
               wire |-> [n |-> task.n, chain |-> task.chain, counter |-> task.counter]])
  /\ UNCHANGED <<request, up, presence, bounds, ghosts>>

-----------------------------------------------------------------------------
(* Incoming frames (handleSecretEvent and onSecretEvent).                  *)

Take(t, f) == in[t] # <<>> /\ Head(in[t]) = f /\ in' = [in EXCEPT ![t] = Tail(@)]

\* A crossing offer: the one of the lower user id stands. Any other replaces
\* what session there is.
OnOffer(t, n) ==
  /\ Take(t, [type |-> "offer", n |-> n])
  /\ IF In(t, {"offered"}) /\ Owner(t) = "low"
       THEN UNCHANGED <<sess, request>>
       ELSE Put(t, MakeSession("incoming", n)) /\ Ask(t, TRUE)
  /\ UNCHANGED <<tasks, up, presence, bounds, ghosts>>

\* The frame does not say which offer it accepts: its signature will.
OnAccept(t, n, by) ==
  /\ Take(t, [type |-> "accept", n |-> n, by |-> by])
  /\ IF In(t, {"offered"})
       THEN Add(t, [at |-> "verify", n |-> sess[t].n, by |-> by, for |-> n])
       ELSE UNCHANGED tasks
  /\ UNCHANGED <<sess, request, up, presence, bounds, ghosts>>

\* What an accept's signature is over names the offer.
Signed(task) == task.n = task.for

\* The signature is over the nonce of our offer; the ephemeral key must still be there.
Verify(t, task) ==
  /\ task \in Await(t, "verify")
  /\ Signed(task)
  /\ tasks' = [tasks EXCEPT ![t] = (@ \ {task}) \cup {[task EXCEPT !.at = "derive"]}]
  /\ UNCHANGED <<sess, request, in, up, presence, bounds, ghosts>>

\* A failed handshake deletes the DM's session, whichever that is by now.
VerifyFails(t, task) ==
  /\ task \in Await(t, "verify") \cup Await(t, "spent")
  /\ task.at = "spent" \/ ~Signed(task)
  /\ Done(t, task) /\ Delete(t) /\ Ask(t, FALSE)
  /\ UNCHANGED <<in, up, presence, bounds, ghosts>>

\* The session becomes active and discards its ephemeral key: another accept
\* of it that has not used the key yet will fail.
Derive(t, task) ==
  /\ task \in Await(t, "derive")
  /\ tasks' = [tasks EXCEPT ![t] =
                {IF q.at = "verify" /\ q.n = task.n THEN [q EXCEPT !.at = "spent"] ELSE q :
                   q \in @ \ {task}}]
  /\ Put(t, IF Still(t, task) THEN DeriveSessionKeys(t, task.n, task.by, sess[t]) ELSE sess[t])
  /\ Ask(t, FALSE)
  /\ UNCHANGED <<in, up, presence, bounds, ghosts>>

ReplayOk(s, counter) == counter = s.recvNextExpected

\* replayOk, then decryptMessage with the chain as it is. A text that does not
\* carry the next counter is dropped.
OnMsg(t, wire) ==
  /\ Take(t, [type |-> "msg", wire |-> wire])
  /\ IF In(t, {"active"}) /\ ReplayOk(sess[t], wire.counter)
       THEN Add(t, [at |-> "decrypt", n |-> sess[t].n, chain |-> sess[t].recv, wire |-> wire])
       ELSE UNCHANGED tasks
  /\ bunched' = IF \E task \in tasks[t] : task.at \in {"decrypt", "verify", "derive"}
                  THEN bunched \cup {wire.n} ELSE bunched
  /\ UNCHANGED <<sess, request, up, presence, bounds, lost, crossed, overlapped>>

Opens(task) == task.wire.n = task.n /\ task.wire.chain = task.chain

DecryptMessage(t, task) ==
  /\ task \in Await(t, "decrypt") /\ Done(t, task)
  /\ Put(t, IF Still(t, task) /\ Opens(task)
              THEN [sess[t] EXCEPT !.recv = Stepped(task.chain),
                                   !.recvNextExpected = task.wire.counter + 1]
              ELSE sess[t])
  /\ UNCHANGED <<request, in, up, presence, bounds, ghosts>>

\* secret.end: an active session stays to be read, any other goes.
OnEnd(t) ==
  /\ Take(t, Frame("end"))
  /\ IF In(t, {"active"}) THEN Put(t, [sess[t] EXCEPT !.phase = "ended"]) ELSE Delete(t)
  /\ IF In(t, {"none"}) THEN UNCHANGED request ELSE Ask(t, FALSE)
  /\ UNCHANGED <<tasks, up, presence, bounds, ghosts>>

\* Mutated form: the banner stays.
OnDismissKeepsBanner(t) ==
  /\ Take(t, Frame("dismiss"))
  /\ IF In(t, {"offered"}) THEN Delete(t) ELSE UNCHANGED sess
  /\ UNCHANGED <<request, tasks, up, presence, bounds, ghosts>>

\* secret.dismiss: another tab of the user has accepted.
OnDismiss(t) ==
  /\ Take(t, Frame("dismiss")) /\ Ask(t, FALSE)
  /\ IF In(t, {"offered"}) THEN Delete(t) ELSE UNCHANGED sess
  /\ UNCHANGED <<tasks, up, presence, bounds, ghosts>>

-----------------------------------------------------------------------------
(* Connections and presence.                                               *)

Online(u, open) == \E t \in TabsOf(u) : t \in open
Clears(t) == [in EXCEPT ![t] = <<>>]
\* The user's last connection is gone, or the first is there; the goroutine of
\* each connection broadcasts that for itself.
Leaves(u, open) ==
  announce' = IF Online(u, open) THEN announce ELSE [announce EXCEPT ![u].off = @ + 1]

\* A connection dies; the tab keeps its sessions.
Drop(t) ==
  /\ t \in up /\ ~announce[Owner(t)].on /\ faults < limit.faults /\ faults' = faults + 1
  /\ up' = up \ {t} /\ Leaves(Owner(t), up') /\ in' = Clears(t) /\ lost' = lost \cup {t}
  /\ UNCHANGED <<session, seen, flip, limit, offers, texts, crossed, overlapped, bunched>>

\* sendEndAllOnUnload, and the page with all it knew is gone.
Reload(t) ==
  /\ t \in up /\ ~announce[Owner(t)].on /\ faults < limit.faults /\ faults' = faults + 1
  /\ Delete(t) /\ Ask(t, FALSE) /\ tasks' = [tasks EXCEPT ![t] = {}]
  /\ in' = [q \in Tab |-> IF q = t THEN <<>>
                        ELSE IF In(t, {"active", "offered"}) /\ q \in up /\ Owner(q) # Owner(t)
                               THEN Append(in[q], Frame("end")) ELSE in[q]]
  /\ flip' = [flip EXCEPT ![t] = FALSE] /\ seen' = [seen EXCEPT ![t] = FALSE]
  /\ up' = up \ {t} /\ Leaves(Owner(t), up') /\ lost' = lost \cup {t}
  /\ UNCHANGED <<limit, offers, texts, crossed, overlapped, bunched>>

\* A new connection asks for the roster and forgets the deferred change.
Connect(t) ==
  /\ t \notin up /\ up' = up \cup {t}
  /\ announce' = IF Online(Owner(t), up) THEN announce ELSE [announce EXCEPT ![Owner(t)].on = TRUE]
  /\ flip' = [flip EXCEPT ![t] = FALSE]
  /\ Add(t, [at |-> "roster", online |-> Online(Peer(t), up)])
  /\ UNCHANGED <<sess, request, in, seen, bounds, ghosts>>

\* ... and shows what the roster said. No session is ended by that.
Resync(t, task) ==
  /\ task \in Await(t, "roster") /\ Done(t, task) /\ seen' = [seen EXCEPT ![t] = task.online]
  /\ UNCHANGED <<sess, request, in, up, announce, flip, bounds, ghosts>>

\* onPresenceChange: the disconnect and the reconnect after it each broadcast on
\* their own; only a connection's own two changes are in order.
Broadcast(u, online) ==
  /\ IF online THEN announce[u].on /\ announce' = [announce EXCEPT ![u].on = FALSE]
               ELSE announce[u].off > 0 /\ announce' = [announce EXCEPT ![u].off = @ - 1]
  /\ in' = [t \in Tab |-> IF t \in up /\ Owner(t) # u
                          THEN Append(in[t], [type |-> "presence", online |-> online]) ELSE in[t]]
  /\ UNCHANGED <<session, up, seen, flip, bounds, ghosts>>

\* presenceDecision for a peer: a change that is shown anyway is dropped.
PresenceDecision(online, shown) == IF online = shown THEN "drop" ELSE "schedule"

\* schedulePresenceUpdate: the newest change is applied a while later, unless it
\* is what the tab shows anyway.
OnPresence(t, online) ==
  /\ Take(t, [type |-> "presence", online |-> online])
  /\ flip' = [flip EXCEPT ![t] = PresenceDecision(online, seen[t]) = "schedule"]
  /\ UNCHANGED <<session, up, announce, seen, bounds, ghosts>>

\* Mutated form: only an offer is ended.
TerminatedOffers(s) == IF s.phase \in {"offered", "incoming"} THEN [s EXCEPT !.phase = "ended"] ELSE s

\* terminateSessionForPeer
Terminated(s) == IF s.phase \in {"active", "offered", "incoming"} THEN [s EXCEPT !.phase = "ended"] ELSE s

\* fanOutPresence
Flip(t) ==
  /\ flip[t] /\ flip' = [flip EXCEPT ![t] = FALSE] /\ seen' = [seen EXCEPT ![t] = ~@]
  /\ Put(t, IF seen'[t] THEN sess[t] ELSE Terminated(sess[t]))
  /\ Ask(t, request[t] /\ (seen'[t] \/ In(t, {"none", "ended"})))
  /\ UNCHANGED <<tasks, in, up, announce, bounds, ghosts>>

-----------------------------------------------------------------------------
\* A tab works off its frames and its handlers go on.
Receive(t) ==
  \/ \E n \in Offer : OnOffer(t, n) \/ \E by \in Tab : OnAccept(t, n, by)
  \/ in[t] # <<>> /\ Head(in[t]).type = "msg" /\ OnMsg(t, Head(in[t]).wire)
  \/ OnEnd(t) \/ OnDismiss(t)
  \/ \E b \in BOOLEAN : OnPresence(t, b)
Work(t) ==
  \E task \in tasks[t] :
    \/ InitiateSecret(t, task) \/ AcceptSecret(t, task) \/ EncryptMessage(t, task)
    \/ Verify(t, task) \/ VerifyFails(t, task) \/ Derive(t, task)
    \/ DecryptMessage(t, task) \/ Resync(t, task)
Click(t) ==
  \/ SecretButton(t) \/ AcceptButton(t) \/ DeclineButton(t) \/ SafetyEndButton(t)
  \/ ReturnToChat(t) \/ Compose(t)

Act ==
  \/ \E t \in limit.tabs : Receive(t) \/ Work(t) \/ Flip(t)
  \/ \E u \in Side, b \in BOOLEAN : Broadcast(u, b)
Next == Act \/ \E t \in limit.tabs : Click(t) \/ Drop(t) \/ Reload(t) \/ Connect(t)

Spec == Init /\ [][Next]_vars
\* Frames are read, handlers end, timers fire and goroutines run, as long as
\* there are any: between clicks all of that comes to an end. Nobody has to click,
\* and a lost connection need not come back.
FairSpec == Spec /\ WF_vars(Act)

-----------------------------------------------------------------------------
(* Properties.                                                             *)

\* The secret of an active session.
Secret(t) == [n |-> sess[t].n, by |-> sess[t].send.by]

\* Whatever crosses, tabs that share a secret are two, of the two users, and
\* what one sends with the other receives with.
KeysAgree ==
  \A t, q \in Tab :
    t # q /\ In(t, {"active"}) /\ In(q, {"active"}) /\ Secret(t) = Secret(q) =>
      /\ Owner(t) # Owner(q)
      /\ sess[t].send.side = sess[q].recv.side /\ sess[t].recv.side = sess[q].send.side
      /\ \A r \in Tab \ {t, q} : ~(In(r, {"active"}) /\ Secret(r) = Secret(t))

Quiet == \A t \in Tab : tasks[t] = {} /\ in[t] = <<>>
Partners(t, q) == Owner(t) # Owner(q) /\ In(q, {"active"}) /\ Secret(q) = Secret(t)

Untouched(t) == lost = {} /\ sess[t].n > crossed
\* The peer has shown every text, if none was written during another's
\* encryption or arrived during another's decryption.
AllShown(t, q) ==
  sess[t].n \notin overlapped \cup bunched => sess[q].recvNextExpected = sess[t].sendCounter

\* When everything has arrived, a session that nothing came across is open on
\* both ends or on none, what was written on one end has been shown on the
\* other, and an offer can be accepted somewhere (initiateSecret, acceptSecret,
\* handleSecretEvent, decryptMessage, endSecret).
BothEnds ==
  Quiet => \A t \in Tab :
    /\ Untouched(t) /\ In(t, {"active"}) => \E q \in Tab : Partners(t, q)
    /\ Untouched(t) /\ In(t, {"offered"}) =>
         \E q \in TabsOf(Peer(t)) : request[q] /\ sess[q] = MakeSession("incoming", sess[t].n)
    /\ \A q \in Tab : In(t, {"active"}) /\ Partners(t, q) /\ lost \cap {t, q} = {} /\ sess[t].n > crossed => AllShown(t, q)

\* A session with a peer who is gone for good is ended by a tab that has shown
\* him online, unless that tab lost a connection itself.
OfflineEnds ==
  \A t \in Tab :
    In(t, {"active"}) /\ seen[t] /\ ~Online(Peer(t), up) ~>
      ~In(t, {"active"}) \/ Online(Peer(t), up) \/ t \in lost
=============================================================================
