-------------------------------- MODULE Ring --------------------------------
(***************************************************************************)
(* Ringing in direct messages: the server keeps one pending ring per DM    *)
(* with a 30 s timer (voice.ring, voice.ring_response and                  *)
(* pendingRingFrames of ws_dispatch.go), and every tab of the two users    *)
(* shows at most one ring (ringState of voiceui.js).                       *)
(*                                                                         *)
(* A tab's frames are handled in order; the frames a handler sends go out  *)
(* one by one after it has left the lock. A connection may be lost with    *)
(* what is under way on it, and reopened: the pending rings are read       *)
(* before the new connection is registered and sent after.                 *)
(*                                                                         *)
(* Abstracted: the call itself (module VoiceCalls): joining sets call, for *)
(* good; store lookups that fail; tones and notifications; reloads of the  *)
(* page.                                                                   *)
(***************************************************************************)
EXTENDS Naturals, Sequences

CONSTANTS
  DM,         \* direct-message channels
  Members,    \* DM -> its two users
  Tab,        \* browser tabs
  Owner,      \* tab -> its user
  MaxEvents,  \* bound: rings placed and connections lost, together
  None

User == UNION {Members[d] : d \in DM}

ASSUME EventsAssumption == MaxEvents \in Nat
ASSUME MembersAssumption ==
  \A d \in DM : \E u, v \in Members[d] : u # v /\ Members[d] = {u, v}
ASSUME OwnerAssumption == \A t \in Tab : Owner[t] \in User

Peer(d, u) == CHOOSE v \in Members[d] : v # u

VARIABLES
  conn,      \* tab -> its connection: down, opening, up
  welcome,   \* tab -> DMs whose pending ring will be replayed to it
  ringState, \* tab -> the ring it shows: [dm, dir], or None
  call,      \* tab -> the DM it is in a call in, or None
  out,       \* tab -> frames under way to the server
  in,        \* tab -> frames under way to the tab
  task,      \* tab -> what its frame's handler has still to send
  rings,     \* DM -> the pending ring: [by, id], or None
  expired,   \* rings whose timer has gone off but not run
  placed, drops,
  asked,     \* ghost: DM -> users who rang or accepted there
  missed,    \* ghost: tabs that lost a frame
  raced      \* ghost: handlers, timers or openings of one DM overlapped

tabs == <<ringState, call, asked>>
server == <<rings, expired>>
net == <<conn, welcome, drops>>
vars == <<tabs, out, in, task, server, net, placed, missed, raced>>

Shown == [dm : DM, dir : {"outgoing", "incoming"}]
Pending == [by : User, id : 1..MaxEvents]
ASSUME NoneAssumption == None \notin Tab \cup Shown \cup Pending
Frame == [type : {"ring", "yes", "no", "timeout", "dismissed"}, dm : DM]
F(type, d) == [type |-> type, dm |-> d]
Sends == [to : User, frame : Frame]

TypeOK ==
  /\ conn \in [Tab -> {"down", "opening", "up"}] /\ welcome \in [Tab -> SUBSET DM]
  /\ ringState \in [Tab -> Shown \cup {None}] /\ call \in [Tab -> DM \cup {None}]
  /\ out \in [Tab -> Seq(Frame)] /\ in \in [Tab -> Seq(Frame)]
  /\ task \in [Tab -> Seq(Sends)]
  /\ rings \in [DM -> Pending \cup {None}]
  /\ expired \subseteq [dm : DM, ring : Pending]
  /\ placed + drops \in 0..MaxEvents
  /\ asked \in [DM -> SUBSET User] /\ missed \subseteq Tab /\ raced \in BOOLEAN

Init ==
  /\ conn \in [Tab -> {"down", "up"}] /\ welcome = [t \in Tab |-> {}]
  /\ ringState = [t \in Tab |-> None] /\ call = [t \in Tab |-> None]
  /\ out = [t \in Tab |-> <<>>] /\ in = [t \in Tab |-> <<>>]
  /\ task = [t \in Tab |-> <<>>]
  /\ rings = [d \in DM |-> None] /\ expired = {}
  /\ placed = 0 /\ drops = 0
  /\ asked = [d \in DM |-> {}] /\ missed = {} /\ raced = FALSE

-----------------------------------------------------------------------------
(* The user at a tab. What is sent on a connection that is not open is     *)
(* silently dropped (ws.js).                                               *)

Transmit(t, f) ==
  /\ out' = IF conn[t] = "up" THEN [out EXCEPT ![t] = Append(@, f)] ELSE out
  /\ missed' = IF conn[t] = "up" THEN missed ELSE missed \cup {t}

Ask(t, d) == asked' = [asked EXCEPT ![d] = @ \cup {Owner[t]}]

PlaceRing(t, d) ==
  /\ placed + drops < MaxEvents /\ placed' = placed + 1
  /\ Owner[t] \in Members[d] /\ ringState[t] = None /\ call[t] = None
  /\ ringState' = [ringState EXCEPT ![t] = [dm |-> d, dir |-> "outgoing"]]
  /\ Transmit(t, F("ring", d)) /\ Ask(t, d)
  /\ UNCHANGED <<call, in, task, server, net, raced>>

\* acceptRing
Accept(t) ==
  /\ ringState[t] # None
  /\ LET d == ringState[t].dm
     IN  /\ ringState[t].dir = "incoming"
         /\ Transmit(t, F("yes", d)) /\ Ask(t, d)
         /\ call' = [call EXCEPT ![t] = d]
  /\ ringState' = [ringState EXCEPT ![t] = None]
  /\ UNCHANGED <<in, task, server, net, placed, raced>>

\* Decline an incoming ring or cancel an outgoing one.
Decline(t) ==
  /\ ringState[t] # None
  /\ Transmit(t, F("no", ringState[t].dm))
  /\ ringState' = [ringState EXCEPT ![t] = None]
  /\ UNCHANGED <<call, asked, in, task, server, net, placed, raced>>

-----------------------------------------------------------------------------
(* The server.                                                             *)

\* SendToUser: every connection the user has at that moment.
SendToUser(u, f) ==
  in' = [t \in Tab |-> IF Owner[t] = u /\ conn[t] = "up" THEN Append(in[t], f) ELSE in[t]]

\* Another handler, timer or opening is at work on the DM.
Overlap(d, self) ==
  \/ \E t \in Tab \ {self} : \E i \in DOMAIN task[t] : task[t][i].frame.dm = d
  \/ \E t \in Tab : Owner[t] \in Members[d] /\ (conn[t] = "opening" \/ welcome[t] # {})
  \/ \E x \in expired : x.dm = d

Handle(t, types) ==
  /\ task[t] = <<>> /\ out[t] # <<>> /\ Head(out[t]).type \in types
  /\ out' = [out EXCEPT ![t] = Tail(@)]
  /\ raced' = (raced \/ Overlap(Head(out[t]).dm, t))
  /\ UNCHANGED <<tabs, in, net, placed, missed>>

\* The identities a ring may get: none of a ring that is pending or expired.
FreshIds ==
  {i \in 1..MaxEvents :
    /\ \A x \in expired : x.ring.id # i
    /\ \A d \in DM : rings[d] # None => rings[d].id # i}

\* voice.ring: the new ring replaces the DM's old one and its timer.
HandleRing(t) ==
  /\ Handle(t, {"ring"})
  /\ LET d == Head(out[t]).dm
     IN  /\ \E i \in FreshIds : rings' = [rings EXCEPT ![d] = [by |-> Owner[t], id |-> i]]
         /\ task' = [task EXCEPT ![t] = <<[to |-> Peer(d, Owner[t]), frame |-> F("ring", d)]>>]
  /\ UNCHANGED expired

\* Mutated form: the responder's other tabs are not told.
HandleResponseAlone(t) ==
  /\ Handle(t, {"yes", "no"})
  /\ LET f == Head(out[t])
     IN  /\ rings' = [rings EXCEPT ![f.dm] = None]
         /\ task' = [task EXCEPT ![t] = <<[to |-> Peer(f.dm, Owner[t]), frame |-> f]>>]
  /\ UNCHANGED expired

\* voice.ring_response, from either side and whether or not a ring is pending.
HandleResponse(t) ==
  /\ Handle(t, {"yes", "no"})
  /\ LET f == Head(out[t])
     IN  /\ rings' = [rings EXCEPT ![f.dm] = None]
         /\ task' = [task EXCEPT ![t] =
                       <<[to |-> Peer(f.dm, Owner[t]), frame |-> f],
                         [to |-> Owner[t], frame |-> F("dismissed", f.dm)]>>]
  /\ UNCHANGED expired

Relay(t) ==
  /\ task[t] # <<>>
  /\ SendToUser(Head(task[t]).to, Head(task[t]).frame)
  /\ task' = [task EXCEPT ![t] = Tail(@)]
  /\ UNCHANGED <<tabs, out, server, net, placed, missed, raced>>

\* The timer goes off: from here on Stop comes too late.
Expire(d) ==
  /\ rings[d] # None
  /\ LET x == [dm |-> d, ring |-> rings[d]]
     IN  x \notin expired /\ expired' = expired \cup {x}
  /\ raced' = (raced \/ Overlap(d, None))
  /\ UNCHANGED <<tabs, out, in, task, rings, net, placed, missed>>

\* Its function: the ring goes if it is still this one; the timeout is sent to
\* both in any case.
Timeout(x) ==
  /\ x \in expired /\ expired' = expired \ {x}
  /\ rings' = [rings EXCEPT ![x.dm] = IF @ = x.ring THEN None ELSE @]
  /\ in' = [t \in Tab |-> IF Owner[t] \in Members[x.dm] /\ conn[t] = "up"
                            THEN Append(in[t], F("timeout", x.dm)) ELSE in[t]]
  /\ UNCHANGED <<tabs, out, task, net, placed, missed, raced>>

-----------------------------------------------------------------------------
(* Connections.                                                            *)

Drop(t) ==
  /\ conn[t] = "up" /\ placed + drops < MaxEvents /\ drops' = drops + 1
  /\ conn' = [conn EXCEPT ![t] = "down"]
  /\ out' = [out EXCEPT ![t] = <<>>] /\ in' = [in EXCEPT ![t] = <<>>]
  /\ welcome' = [welcome EXCEPT ![t] = {}]
  /\ missed' = IF ringState[t] # None \/ out[t] # <<>> \/ in[t] # <<>>
                 THEN missed \cup {t} ELSE missed
  /\ UNCHANGED <<tabs, task, server, placed, raced>>

\* Mutated form: a ring is only relayed to those who are there.
PendingRingFramesNone(u) == {}

\* pendingRingFrames: the rings whose callee the user is.
PendingRingFrames(u) ==
  {d \in DM : rings[d] # None /\ u \in Members[d] /\ rings[d].by # u}

\* handleWS reads them for a new connection ...
Open(t) ==
  /\ conn[t] = "down" /\ task[t] = <<>>
  /\ conn' = [conn EXCEPT ![t] = "opening"]
  /\ welcome' = [welcome EXCEPT ![t] = PendingRingFrames(Owner[t])]
  /\ raced' = (raced \/ \E d \in DM : Owner[t] \in Members[d] /\ Overlap(d, t))
  /\ UNCHANGED <<tabs, out, in, task, server, drops, placed, missed>>

\* ... Serve registers it ...
Add(t) ==
  /\ conn[t] = "opening" /\ conn' = [conn EXCEPT ![t] = "up"]
  /\ UNCHANGED <<tabs, out, in, task, server, welcome, drops, placed, missed, raced>>

\* ... and sends them.
Welcome(t) ==
  /\ conn[t] = "up"
  /\ \E d \in welcome[t] :
       /\ welcome' = [welcome EXCEPT ![t] = @ \ {d}]
       /\ in' = [in EXCEPT ![t] = Append(@, F("ring", d))]
  /\ UNCHANGED <<tabs, out, task, server, conn, drops, placed, missed, raced>>

-----------------------------------------------------------------------------
(* A tab receives a frame (onVoiceEvent).                                  *)

Receive(t, types) ==
  /\ in[t] # <<>> /\ Head(in[t]).type \in types
  /\ in' = [in EXCEPT ![t] = Tail(@)]
  /\ UNCHANGED <<asked, out, task, server, net, placed, missed, raced>>

\* A tab that shows a ring ignores another.
OnRing(t) ==
  /\ Receive(t, {"ring"})
  /\ ringState' = IF ringState[t] # None THEN ringState
                    ELSE [ringState EXCEPT ![t] = [dm |-> Head(in[t]).dm, dir |-> "incoming"]]
  /\ UNCHANGED call

\* Mutated form: a refusal joins too.
OnResponseJoins(t) ==
  /\ Receive(t, {"yes", "no"})
  /\ ringState' = [ringState EXCEPT ![t] = None]
  /\ call' = IF ringState[t] # None THEN [call EXCEPT ![t] = ringState[t].dm] ELSE call

\* A response ends whatever ring the tab shows, and an acceptance joins that
\* ring's DM; the frame's own DM is not looked at.
OnResponse(t) ==
  /\ Receive(t, {"yes", "no"})
  /\ ringState' = [ringState EXCEPT ![t] = None]
  /\ call' = IF ringState[t] # None /\ Head(in[t]).type = "yes"
               THEN [call EXCEPT ![t] = ringState[t].dm] ELSE call

\* A timeout or a dismissal ends a ring of its DM.
OnEnd(t) ==
  /\ Receive(t, {"timeout", "dismissed"})
  /\ ringState' = IF ringState[t] # None /\ ringState[t].dm = Head(in[t]).dm
                    THEN [ringState EXCEPT ![t] = None] ELSE ringState
  /\ UNCHANGED call

-----------------------------------------------------------------------------
Next ==
  \/ \E t \in Tab, d \in DM : PlaceRing(t, d)
  \/ \E t \in Tab :
       \/ Accept(t) \/ Decline(t)
       \/ HandleRing(t) \/ HandleResponse(t) \/ Relay(t)
       \/ Drop(t) \/ Open(t) \/ Add(t) \/ Welcome(t)
       \/ OnRing(t) \/ OnResponse(t) \/ OnEnd(t)
  \/ \E d \in DM : Expire(d)
  \/ \E x \in expired : Timeout(x)

Spec == Init /\ [][Next]_vars

-----------------------------------------------------------------------------
\* Nothing is under way, to or from the server or inside it.
Quiet ==
  /\ \A t \in Tab : out[t] = <<>> /\ in[t] = <<>> /\ task[t] = <<>> /\ welcome[t] = {}
  /\ expired = {}

\* Nobody is put into a call that the other has not asked for: an acceptance
\* joins the ring it answers (voiceui.js:341).
JoinedBothAsked == \A t \in Tab : call[t] # None => asked[call[t]] = Members[call[t]]

\* Once a ring is over no tab goes on showing it (voiceui.js:481,
\* ws_dispatch.go:459).
NoRingLingers ==
  Quiet /\ ~raced =>
    \A t \in Tab \ missed : ringState[t] # None => rings[ringState[t].dm] # None

\* A pending ring shows on every tab of the callee, also on one that connects
\* while it is pending (handlers.go:145).
RingReaches ==
  Quiet /\ ~raced =>
    \A d \in DM, t \in Tab \ missed :
      rings[d] # None /\ conn[t] = "up" /\ Owner[t] \in Members[d] \ {rings[d].by}
        => ringState[t] # None
=============================================================================
