---------------------------- MODULE Ring_proofs -----------------------------
(* Theorems about Ring with a single DM, for every set of tabs and any     *)
(* number of rings and lost connections: nobody is put into a call that    *)
(* the other has not asked for, even when handlers, timers and openings    *)
(* overlap; and, unless they do, no tab goes on showing a ring that is     *)
(* over and every tab of the callee shows one that is pending. With two    *)
(* DMs a tab ignores the ring of one while it shows the other's, and a     *)
(* response in either ends the ring it shows: that is left to the model    *)
(* checker.                                                                *)
EXTENDS Ring, TLAPS

\* What a frame to user u says about the other, and what one by u says of u.
BothAsked(a, f) == f.type = "yes" => a[f.dm] = Members[f.dm]
Told(a, u) == {f \in Frame : BothAsked(a, f) /\ (f.type = "ring" => Peer(f.dm, u) \in a[f.dm])}
Said(a, u) == {f \in Frame : BothAsked(a, f) /\ (f.type = "ring" => u \in a[f.dm])}
Sent(a) == {s \in Sends : s.frame \in Told(a, s.to)}

\* Whoever rings has asked, and so has whoever is rung by somebody's consent:
\* every frame, pending ring and ring on screen is evidence of it.
TabTypes ==
  /\ asked \in [DM -> SUBSET User]
  /\ ringState \in [Tab -> Shown \cup {None}] /\ call \in [Tab -> DM \cup {None}]
FramesSound ==
  /\ out \in [Tab -> Seq(Frame)] /\ in \in [Tab -> Seq(Frame)] /\ task \in [Tab -> Seq(Sends)]
  /\ \A t \in Tab : out[t] \in Seq(Said(asked, Owner[t]))
  /\ \A t \in Tab : in[t] \in Seq(Told(asked, Owner[t]))
  /\ \A t \in Tab : task[t] \in Seq(Sent(asked))
RingsSound ==
  /\ rings = [d \in DM |-> rings[d]]
  /\ \A d \in DM : rings[d] # None => rings[d].by \in User /\ rings[d].by \in asked[d]
  /\ \A x \in expired : x.dm \in DM
ScreensSound ==
  \A t \in Tab : ringState[t] # None =>
    IF ringState[t].dir = "outgoing" THEN Owner[t] \in asked[ringState[t].dm]
    ELSE Peer(ringState[t].dm, Owner[t]) \in asked[ringState[t].dm]
WelcomeSound ==
  /\ welcome \in [Tab -> SUBSET DM]
  /\ \A t \in Tab : \A d \in welcome[t] : Peer(d, Owner[t]) \in asked[d]
Evidence ==
  TabTypes /\ FramesSound /\ RingsSound /\ ScreensSound /\ WelcomeSound /\ JoinedBothAsked

-----------------------------------------------------------------------------
\* A DM has two users, each the other's peer.
LEMMA TwoUsers ==
  ASSUME NEW d, DM = {d}, NEW u \in User
  PROVE  /\ User = Members[d]
         /\ Peer(d, u) \in User /\ User = {u, Peer(d, u)}
         /\ Peer(d, Peer(d, u)) = u
<1>1. User = Members[d]
  BY DEF User
<1>2. PICK x \in Members[d], y \in Members[d] : x # y /\ Members[d] = {x, y}
  BY MembersAssumption
<1>3. \A z \in User : Peer(d, z) \in Members[d] /\ Peer(d, z) # z
  BY <1>1, <1>2 DEF Peer
<1> QED
  BY <1>1, <1>2, <1>3

\* Users only ever ask more: what was sound to send stays so.
LEMMA Growth ==
  ASSUME NEW d, DM = {d}, NEW a \in [DM -> SUBSET User], NEW b \in [DM -> SUBSET User],
         a[d] \subseteq b[d], NEW u \in User
  PROVE  /\ Said(a, u) \subseteq Said(b, u)
         /\ Told(a, u) \subseteq Told(b, u)
         /\ Sent(a) \subseteq Sent(b)
<1>1. User = Members[d]
  BY DEF User
<1>2. \A f \in Frame : f.dm = d
  BY DEF Frame
<1>3. \A f \in Frame : BothAsked(a, f) => BothAsked(b, f)
  BY <1>1, <1>2 DEF BothAsked
<1>4. \A v : Told(a, v) \subseteq Told(b, v)
  BY <1>2, <1>3 DEF Told
<1> QED
  BY <1>2, <1>3, <1>4 DEF Said, Sent

\* ... and so does everything else, if nothing else changes.
LEMMA AskingMore ==
  ASSUME NEW d, DM = {d}, Evidence,
         asked' \in [DM -> SUBSET User], asked[d] \subseteq asked'[d]
  PROVE  /\ \A t \in Tab : out[t] \in Seq(Said(asked', Owner[t]))
         /\ \A t \in Tab : in[t] \in Seq(Told(asked', Owner[t]))
         /\ \A t \in Tab : task[t] \in Seq(Sent(asked'))
<1> SUFFICES ASSUME NEW t \in Tab
             PROVE  /\ out[t] \in Seq(Said(asked', Owner[t]))
                    /\ in[t] \in Seq(Told(asked', Owner[t]))
                    /\ task[t] \in Seq(Sent(asked'))
  OBVIOUS
<1>1. /\ Said(asked, Owner[t]) \subseteq Said(asked', Owner[t])
      /\ Told(asked, Owner[t]) \subseteq Told(asked', Owner[t])
      /\ Sent(asked) \subseteq Sent(asked')
  BY Growth, OwnerAssumption DEF Evidence, TabTypes
<1> QED
  BY <1>1 DEF Evidence, FramesSound

-----------------------------------------------------------------------------
(* The queues.                                                             *)

LEMMA Appended ==
  ASSUME NEW S, NEW q \in Seq(S), NEW e \in S
  PROVE  Append(q, e) \in Seq(S)
  OBVIOUS

LEMMA Taken ==
  ASSUME NEW S, NEW q \in Seq(S), q # <<>>
  PROVE  Head(q) \in S /\ Tail(q) \in Seq(S)
  OBVIOUS

\* A frame the user may send is sent, or lost.
LEMMA Transmitted ==
  ASSUME NEW a, NEW t \in Tab, NEW f \in Said(a, Owner[t]), Transmit(t, f),
         out \in [Tab -> Seq(Frame)], \A s \in Tab : out[s] \in Seq(Said(a, Owner[s]))
  PROVE  /\ out' \in [Tab -> Seq(Frame)]
         /\ \A s \in Tab : out'[s] \in Seq(Said(a, Owner[s]))
<1>1. out' = [out EXCEPT ![t] = Append(@, f)] \/ out' = out
  BY DEF Transmit
<1>2. Append(out[t], f) \in Seq(Said(a, Owner[t]))
  BY Appended
<1>3. f \in Frame
  BY DEF Said
<1>4. Append(out[t], f) \in Seq(Frame)
  BY <1>3, Appended
<1> QED
  BY <1>1, <1>2, <1>4

\* A frame reaches tabs it may be shown to.
LEMMA Delivered ==
  ASSUME NEW a, NEW f, NEW W, \A t \in W : t \in Tab => f \in Told(a, Owner[t]),
         in' = [t \in Tab |-> IF t \in W THEN Append(in[t], f) ELSE in[t]],
         in \in [Tab -> Seq(Frame)], \A t \in Tab : in[t] \in Seq(Told(a, Owner[t]))
  PROVE  /\ in' \in [Tab -> Seq(Frame)]
         /\ \A t \in Tab : in'[t] \in Seq(Told(a, Owner[t]))
<1> SUFFICES ASSUME NEW t \in Tab
             PROVE  in'[t] \in Seq(Frame) /\ in'[t] \in Seq(Told(a, Owner[t]))
  OBVIOUS
<1>1. CASE t \in W
  <2>1. f \in Told(a, Owner[t]) /\ f \in Frame
    BY <1>1 DEF Told
  <2>2. Append(in[t], f) \in Seq(Frame) /\ Append(in[t], f) \in Seq(Told(a, Owner[t]))
    BY <2>1, Appended
  <2> QED
    BY <1>1, <2>2
<1>2. CASE t \notin W
  BY <1>2
<1> QED
  BY <1>1, <1>2

-----------------------------------------------------------------------------
(* One lemma per group of actions.                                         *)

\* What a user does: to ring or to accept is to ask; what is sent says so.
LEMMA UsersKeepEvidence ==
  ASSUME NEW d, DM = {d}, Evidence, NEW t \in Tab,
         PlaceRing(t, d) \/ Accept(t) \/ Decline(t)
  PROVE  Evidence'
<1> USE OwnerAssumption DEF Evidence
<1>1. Owner[t] \in User /\ User = Members[d] /\ User = {Owner[t], Peer(d, Owner[t])}
  BY TwoUsers
<1>2. CASE PlaceRing(t, d)
  <2>1. asked' = [asked EXCEPT ![d] = @ \cup {Owner[t]}]
    BY <1>2 DEF PlaceRing, Ask
  <2>2. asked' \in [DM -> SUBSET User] /\ asked[d] \subseteq asked'[d]
    BY <1>1, <2>1 DEF TabTypes
  <2>3. F("ring", d) \in Said(asked', Owner[t])
    BY <2>1, <2>2 DEF Said, F, Frame, BothAsked, TabTypes
  <2>4. FramesSound'
    <3>1. Transmit(t, F("ring", d)) /\ in' = in /\ task' = task
      BY <1>2 DEF PlaceRing
    <3>2. /\ out' \in [Tab -> Seq(Frame)]
          /\ \A s \in Tab : out'[s] \in Seq(Said(asked', Owner[s]))
      BY <2>2, <2>3, <3>1, AskingMore, Transmitted DEF FramesSound
    <3> QED
      BY <2>2, <3>1, <3>2, AskingMore DEF FramesSound
  <2>5. TabTypes' /\ ScreensSound'
    <3>1. ringState' = [ringState EXCEPT ![t] = [dm |-> d, dir |-> "outgoing"]] /\ call' = call
      BY <1>2 DEF PlaceRing
    <3>2. TabTypes'
      BY <2>2, <3>1 DEF TabTypes, Shown
    <3>3. ASSUME NEW s \in Tab, ringState'[s] # None
          PROVE  IF ringState'[s].dir = "outgoing" THEN Owner[s] \in asked'[ringState'[s].dm]
                 ELSE Peer(ringState'[s].dm, Owner[s]) \in asked'[ringState'[s].dm]
      <4>1. CASE s = t
        BY <2>1, <3>1, <4>1 DEF TabTypes
      <4>2. CASE s # t
        BY <2>2, <3>1, <3>3, <4>2 DEF TabTypes, ScreensSound, Shown
      <4> QED
        BY <4>1, <4>2
    <3> QED
      BY <3>2, <3>3 DEF ScreensSound
  <2>6. RingsSound' /\ WelcomeSound'
    BY <1>2, <2>2 DEF PlaceRing, RingsSound, WelcomeSound, server, net
  <2>7. JoinedBothAsked'
    BY <1>1, <1>2, <2>2 DEF PlaceRing, JoinedBothAsked, TabTypes
  <2> QED
    BY <2>4, <2>5, <2>6, <2>7
<1>3. CASE Accept(t)
  <2>0. ringState[t] \in Shown /\ ringState[t].dm = d /\ ringState[t].dir = "incoming"
    BY <1>3 DEF Accept, TabTypes, Shown
  <2>1. asked' = [asked EXCEPT ![d] = @ \cup {Owner[t]}]
    BY <1>3, <2>0 DEF Accept, Ask
  <2>2. asked' \in [DM -> SUBSET User] /\ asked[d] \subseteq asked'[d] /\ asked'[d] = Members[d]
    <3>1. Peer(d, Owner[t]) \in asked[d]
      BY <1>3, <2>0 DEF Accept, ScreensSound
    <3> QED
      BY <1>1, <2>1, <3>1 DEF TabTypes
  <2>3. F("yes", d) \in Said(asked', Owner[t])
    BY <2>2 DEF Said, F, Frame, BothAsked
  <2>4. FramesSound'
    <3>1. Transmit(t, F("yes", d)) /\ in' = in /\ task' = task
      BY <1>3, <2>0 DEF Accept
    <3>2. /\ out' \in [Tab -> Seq(Frame)]
          /\ \A s \in Tab : out'[s] \in Seq(Said(asked', Owner[s]))
      BY <2>2, <2>3, <3>1, AskingMore, Transmitted DEF FramesSound
    <3> QED
      BY <2>2, <3>1, <3>2, AskingMore DEF FramesSound
  <2>5. TabTypes' /\ ScreensSound'
    <3>1. ringState' = [ringState EXCEPT ![t] = None] /\ call' = [call EXCEPT ![t] = d]
      BY <1>3, <2>0 DEF Accept
    <3>2. TabTypes'
      BY <2>2, <3>1 DEF TabTypes
    <3>3. ASSUME NEW s \in Tab, ringState'[s] # None
          PROVE  IF ringState'[s].dir = "outgoing" THEN Owner[s] \in asked'[ringState'[s].dm]
                 ELSE Peer(ringState'[s].dm, Owner[s]) \in asked'[ringState'[s].dm]
      BY <2>2, <3>1, <3>3 DEF TabTypes, ScreensSound, Shown
    <3> QED
      BY <3>2, <3>3 DEF ScreensSound
  <2>6. RingsSound' /\ WelcomeSound'
    BY <1>3, <2>2 DEF Accept, RingsSound, WelcomeSound, server, net
  <2>7. JoinedBothAsked'
    BY <1>1, <1>3, <2>0, <2>2 DEF Accept, JoinedBothAsked, TabTypes
  <2> QED
    BY <2>4, <2>5, <2>6, <2>7
<1>4. CASE Decline(t)
  <2>0. ringState[t] \in Shown /\ ringState[t].dm = d
    BY <1>4 DEF Decline, TabTypes, Shown
  <2>1. F("no", d) \in Said(asked, Owner[t])
    BY DEF Said, F, Frame, BothAsked
  <2>2. FramesSound'
    <3>1. Transmit(t, F("no", d)) /\ asked' = asked /\ in' = in /\ task' = task
      BY <1>4, <2>0 DEF Decline
    <3>2. /\ out' \in [Tab -> Seq(Frame)]
          /\ \A s \in Tab : out'[s] \in Seq(Said(asked, Owner[s]))
      BY <2>1, <3>1, Transmitted DEF FramesSound
    <3> QED
      BY <3>1, <3>2 DEF FramesSound
  <2>3. TabTypes' /\ ScreensSound'
    BY <1>4 DEF Decline, TabTypes, ScreensSound
  <2>4. RingsSound' /\ WelcomeSound' /\ JoinedBothAsked'
    BY <1>4 DEF Decline, RingsSound, WelcomeSound, JoinedBothAsked, server, net
  <2> QED
    BY <2>2, <2>3, <2>4
<1> QED
  BY <1>2, <1>3, <1>4

\* The server: what it records and relays is what the frame it handles says.
LEMMA ServerKeepsEvidence ==
  ASSUME NEW d, DM = {d}, Evidence, NEW t \in Tab, HandleRing(t) \/ HandleResponse(t)
  PROVE  Evidence'
<1> USE OwnerAssumption DEF Evidence
<1> DEFINE f == Head(out[t])
<1>0. PICK types : Handle(t, types)
  BY DEF HandleRing, HandleResponse
<1>1. /\ Owner[t] \in User /\ Peer(d, Owner[t]) \in User
      /\ Peer(d, Peer(d, Owner[t])) = Owner[t]
  BY TwoUsers
<1>2. f \in Said(asked, Owner[t]) /\ f \in Frame /\ f.dm = d
  <2>1. f \in Said(asked, Owner[t])
    BY <1>0, Taken DEF Handle, FramesSound
  <2> QED
    BY <2>1 DEF Said, Frame
<1>3. /\ asked' = asked /\ in' = in /\ out' = [out EXCEPT ![t] = Tail(@)]
      /\ TabTypes' /\ ScreensSound' /\ WelcomeSound' /\ JoinedBothAsked'
  BY <1>0 DEF Handle, tabs, net, TabTypes, ScreensSound, WelcomeSound, JoinedBothAsked
<1>4. /\ out' \in [Tab -> Seq(Frame)]
      /\ \A s \in Tab : out'[s] \in Seq(Said(asked, Owner[s]))
  <2>1. Tail(out[t]) \in Seq(Frame) /\ Tail(out[t]) \in Seq(Said(asked, Owner[t]))
    BY <1>0, Taken DEF Handle, FramesSound
  <2> QED
    BY <1>3, <2>1 DEF FramesSound
<1>5. ASSUME NEW q, q \in Seq(Sends), q \in Seq(Sent(asked)), task' = [task EXCEPT ![t] = q]
      PROVE  FramesSound'
  BY <1>3, <1>4, <1>5 DEF FramesSound
<1>6. CASE HandleRing(t)
  <2>1. f.type = "ring" /\ Owner[t] \in asked[d]
    BY <1>2, <1>6 DEF HandleRing, Handle, Said
  <2>2. RingsSound'
    <3>1. PICK i \in FreshIds : rings' = [rings EXCEPT ![d] = [by |-> Owner[t], id |-> i]]
      BY <1>2, <1>6 DEF HandleRing
    <3>2. expired' = expired
      BY <1>6 DEF HandleRing
    <3> HIDE DEF f
    <3> QED
      BY <1>1, <1>3, <2>1, <3>1, <3>2 DEF RingsSound
  <2>3. FramesSound'
    <3> DEFINE x == [to |-> Peer(d, Owner[t]), frame |-> F("ring", d)]
    <3>1. F("ring", d) \in Frame /\ F("ring", d) \in Told(asked, Peer(d, Owner[t]))
      BY <1>1, <2>1 DEF F, Frame, Told, BothAsked
    <3>2. x \in Sends /\ x \in Sent(asked)
      BY <1>1, <3>1 DEF Sends, Sent
    <3>3. <<x>> \in Seq(Sends) /\ <<x>> \in Seq(Sent(asked))
      BY <3>2
    <3>4. task' = [task EXCEPT ![t] = <<x>>]
      BY <1>2, <1>6 DEF HandleRing
    <3> QED
      BY <1>5, <3>3, <3>4
  <2> QED
    BY <1>3, <2>2, <2>3
<1>7. CASE HandleResponse(t)
  <2>1. f.type \in {"yes", "no"} /\ BothAsked(asked, f)
    BY <1>2, <1>7 DEF HandleResponse, Handle, Said
  <2>2. RingsSound'
    <3>1. rings' = [rings EXCEPT ![d] = None] /\ expired' = expired
      BY <1>2, <1>7 DEF HandleResponse
    <3> HIDE DEF f
    <3> QED
      BY <1>3, <3>1 DEF RingsSound
  <2>3. FramesSound'
    <3> DEFINE x == [to |-> Peer(d, Owner[t]), frame |-> f]
               y == [to |-> Owner[t], frame |-> F("dismissed", d)]
    <3>1. f \in Told(asked, Peer(d, Owner[t]))
      BY <1>2, <2>1 DEF Told
    <3>2. F("dismissed", d) \in Frame /\ F("dismissed", d) \in Told(asked, Owner[t])
      BY DEF F, Frame, Told, BothAsked
    <3>3. x \in Sends /\ x \in Sent(asked)
      BY <1>1, <1>2, <3>1 DEF Sends, Sent
    <3>4. y \in Sends /\ y \in Sent(asked)
      BY <1>1, <3>2 DEF Sends, Sent
    <3>5. task' = [task EXCEPT ![t] = <<x, y>>]
      BY <1>2, <1>7 DEF HandleResponse
    <3> HIDE DEF x, y
    <3>6. <<x, y>> \in Seq(Sends) /\ <<x, y>> \in Seq(Sent(asked))
      BY <3>3, <3>4
    <3> QED
      BY <1>5, <3>5, <3>6
  <2> QED
    BY <1>3, <2>2, <2>3
<1> QED
  BY <1>6, <1>7

\* What the server sends, its timers too, reaches only tabs of whom it is for.
LEMMA SendingKeepsEvidence ==
  ASSUME NEW d, DM = {d}, Evidence,
         \/ \E t \in Tab : Relay(t) \/ Welcome(t)
         \/ \E x \in expired : Timeout(x)
  PROVE  Evidence'
<1> USE OwnerAssumption DEF Evidence
<1>1. CASE \E t \in Tab : Relay(t)
  <2>1. PICK t \in Tab : Relay(t)
    BY <1>1
  <2> DEFINE s == Head(task[t])
             W == {r \in Tab : Owner[r] = s.to /\ conn[r] = "up"}
  <2>2. /\ s \in Sent(asked)
        /\ Tail(task[t]) \in Seq(Sends) /\ Tail(task[t]) \in Seq(Sent(asked))
    BY <2>1, Taken DEF Relay, FramesSound
  <2>3. in' = [r \in Tab |-> IF r \in W THEN Append(in[r], s.frame) ELSE in[r]]
    BY <2>1 DEF Relay, SendToUser
  <2>4. \A r \in W : s.frame \in Told(asked, Owner[r])
    BY <2>2 DEF Sent
  <2>5. /\ in' \in [Tab -> Seq(Frame)]
        /\ \A r \in Tab : in'[r] \in Seq(Told(asked, Owner[r]))
    <3> HIDE DEF s, W
    <3> QED
      BY <2>3, <2>4, Delivered DEF FramesSound
  <2>6. /\ task' = [task EXCEPT ![t] = Tail(@)] /\ asked' = asked /\ out' = out
        /\ TabTypes' /\ RingsSound' /\ ScreensSound' /\ WelcomeSound' /\ JoinedBothAsked'
    BY <2>1 DEF Relay, tabs, server, net, TabTypes, RingsSound, ScreensSound, WelcomeSound,
                JoinedBothAsked
  <2> QED
    BY <2>2, <2>5, <2>6 DEF FramesSound
<1>2. CASE \E t \in Tab : Welcome(t)
  <2>1. PICK t \in Tab : Welcome(t)
    BY <1>2
  <2>2. PICK e \in welcome[t] : /\ welcome' = [welcome EXCEPT ![t] = @ \ {e}]
                                /\ in' = [in EXCEPT ![t] = Append(@, F("ring", e))]
    BY <2>1 DEF Welcome
  <2>3. e = d /\ F("ring", e) \in Told(asked, Owner[t])
    BY <2>2 DEF WelcomeSound, Told, F, Frame, BothAsked
  <2>4. in' = [r \in Tab |-> IF r \in {t} THEN Append(in[r], F("ring", e)) ELSE in[r]]
    BY <2>2 DEF FramesSound
  <2>5. /\ in' \in [Tab -> Seq(Frame)]
        /\ \A r \in Tab : in'[r] \in Seq(Told(asked, Owner[r]))
    BY <2>3, <2>4, Delivered DEF FramesSound
  <2>6. /\ asked' = asked /\ out' = out /\ task' = task
        /\ TabTypes' /\ RingsSound' /\ ScreensSound' /\ JoinedBothAsked'
    BY <2>1 DEF Welcome, tabs, server, net, TabTypes, RingsSound, ScreensSound, JoinedBothAsked
  <2>7. WelcomeSound'
    BY <2>2, <2>6 DEF WelcomeSound
  <2> QED
    BY <2>5, <2>6, <2>7 DEF FramesSound
<1>3. CASE \E x \in expired : Timeout(x)
  <2>1. PICK x \in expired : Timeout(x)
    BY <1>3
  <2> DEFINE W == {r \in Tab : Owner[r] \in Members[x.dm] /\ conn[r] = "up"}
  <2>2. in' = [r \in Tab |-> IF r \in W THEN Append(in[r], F("timeout", x.dm)) ELSE in[r]]
    BY <2>1 DEF Timeout
  <2>3. F("timeout", x.dm) \in Frame /\ \A u : F("timeout", x.dm) \in Told(asked, u)
    <3>1. x.dm \in DM
      BY DEF RingsSound
    <3> QED
      BY <3>1 DEF F, Frame, Told, BothAsked
  <2>4. /\ in' \in [Tab -> Seq(Frame)]
        /\ \A r \in Tab : in'[r] \in Seq(Told(asked, Owner[r]))
    <3> HIDE DEF W
    <3> QED
      BY <2>2, <2>3, Delivered DEF FramesSound
  <2>5. /\ asked' = asked /\ out' = out /\ task' = task
        /\ TabTypes' /\ ScreensSound' /\ WelcomeSound' /\ JoinedBothAsked'
    BY <2>1 DEF Timeout, tabs, net, TabTypes, ScreensSound, WelcomeSound, JoinedBothAsked
  <2>6. RingsSound'
    <3>1. rings' = rings \/ rings' = [rings EXCEPT ![x.dm] = None]
      BY <2>1 DEF Timeout, RingsSound
    <3>2. expired' \subseteq expired
      BY <2>1 DEF Timeout
    <3> QED
      BY <2>5, <3>1, <3>2 DEF RingsSound
  <2> QED
    BY <2>4, <2>5, <2>6 DEF FramesSound
<1> QED
  BY <1>1, <1>2, <1>3

\* A ring that expires, and a connection lost, opened or registered.
LEMMA ConnectionsKeepEvidence ==
  ASSUME NEW d, DM = {d}, Evidence,
         Expire(d) \/ \E t \in Tab : Drop(t) \/ Open(t) \/ Add(t)
  PROVE  Evidence'
<1> USE OwnerAssumption DEF Evidence
<1>1. CASE Expire(d)
  <2>1. /\ expired' = expired \cup {[dm |-> d, ring |-> rings[d]]} /\ rings' = rings
        /\ UNCHANGED <<tabs, out, in, task, net>>
    BY <1>1 DEF Expire
  <2>2. TabTypes' /\ FramesSound' /\ ScreensSound' /\ WelcomeSound' /\ JoinedBothAsked'
    BY <2>1 DEF tabs, net, TabTypes, FramesSound, ScreensSound, WelcomeSound, JoinedBothAsked
  <2>3. RingsSound'
    BY <2>1 DEF tabs, RingsSound
  <2> QED
    BY <2>2, <2>3
<1>2. CASE \E t \in Tab : Drop(t)
  <2>1. PICK t \in Tab : Drop(t)
    BY <1>2
  <2>2. /\ UNCHANGED <<tabs, task, server>>
        /\ TabTypes' /\ RingsSound' /\ ScreensSound' /\ JoinedBothAsked'
    BY <2>1 DEF Drop, tabs, server, TabTypes, RingsSound, ScreensSound, JoinedBothAsked
  <2>3. /\ out' = [out EXCEPT ![t] = <<>>] /\ in' = [in EXCEPT ![t] = <<>>]
        /\ welcome' = [welcome EXCEPT ![t] = {}]
    BY <2>1 DEF Drop
  <2>4. FramesSound'
    <3>1. \A S : <<>> \in Seq(S)
      OBVIOUS
    <3> QED
      BY <2>2, <2>3, <3>1 DEF tabs, FramesSound
  <2>5. WelcomeSound'
    BY <2>2, <2>3 DEF tabs, WelcomeSound
  <2> QED
    BY <2>2, <2>4, <2>5
<1>3. CASE \E t \in Tab : Open(t)
  <2>1. PICK t \in Tab : Open(t)
    BY <1>3
  <2>2. /\ welcome' = [welcome EXCEPT ![t] = PendingRingFrames(Owner[t])]
        /\ UNCHANGED <<tabs, out, in, task, server>>
    BY <2>1 DEF Open
  <2>3. TabTypes' /\ FramesSound' /\ RingsSound' /\ ScreensSound' /\ JoinedBothAsked'
    BY <2>2 DEF tabs, server, TabTypes, FramesSound, RingsSound, ScreensSound, JoinedBothAsked
  <2>4. \A e \in PendingRingFrames(Owner[t]) : e \in DM /\ Peer(e, Owner[t]) \in asked[e]
    <3>1. User = {Owner[t], Peer(d, Owner[t])}
      BY TwoUsers
    <3> QED
      BY <3>1 DEF PendingRingFrames, RingsSound
  <2>5. WelcomeSound'
    BY <2>2, <2>4 DEF tabs, WelcomeSound
  <2> QED
    BY <2>3, <2>5
<1>4. CASE \E t \in Tab : Add(t)
  BY <1>4 DEF Add, tabs, server, TabTypes, FramesSound, RingsSound, ScreensSound, WelcomeSound,
              JoinedBothAsked
<1> QED
  BY <1>1, <1>2, <1>3, <1>4

\* A tab takes in what it is told: a ring it shows is its peer's, an acceptance
\* that both have asked.
LEMMA TabsKeepEvidence ==
  ASSUME NEW d, DM = {d}, Evidence, NEW t \in Tab, OnRing(t) \/ OnResponse(t) \/ OnEnd(t)
  PROVE  Evidence'
<1> USE OwnerAssumption DEF Evidence
<1> DEFINE f == Head(in[t])
<1>0. PICK types : Receive(t, types)
  BY DEF OnRing, OnResponse, OnEnd
<1>1. f \in Told(asked, Owner[t]) /\ f \in Frame /\ f.dm = d
  <2>1. f \in Told(asked, Owner[t])
    BY <1>0, Taken DEF Receive, FramesSound
  <2> QED
    BY <2>1 DEF Told, Frame
<1>2. /\ UNCHANGED <<asked, out, task>> /\ in' = [in EXCEPT ![t] = Tail(@)]
      /\ RingsSound' /\ WelcomeSound'
  BY <1>0 DEF Receive, server, net, RingsSound, WelcomeSound
<1>3. FramesSound'
  <2>1. Tail(in[t]) \in Seq(Frame) /\ Tail(in[t]) \in Seq(Told(asked, Owner[t]))
    BY <1>0, Taken DEF Receive, FramesSound
  <2> QED
    BY <1>2, <2>1 DEF FramesSound
<1>4. CASE OnRing(t)
  <2>1. call' = call /\ Peer(d, Owner[t]) \in asked[d]
    BY <1>1, <1>4 DEF OnRing, Receive, Told
  <2>2. \/ ringState' = ringState
        \/ ringState' = [ringState EXCEPT ![t] = [dm |-> d, dir |-> "incoming"]]
    BY <1>1, <1>4 DEF OnRing
  <2>3. TabTypes' /\ JoinedBothAsked'
    BY <1>2, <2>1, <2>2 DEF TabTypes, Shown, JoinedBothAsked
  <2>4. ScreensSound'
    BY <1>2, <2>1, <2>2 DEF TabTypes, ScreensSound
  <2> QED
    BY <1>2, <1>3, <2>3, <2>4
<1>5. CASE OnResponse(t)
  <2>1. ringState' = [ringState EXCEPT ![t] = None]
    BY <1>5 DEF OnResponse
  <2>2. call' = call \/ (call' = [call EXCEPT ![t] = d] /\ asked[d] = Members[d])
    <3>1. ringState[t] # None => ringState[t].dm = d
      BY DEF TabTypes, Shown
    <3>2. f.type = "yes" => asked[d] = Members[d]
      BY <1>1 DEF Told, BothAsked
    <3> QED
      BY <1>5, <3>1, <3>2 DEF OnResponse
  <2>3. TabTypes'
    BY <1>2, <2>1, <2>2 DEF TabTypes
  <2>4. ScreensSound'
    BY <1>2, <2>1 DEF TabTypes, ScreensSound
  <2>5. JoinedBothAsked'
    BY <1>2, <2>2 DEF TabTypes, JoinedBothAsked
  <2> QED
    BY <1>2, <1>3, <2>3, <2>4, <2>5
<1>6. CASE OnEnd(t)
  <2>1. call' = call /\ (ringState' = ringState \/ ringState' = [ringState EXCEPT ![t] = None])
    BY <1>6 DEF OnEnd
  <2>2. TabTypes' /\ ScreensSound' /\ JoinedBothAsked'
    BY <1>2, <2>1 DEF TabTypes, ScreensSound, JoinedBothAsked
  <2> QED
    BY <1>2, <1>3, <2>2
<1> QED
  BY <1>4, <1>5, <1>6

-----------------------------------------------------------------------------
(* Rings that do not overlap. What a tab is going to show is what the last *)
(* frame on its way to it says, or what it shows if there is none.         *)

Shows(t) ==
  IF in[t] = <<>> THEN ringState[t] # None ELSE in[t][Len(in[t])].type = "ring"

\* A handler has still to tell user u that it rings, that it does no more.
TellsRing(u) ==
  \E s \in Tab : \E i \in DOMAIN task[s] : task[s][i].to = u /\ task[s][i].frame.type = "ring"
TellsEnd(u) ==
  \E s \in Tab : \E i \in DOMAIN task[s] : task[s][i].to = u /\ task[s][i].frame.type # "ring"

HasRung(t) == \E i \in DOMAIN out[t] : out[t][i].type = "ring"
HasAnswered(t) == \E i \in DOMAIN out[t] : out[t][i].type \in {"yes", "no"}
Greeted(t) == conn[t] = "opening" \/ welcome[t] # {}

\* One handler, timer or opening at a time is at work, and what it has still to
\* send is what the server has recorded.
OneAtWork ==
  /\ \A s, t \in Tab : task[s] # <<>> /\ task[t] # <<>> => s = t
  /\ \A s, t \in Tab : Greeted(t) => task[s] = <<>>
  /\ expired # {} => \A t \in Tab : task[t] = <<>> /\ ~Greeted(t)
Recorded(d) ==
  /\ expired # {} => rings[d] # None /\ expired = {[dm |-> d, ring |-> rings[d]]}
  /\ \A t \in Tab : \A i \in DOMAIN task[t] : task[t][i].frame.type = "ring" <=> rings[d] # None
  /\ \A t \in Tab : welcome[t] # {} => rings[d] # None

\* A tab that shows a ring, or is about to, will hear of its end; one of the
\* callee that does not has answered or will hear of the ring.
WillEnd(d, t) == Shows(t) => rings[d] # None \/ TellsEnd(Owner[t]) \/ HasRung(t)
WillRing(d, t) ==
  conn[t] # "down" /\ rings[d] # None /\ rings[d].by # Owner[t]
    => Shows(t) \/ TellsRing(Owner[t]) \/ d \in welcome[t] \/ HasAnswered(t)

\* Nothing is under way on a connection that is not open.
Silent ==
  \A t \in Tab : conn[t] # "up" =>
    in[t] = <<>> /\ out[t] = <<>> /\ (t \notin missed => ringState[t] = None)

Wired ==
  /\ conn \in [Tab -> {"down", "opening", "up"}] /\ raced \in BOOLEAN /\ missed \subseteq Tab
  /\ Silent
Orderly(d) ==
  ~raced => OneAtWork /\ Recorded(d) /\ \A t \in Tab \ missed : WillEnd(d, t) /\ WillRing(d, t)

\* What a queue has at its ends.
LEMMA Ends ==
  ASSUME NEW S, NEW q \in Seq(S), NEW e \in S
  PROVE  /\ Append(q, e) # <<>> /\ Append(q, e)[Len(Append(q, e))] = e
         /\ \A i \in DOMAIN q : i \in DOMAIN Append(q, e) /\ Append(q, e)[i] = q[i]
         /\ \E i \in DOMAIN Append(q, e) : Append(q, e)[i] = e
<1>1. /\ Append(q, e) \in Seq(S) /\ Len(Append(q, e)) = Len(q) + 1 /\ Len(q) \in Nat
      /\ DOMAIN Append(q, e) = 1..(Len(q) + 1) /\ DOMAIN q = 1..Len(q)
      /\ Append(q, e)[Len(q) + 1] = e /\ \A i \in 1..Len(q) : Append(q, e)[i] = q[i]
  OBVIOUS
<1>2. Append(q, e) # <<>>
  BY <1>1
<1>3. Len(q) + 1 \in DOMAIN Append(q, e)
  BY <1>1
<1>4. \A i \in DOMAIN q : i \in DOMAIN Append(q, e)
  BY <1>1
<1> QED
  BY <1>1, <1>2, <1>3, <1>4

LEMMA Starts ==
  ASSUME NEW S, NEW q \in Seq(S), q # <<>>
  PROVE  /\ Head(q) = q[1] /\ 1 \in DOMAIN q
         /\ Tail(q) = <<>> => q[Len(q)] = Head(q)
         /\ Tail(q) # <<>> => Tail(q)[Len(Tail(q))] = q[Len(q)]
         /\ \A i \in DOMAIN Tail(q) : i + 1 \in DOMAIN q /\ Tail(q)[i] = q[i + 1]
         /\ \A i \in DOMAIN q : i = 1 \/ (i - 1 \in DOMAIN Tail(q) /\ Tail(q)[i - 1] = q[i])
<1> DEFINE t == Tail(q)
           n == Len(q)
<1>1. /\ t \in Seq(S) /\ Head(q) = q[1] /\ n \in Nat \ {0}
      /\ DOMAIN q = 1..n /\ DOMAIN t = 1..(n - 1) /\ Len(t) = n - 1
      /\ \A i \in 1..(n - 1) : t[i] = q[i + 1]
  OBVIOUS
<1> HIDE DEF t
<1>0. t = <<>> <=> n = 1
  <2>1. Len(t) = 0 <=> t = <<>>
    BY <1>1
  <2> QED
    BY <1>1, <2>1
<1>2. t # <<>> => t[Len(t)] = q[n]
  <2> SUFFICES ASSUME n # 1 PROVE t[Len(t)] = q[n]
    BY <1>0
  <2>1. n - 1 \in 1..(n - 1) /\ (n - 1) + 1 = n
    BY <1>1
  <2> QED
    BY <1>1, <2>1
<1>3. \A i \in DOMAIN t : i + 1 \in DOMAIN q /\ t[i] = q[i + 1]
  <2>1. \A i \in 1..(n - 1) : i + 1 \in 1..n
    BY <1>1
  <2> QED
    BY <1>1, <2>1
<1>4. \A i \in DOMAIN q : i = 1 \/ (i - 1 \in DOMAIN t /\ t[i - 1] = q[i])
  <2> SUFFICES ASSUME NEW i \in 1..n, i # 1 PROVE i - 1 \in 1..(n - 1) /\ t[i - 1] = q[i]
    BY <1>1
  <2>1. i - 1 \in 1..(n - 1) /\ (i - 1) + 1 = i
    BY <1>1
  <2> QED
    BY <1>1, <2>1
<1> QED
  BY <1>0, <1>1, <1>2, <1>3, <1>4 DEF t

\* With nothing at work on the DM there is no handler, opening or timer.
LEMMA NoOverlap ==
  ASSUME NEW d, DM = {d}, Evidence, NEW self, ~Overlap(d, self)
  PROVE  /\ \A s \in Tab \ {self} : task[s] = <<>>
         /\ \A s \in Tab : ~Greeted(s)
         /\ expired = {}
<1>1. ASSUME NEW s \in Tab \ {self}, task[s] # <<>> PROVE FALSE
  <2>1. task[s] \in Seq(Sends)
    BY DEF Evidence, FramesSound
  <2>2. Head(task[s]) = task[s][1] /\ 1 \in DOMAIN task[s] /\ Head(task[s]) \in Sends
    BY <1>1, <2>1, Starts, Taken
  <2>3. task[s][1].frame.dm = d
    BY <2>2 DEF Sends, Frame
  <2> QED
    BY <2>2, <2>3 DEF Overlap
<1>2. \A s \in Tab : Owner[s] \in Members[d]
  BY OwnerAssumption DEF User
<1>3. \A s \in Tab : ~Greeted(s)
  BY <1>2 DEF Overlap, Greeted
<1>4. expired = {}
  BY DEF Overlap, Evidence, RingsSound
<1> QED
  BY <1>1, <1>3, <1>4

\* One lemma per group of actions.

\* What a user does is on its way to the server, or is known to be lost.
LEMMA UsersKeepOrder ==
  ASSUME NEW d, DM = {d}, Evidence, Wired, Orderly(d), NEW t \in Tab,
         PlaceRing(t, d) \/ Accept(t) \/ Decline(t)
  PROVE  Wired' /\ Orderly(d)'
<1>1. PICK f \in Frame :
        /\ Transmit(t, f) /\ f.type \in {"ring", "yes", "no"}
        /\ f.type = "ring" <=> ringState'[t] # None
  <2>1. \A type \in {"ring", "yes", "no"} : F(type, d) \in Frame /\ F(type, d).type = type
    BY DEF F, Frame
  <2>2. ringState[t] # None => ringState[t].dm = d
    BY DEF Evidence, TabTypes, Shown
  <2>3. CASE PlaceRing(t, d)
    <3>1. [dm |-> d, dir |-> "outgoing"] # None
      BY NoneAssumption DEF Shown
    <3> QED
      BY <2>1, <2>3, <3>1 DEF PlaceRing, Evidence, TabTypes
  <2>4. CASE Accept(t)
    BY <2>1, <2>2, <2>4 DEF Accept, Evidence, TabTypes
  <2>5. CASE Decline(t)
    BY <2>1, <2>2, <2>5 DEF Decline, Evidence, TabTypes
  <2> QED
    BY <2>3, <2>4, <2>5
<1>2. /\ UNCHANGED <<in, task, rings, expired, conn, welcome, raced>>
      /\ \A s \in Tab \ {t} : ringState'[s] = ringState[s]
  BY DEF PlaceRing, Accept, Decline, server, net, Evidence, TabTypes
<1>3. /\ \A s \in Tab \ {t} : out'[s] = out[s]
      /\ conn[t] = "up" => missed' = missed /\ out'[t] = Append(out[t], f)
      /\ conn[t] # "up" => missed' = missed \cup {t} /\ out' = out
  BY <1>1 DEF Transmit, Evidence, FramesSound
<1>4. Wired'
  BY <1>2, <1>3 DEF Wired, Silent
<1>5. ~raced => OneAtWork' /\ Recorded(d)'
  BY <1>2 DEF Orderly, OneAtWork, Recorded, Greeted
<1>6. ASSUME NEW s \in Tab \ missed', ~raced PROVE WillEnd(d, s)' /\ WillRing(d, s)'
  <2>1. s \notin missed /\ WillEnd(d, s) /\ WillRing(d, s)
    BY <1>3, <1>6 DEF Orderly
  <2>2. CASE s # t
    BY <1>2, <1>3, <2>1, <2>2
    DEF WillEnd, WillRing, Shows, TellsEnd, TellsRing, HasRung, HasAnswered
  <2>3. CASE s = t
    <3>1. conn[t] = "up" /\ out[t] \in Seq(Frame) /\ out'[t] = Append(out[t], f)
      BY <1>3, <2>3 DEF Evidence, FramesSound
    <3>2. /\ HasRung(t) => HasRung(t)'
          /\ HasAnswered(t) => HasAnswered(t)'
          /\ f.type = "ring" => HasRung(t)'
          /\ f.type \in {"yes", "no"} => HasAnswered(t)'
      BY <3>1, Ends DEF HasRung, HasAnswered
    <3>3. CASE f.type = "ring"
      BY <1>1, <1>2, <2>1, <2>3, <3>2, <3>3
      DEF WillEnd, WillRing, Shows, TellsEnd, TellsRing
    <3>4. CASE f.type \in {"yes", "no"}
      BY <1>1, <1>2, <2>1, <2>3, <3>2, <3>4
      DEF WillEnd, WillRing, Shows, TellsEnd, TellsRing
    <3> QED
      BY <1>1, <3>3, <3>4
  <2> QED
    BY <2>2, <2>3
<1> QED
  BY <1>2, <1>4, <1>5, <1>6 DEF Orderly

\* The server handles a frame with nothing else at work on the DM.
LEMMA ServerKeepsOrder ==
  ASSUME NEW d, DM = {d}, Evidence, Wired, Orderly(d), NEW t \in Tab,
         HandleRing(t) \/ HandleResponse(t)
  PROVE  Wired' /\ Orderly(d)'
<1> DEFINE f == Head(out[t])
<1>0. PICK types : Handle(t, types)
  BY DEF HandleRing, HandleResponse
<1>1. f \in Frame /\ f.dm = d /\ out[t] \in Seq(Frame) /\ out[t] # <<>>
  <2>1. out[t] \in Seq(Frame) /\ out[t] # <<>>
    BY <1>0 DEF Handle, Evidence, FramesSound
  <2>2. f \in Frame
    BY <2>1, Taken
  <2> QED
    BY <2>1, <2>2 DEF Frame
<1>2. /\ UNCHANGED <<ringState, in, conn, welcome, missed>>
      /\ out' = [out EXCEPT ![t] = Tail(@)] /\ task[t] = <<>>
      /\ raced' = (raced \/ Overlap(d, t))
  BY <1>0, <1>1 DEF Handle, tabs, net
<1>3. Wired'
  <2>1. conn[t] # "up" => out[t] = <<>>
    BY DEF Wired, Silent
  <2>2. conn[t] = "up"
    BY <1>1, <2>1
  <2>3. \A s \in Tab : conn[s] # "up" => out'[s] = out[s]
    BY <1>2, <2>2 DEF Evidence, FramesSound
  <2> QED
    BY <1>2, <2>3 DEF Wired, Silent
<1>4. Orderly(d)'
  <2> SUFFICES ASSUME ~raced'
               PROVE  /\ OneAtWork' /\ Recorded(d)'
                      /\ \A s \in Tab \ missed' : WillEnd(d, s)' /\ WillRing(d, s)'
    BY DEF Orderly
  <2>1. /\ ~raced /\ \A s \in Tab : task[s] = <<>> /\ ~Greeted(s)
        /\ expired = {}
    BY <1>2, NoOverlap DEF Wired
  <2>2. /\ OneAtWork /\ Recorded(d)
        /\ \A s \in Tab \ missed : WillEnd(d, s) /\ WillRing(d, s)
    BY <2>1 DEF Orderly
  <2>3. /\ \A s \in Tab \ {t} : task'[s] = <<>>
        /\ \A s \in Tab : ~Greeted(s)' /\ welcome'[s] = {}
        /\ expired' = {}
    BY <1>2, <2>1 DEF HandleRing, HandleResponse, Greeted, Evidence, FramesSound
  <2>4. OneAtWork'
    BY <2>3 DEF OneAtWork
  <2>5. /\ Owner[t] \in User /\ Peer(d, Owner[t]) \in User
        /\ User = {Owner[t], Peer(d, Owner[t])}
    BY TwoUsers, OwnerAssumption
  <2>6. \A s \in Tab : Owner[s] \in User
    BY OwnerAssumption
  <2> HIDE DEF f
  <2>7. CASE HandleRing(t)
    <3> PICK x : x = [to |-> Peer(d, Owner[t]), frame |-> F("ring", d)]
      OBVIOUS
    <3>1. task'[t] = <<x>> /\ x.to = Peer(d, Owner[t]) /\ x.frame.type = "ring"
      BY <1>1, <2>7 DEF HandleRing, Evidence, FramesSound, F, f
    <3>2. rings'[d] # None /\ rings'[d].by = Owner[t]
      <4>1. PICK i \in FreshIds : rings' = [rings EXCEPT ![d] = [by |-> Owner[t], id |-> i]]
        BY <1>1, <2>7 DEF HandleRing, f
      <4>2. [by |-> Owner[t], id |-> i] # None
        BY <2>5, NoneAssumption DEF Pending, FreshIds
      <4>3. rings' = [e \in DM |-> IF e = d THEN [by |-> Owner[t], id |-> i] ELSE rings[e]]
        BY <4>1 DEF Evidence, RingsSound
      <4> QED
        BY <4>2, <4>3
    <3>3. DOMAIN task'[t] = {1} /\ task'[t][1] = x
      BY <3>1
    <3>4. Recorded(d)'
      BY <2>3, <3>1, <3>2, <3>3 DEF Recorded
    <3>5. \A s \in Tab : Owner[s] # Owner[t] => TellsRing(Owner[s])'
      BY <2>5, <2>6, <3>1, <3>3 DEF TellsRing
    <3> QED
      BY <2>4, <3>2, <3>4, <3>5 DEF WillEnd, WillRing
  <2>8. CASE HandleResponse(t)
    <3> PICK x, y : /\ x = [to |-> Peer(d, Owner[t]), frame |-> f]
                    /\ y = [to |-> Owner[t], frame |-> F("dismissed", d)]
      OBVIOUS
    <3>1. /\ task'[t] = <<x, y>> /\ x.to = Peer(d, Owner[t]) /\ x.frame.type # "ring"
          /\ y.to = Owner[t] /\ y.frame.type # "ring"
      BY <1>1, <2>8 DEF HandleResponse, Handle, Evidence, FramesSound, F, f
    <3>2. rings'[d] = None
      BY <1>1, <2>8 DEF HandleResponse, f, Evidence, RingsSound
    <3>3. DOMAIN task'[t] = {1, 2} /\ task'[t][1] = x /\ task'[t][2] = y
      BY <3>1
    <3>4. Recorded(d)'
      BY <2>3, <3>1, <3>2, <3>3 DEF Recorded
    <3>5. \A s \in Tab : TellsEnd(Owner[s])'
      BY <2>5, <2>6, <3>1, <3>3 DEF TellsEnd
    <3> QED
      BY <2>4, <3>2, <3>4, <3>5 DEF WillEnd, WillRing
  <2> QED
    BY <2>7, <2>8
<1> QED
  BY <1>3, <1>4

\* What a handler still had to send is sent: a ring while one is pending, and
\* else the end of it.
LEMMA RelayKeepsOrder ==
  ASSUME NEW d, DM = {d}, Evidence, Wired, Orderly(d), NEW t \in Tab, Relay(t)
  PROVE  Wired' /\ Orderly(d)'
<1> PICK x : x = Head(task[t])
  OBVIOUS
<1>1. /\ UNCHANGED <<ringState, out, rings, expired, conn, welcome, missed, raced>>
      /\ task' = [task EXCEPT ![t] = Tail(@)] /\ task[t] # <<>>
      /\ in' = [s \in Tab |-> IF Owner[s] = x.to /\ conn[s] = "up"
                                THEN Append(in[s], x.frame) ELSE in[s]]
  BY DEF Relay, SendToUser, tabs, server, net
<1>2. task[t] \in Seq(Sends) /\ x \in Sends
  BY <1>1, Taken DEF Evidence, FramesSound
<1>3. /\ x = task[t][1] /\ 1 \in DOMAIN task[t]
      /\ \A i \in DOMAIN Tail(task[t]) :
           i + 1 \in DOMAIN task[t] /\ Tail(task[t])[i] = task[t][i + 1]
      /\ \A i \in DOMAIN task[t] :
           i = 1 \/ (i - 1 \in DOMAIN Tail(task[t]) /\ Tail(task[t])[i - 1] = task[t][i])
  BY <1>1, <1>2, Starts
<1>4. task'[t] = Tail(task[t]) /\ \A s \in Tab \ {t} : task'[s] = task[s]
  BY <1>1 DEF Evidence, FramesSound
<1>5. Wired'
  BY <1>1 DEF Wired, Silent
<1>6. Orderly(d)'
  <2> SUFFICES ASSUME ~raced'
               PROVE  /\ OneAtWork' /\ Recorded(d)'
                      /\ \A s \in Tab \ missed' : WillEnd(d, s)' /\ WillRing(d, s)'
    BY DEF Orderly
  <2>1. /\ OneAtWork /\ Recorded(d)
        /\ \A s \in Tab \ missed : WillEnd(d, s) /\ WillRing(d, s)
    BY <1>1 DEF Orderly
  <2>2. /\ \A s \in Tab \ {t} : task[s] = <<>>
        /\ \A s \in Tab : ~Greeted(s)
        /\ expired = {}
    BY <1>1, <2>1 DEF OneAtWork
  <2>3. OneAtWork'
    BY <1>1, <1>4, <2>2 DEF OneAtWork, Greeted
  <2>4. Recorded(d)'
    <3>1. ASSUME NEW s \in Tab, NEW i \in DOMAIN task'[s]
          PROVE  task'[s][i].frame.type = "ring" <=> rings[d] # None
      <4>1. CASE s = t
        <5>1. i \in DOMAIN Tail(task[t]) /\ task'[s][i] = Tail(task[t])[i]
          BY <1>4, <4>1
        <5>2. i + 1 \in DOMAIN task[t] /\ task'[s][i] = task[t][i + 1]
          BY <1>3, <5>1
        <5> QED
          BY <2>1, <5>2 DEF Recorded
      <4>2. CASE s # t
        BY <1>4, <2>1, <4>2 DEF Recorded
      <4> QED
        BY <4>1, <4>2
    <3> QED
      BY <1>1, <2>1, <3>1 DEF Recorded
  <2>5. x.frame.type = "ring" <=> rings[d] # None
    BY <1>3, <2>1 DEF Recorded
  <2>6. ASSUME NEW s \in Tab \ missed PROVE WillEnd(d, s)' /\ WillRing(d, s)'
    <3>1. CASE Owner[s] = x.to /\ conn[s] = "up"
      <4>1. in[s] \in Seq(Frame) /\ x.frame \in Frame /\ in'[s] = Append(in[s], x.frame)
        BY <1>1, <1>2, <3>1 DEF Evidence, FramesSound, Sends
      <4>2. Shows(s)' <=> x.frame.type = "ring"
        BY <4>1, Ends DEF Shows
      <4> QED
        BY <1>1, <2>5, <4>2 DEF WillEnd, WillRing
    <3>2. CASE Owner[s] # x.to
      <4>1. in'[s] = in[s]
        BY <1>1, <3>2
      <4>2. ASSUME NEW q \in Tab, NEW i \in DOMAIN task[q], task[q][i].to = Owner[s]
            PROVE  \E k \in DOMAIN task'[q] : task'[q][k] = task[q][i]
        <5>1. CASE q = t
          <6>1. i # 1
            BY <1>3, <3>2, <4>2, <5>1
          <6>2. i - 1 \in DOMAIN Tail(task[t]) /\ Tail(task[t])[i - 1] = task[q][i]
            BY <1>3, <5>1, <6>1
          <6> QED
            BY <1>4, <5>1, <6>2
        <5>2. CASE q # t
          BY <1>4, <5>2
        <5> QED
          BY <5>1, <5>2
      <4>3. /\ TellsRing(Owner[s]) => TellsRing(Owner[s])'
            /\ TellsEnd(Owner[s]) => TellsEnd(Owner[s])'
        BY <4>2 DEF TellsRing, TellsEnd
      <4> QED
        BY <1>1, <2>1, <4>1, <4>3 DEF WillEnd, WillRing, Shows, HasRung, HasAnswered
    <3>3. CASE conn[s] # "up"
      <4>1. in'[s] = <<>> /\ ringState'[s] = None
        BY <1>1, <3>3 DEF Wired, Silent
      <4>2. conn'[s] = "down"
        BY <1>1, <2>2, <3>3 DEF Wired, Greeted
      <4> QED
        BY <4>1, <4>2 DEF WillEnd, WillRing, Shows
    <3> QED
      BY <3>1, <3>2, <3>3
  <2> QED
    BY <1>1, <2>3, <2>4, <2>6
<1> QED
  BY <1>5, <1>6

\* A timer has gone off: whoever is there hears of it.
LEMMA TimersKeepOrder ==
  ASSUME NEW d, DM = {d}, Evidence, Wired, Orderly(d),
         Expire(d) \/ \E x \in expired : Timeout(x)
  PROVE  Wired' /\ Orderly(d)'
<1>1. CASE Expire(d)
  <2>1. /\ UNCHANGED <<ringState, out, in, task, rings, conn, welcome, missed>>
        /\ rings[d] # None /\ expired' = expired \cup {[dm |-> d, ring |-> rings[d]]}
        /\ raced' = (raced \/ Overlap(d, None))
    BY <1>1 DEF Expire, tabs, net
  <2>2. Wired'
    BY <2>1 DEF Wired, Silent
  <2>3. ASSUME ~raced'
        PROVE  /\ OneAtWork' /\ Recorded(d)'
               /\ \A s \in Tab \ missed' : WillEnd(d, s)' /\ WillRing(d, s)'
    <3>1. /\ ~raced /\ \A s \in Tab : task[s] = <<>> /\ ~Greeted(s)
          /\ expired = {}
      BY <2>1, <2>3, NoOverlap, NoneAssumption DEF Wired
    <3>2. /\ OneAtWork /\ Recorded(d)
          /\ \A s \in Tab \ missed : WillEnd(d, s) /\ WillRing(d, s)
      BY <3>1 DEF Orderly
    <3>3. OneAtWork' /\ Recorded(d)'
      BY <2>1, <3>1, <3>2 DEF OneAtWork, Recorded, Greeted
    <3> QED
      BY <2>1, <3>2, <3>3
      DEF WillEnd, WillRing, Shows, TellsEnd, TellsRing, HasRung, HasAnswered
  <2> QED
    BY <2>2, <2>3 DEF Orderly
<1>2. ASSUME NEW x \in expired, Timeout(x) PROVE Wired' /\ Orderly(d)'
  <2>1. /\ UNCHANGED <<ringState, out, task, conn, welcome, missed, raced>>
        /\ expired' = expired \ {x}
        /\ rings' = [rings EXCEPT ![x.dm] = IF @ = x.ring THEN None ELSE @]
        /\ in' = [s \in Tab |-> IF Owner[s] \in Members[x.dm] /\ conn[s] = "up"
                                  THEN Append(in[s], F("timeout", x.dm)) ELSE in[s]]
    BY <1>2 DEF Timeout, tabs, net
  <2>2. Wired'
    BY <2>1 DEF Wired, Silent
  <2>3. ASSUME ~raced'
        PROVE  /\ OneAtWork' /\ Recorded(d)'
               /\ \A s \in Tab \ missed' : WillEnd(d, s)' /\ WillRing(d, s)'
    <3>1. OneAtWork /\ Recorded(d)
      BY <2>1, <2>3 DEF Orderly
    <3>2. x.dm = d /\ x.ring = rings[d] /\ expired' = {}
      BY <2>1, <3>1 DEF Recorded
    <3>3. \A s \in Tab : task[s] = <<>> /\ ~Greeted(s)
      BY <3>1 DEF OneAtWork
    <3>4. rings'[d] = None
      BY <2>1, <3>2 DEF Evidence, RingsSound
    <3>5. OneAtWork' /\ Recorded(d)'
      BY <2>1, <3>2, <3>3 DEF OneAtWork, Recorded, Greeted
    <3>6. ASSUME NEW s \in Tab \ missed PROVE ~Shows(s)'
      <4>1. CASE conn[s] = "up"
        <5>1. Owner[s] \in Members[d]
          BY OwnerAssumption DEF User
        <5>2. in[s] \in Seq(Frame) /\ F("timeout", d) \in Frame /\ F("timeout", d).type = "timeout"
          BY DEF Evidence, FramesSound, F, Frame
        <5>3. in'[s] = Append(in[s], F("timeout", d))
          BY <2>1, <3>2, <4>1, <5>1
        <5> QED
          BY <5>2, <5>3, Ends DEF Shows
      <4>2. CASE conn[s] # "up"
        BY <2>1, <4>2 DEF Wired, Silent, Shows
      <4> QED
        BY <4>1, <4>2
    <3> QED
      BY <2>1, <3>4, <3>5, <3>6 DEF WillEnd, WillRing
  <2> QED
    BY <2>2, <2>3 DEF Orderly
<1> QED
  BY <1>1, <1>2

\* A connection is lost, opened, registered and told of the pending ring.
LEMMA ConnectionsKeepOrder ==
  ASSUME NEW d, DM = {d}, Evidence, Wired, Orderly(d), NEW t \in Tab,
         Drop(t) \/ Open(t) \/ Add(t) \/ Welcome(t)
  PROVE  Wired' /\ Orderly(d)'
<1>1. UNCHANGED <<ringState, task, rings, expired>>
  BY DEF Drop, Open, Add, Welcome, tabs, server
<1>2. /\ \A s \in Tab \ {t} : /\ in'[s] = in[s] /\ out'[s] = out[s]
                              /\ conn'[s] = conn[s] /\ welcome'[s] = welcome[s]
      /\ missed \subseteq missed' /\ missed' \subseteq missed \cup {t}
      /\ conn' \in [Tab -> {"down", "opening", "up"}] /\ raced' \in BOOLEAN
  BY DEF Drop, Open, Add, Welcome, Wired, Evidence, FramesSound, WelcomeSound
<1>3. ASSUME NEW s \in Tab \ {t}
      PROVE  /\ WillEnd(d, s) => WillEnd(d, s)'
             /\ WillRing(d, s) => WillRing(d, s)'
             /\ Greeted(s)' <=> Greeted(s)
  BY <1>1, <1>2
  DEF WillEnd, WillRing, Shows, TellsEnd, TellsRing, HasRung, HasAnswered, Greeted
<1>4. ASSUME conn'[t] # "up" => /\ in'[t] = <<>> /\ out'[t] = <<>>
                                /\ t \notin missed' => ringState[t] = None
      PROVE  Wired'
  BY <1>1, <1>2, <1>4 DEF Wired, Silent
<1>5. CASE Drop(t)
  <2>1. /\ in'[t] = <<>> /\ out'[t] = <<>> /\ welcome'[t] = {} /\ conn'[t] = "down"
        /\ t \notin missed' => ringState[t] = None
        /\ UNCHANGED raced
    BY <1>5 DEF Drop, Evidence, FramesSound, WelcomeSound, Wired
  <2>2. ~raced => OneAtWork' /\ Recorded(d)'
    BY <1>1, <1>2, <1>3, <2>1 DEF Orderly, OneAtWork, Recorded, Greeted
  <2>3. t \notin missed' => WillEnd(d, t)' /\ WillRing(d, t)'
    BY <1>1, <2>1 DEF WillEnd, WillRing, Shows
  <2> QED
    BY <1>2, <1>3, <1>4, <2>1, <2>2, <2>3 DEF Orderly
<1>6. CASE Open(t)
  <2>1. /\ UNCHANGED <<in, out, missed>> /\ conn[t] = "down" /\ conn'[t] = "opening"
        /\ welcome'[t] = PendingRingFrames(Owner[t]) /\ task[t] = <<>>
        /\ raced' = (raced \/ \E e \in DM : Owner[t] \in Members[e] /\ Overlap(e, t))
    BY <1>6 DEF Open, Wired, WelcomeSound, Evidence
  <2>2. Owner[t] \in Members[d]
    BY OwnerAssumption DEF User
  <2>3. ASSUME ~raced'
        PROVE  /\ OneAtWork' /\ Recorded(d)'
               /\ \A s \in Tab \ missed' : WillEnd(d, s)' /\ WillRing(d, s)'
    <3>1. /\ ~raced /\ \A s \in Tab : task[s] = <<>> /\ ~Greeted(s)
          /\ expired = {}
      BY <2>1, <2>2, <2>3, NoOverlap DEF Wired
    <3>2. /\ OneAtWork /\ Recorded(d)
          /\ \A s \in Tab \ missed : WillEnd(d, s) /\ WillRing(d, s)
      BY <3>1 DEF Orderly
    <3>3. OneAtWork'
      BY <1>1, <3>1 DEF OneAtWork
    <3>4. welcome'[t] # {} => rings[d] # None
      BY <2>1 DEF PendingRingFrames
    <3>5. Recorded(d)'
      BY <1>1, <1>2, <3>1, <3>2, <3>4 DEF Recorded
    <3>6. t \notin missed' => WillEnd(d, t)' /\ WillRing(d, t)'
      BY <1>1, <2>1, <2>2, <3>2
      DEF WillEnd, WillRing, Shows, TellsEnd, HasRung, PendingRingFrames
    <3> QED
      BY <1>3, <2>1, <3>2, <3>3, <3>5, <3>6
  <2> QED
    BY <1>4, <2>1, <2>3 DEF Orderly, Wired, Silent
<1>7. CASE Add(t)
  <2>1. UNCHANGED <<in, out, missed, welcome, raced>> /\ conn[t] = "opening" /\ conn'[t] = "up"
    BY <1>7 DEF Add, Wired
  <2>2. ~raced => OneAtWork' /\ Recorded(d)'
    BY <1>1, <1>3, <2>1 DEF Orderly, OneAtWork, Recorded, Greeted
  <2>3. ASSUME ~raced, t \notin missed PROVE WillEnd(d, t)' /\ WillRing(d, t)'
    BY <1>1, <2>1, <2>3
    DEF Orderly, WillEnd, WillRing, Shows, TellsEnd, TellsRing, HasRung, HasAnswered
  <2> QED
    BY <1>3, <1>4, <2>1, <2>2, <2>3 DEF Orderly
<1>8. CASE Welcome(t)
  <2>1. PICK e \in welcome[t] : /\ welcome' = [welcome EXCEPT ![t] = @ \ {e}]
                                /\ in' = [in EXCEPT ![t] = Append(@, F("ring", e))]
    BY <1>8 DEF Welcome
  <2>2. UNCHANGED <<out, missed, conn, raced>> /\ conn[t] = "up" /\ e = d
    BY <1>8 DEF Welcome, Evidence, WelcomeSound
  <2>3. ASSUME ~raced'
        PROVE  /\ OneAtWork' /\ Recorded(d)'
               /\ \A s \in Tab \ missed' : WillEnd(d, s)' /\ WillRing(d, s)'
    <3>1. /\ OneAtWork /\ Recorded(d)
          /\ \A s \in Tab \ missed : WillEnd(d, s) /\ WillRing(d, s)
      BY <2>2, <2>3 DEF Orderly
    <3>2. /\ rings[d] # None /\ \A s \in Tab : task[s] = <<>>
          /\ expired = {}
      BY <2>1, <3>1 DEF OneAtWork, Recorded, Greeted
    <3>3. OneAtWork' /\ Recorded(d)'
      BY <1>1, <3>2 DEF OneAtWork, Recorded
    <3>4. Shows(t)'
      <4>1. in[t] \in Seq(Frame) /\ F("ring", d) \in Frame /\ F("ring", d).type = "ring"
        BY DEF Evidence, FramesSound, F, Frame
      <4>2. in'[t] = Append(in[t], F("ring", d))
        BY <2>1, <2>2 DEF Evidence, FramesSound
      <4> QED
        BY <4>1, <4>2, Ends DEF Shows
    <3>5. WillEnd(d, t)' /\ WillRing(d, t)'
      BY <1>1, <3>2, <3>4 DEF WillEnd, WillRing
    <3> QED
      BY <1>3, <2>2, <3>1, <3>3, <3>5
  <2> QED
    BY <1>4, <2>2, <2>3 DEF Orderly
<1> QED
  BY <1>5, <1>6, <1>7, <1>8

\* A tab that takes in a frame comes to show what that frame said.
LEMMA TabsKeepOrder ==
  ASSUME NEW d, DM = {d}, Evidence, Wired, Orderly(d), NEW t \in Tab,
         OnRing(t) \/ OnResponse(t) \/ OnEnd(t)
  PROVE  Wired' /\ Orderly(d)'
<1> PICK q, f : q = in[t] /\ f = Head(in[t])
  OBVIOUS
<1>1. PICK types : Receive(t, types)
  BY DEF OnRing, OnResponse, OnEnd
<1>2. /\ UNCHANGED <<out, task, rings, expired, conn, welcome, missed, raced>>
      /\ q \in Seq(Frame) /\ q # <<>> /\ f \in Frame /\ f.dm = d
      /\ in'[t] = Tail(q) /\ \A s \in Tab \ {t} : in'[s] = in[s]
  <2>1. q \in Seq(Frame) /\ q # <<>>
    BY <1>1 DEF Receive, Evidence, FramesSound
  <2>2. f \in Frame
    BY <2>1, Taken
  <2> QED
    BY <1>1, <2>1, <2>2 DEF Receive, server, net, Evidence, FramesSound, Frame
<1>3. \A s \in Tab \ {t} : ringState'[s] = ringState[s]
  BY DEF OnRing, OnResponse, OnEnd, Evidence, TabTypes
<1>4. ringState'[t] # None <=> f.type = "ring"
  <2>1. CASE OnRing(t)
    <3>1. [dm |-> d, dir |-> "incoming"] # None
      BY NoneAssumption DEF Shown
    <3> QED
      BY <1>2, <2>1, <3>1 DEF OnRing, Receive, Evidence, TabTypes
  <2>2. CASE OnResponse(t)
    BY <2>2 DEF OnResponse, Receive, Evidence, TabTypes
  <2>3. CASE OnEnd(t)
    <3>1. ringState[t] # None => ringState[t].dm = d
      BY DEF Evidence, TabTypes, Shown
    <3> QED
      BY <1>2, <2>3, <3>1 DEF OnEnd, Receive, Evidence, TabTypes
  <2> QED
    BY <2>1, <2>2, <2>3
<1>5. Shows(t)' <=> Shows(t)
  <2>1. CASE Tail(q) = <<>>
    BY <1>2, <1>4, <2>1, Starts DEF Shows
  <2>2. CASE Tail(q) # <<>>
    BY <1>2, <2>2, Starts DEF Shows
  <2> QED
    BY <2>1, <2>2
<1>6. Wired'
  <2>1. conn[t] = "up"
    BY <1>2 DEF Wired, Silent
  <2> QED
    BY <1>2, <1>3, <2>1 DEF Wired, Silent
<1>7. \A s \in Tab : Shows(s)' <=> Shows(s)
  BY <1>2, <1>3, <1>5 DEF Shows
<1>8. \A s \in Tab : /\ WillEnd(d, s)' <=> WillEnd(d, s)
                     /\ WillRing(d, s)' <=> WillRing(d, s)
  BY <1>2, <1>7 DEF WillEnd, WillRing, TellsEnd, TellsRing, HasRung, HasAnswered
<1>9. /\ OneAtWork' <=> OneAtWork
      /\ Recorded(d)' <=> Recorded(d)
  BY <1>2 DEF OneAtWork, Recorded, Greeted
<1> QED
  BY <1>2, <1>6, <1>8, <1>9 DEF Orderly

-----------------------------------------------------------------------------
LEMMA InitEvidence ==
  Init => Evidence
<1> SUFFICES ASSUME Init PROVE Evidence
  OBVIOUS
<1>1. \A S : <<>> \in Seq(S)
  OBVIOUS
<1> QED
  BY <1>1 DEF Init, Evidence, TabTypes, FramesSound, RingsSound, ScreensSound, WelcomeSound,
              JoinedBothAsked

LEMMA StepEvidence ==
  ASSUME NEW d, DM = {d}, Evidence, [Next]_vars
  PROVE  Evidence'
<1>1. CASE Next
  BY <1>1, UsersKeepEvidence, ServerKeepsEvidence, SendingKeepsEvidence,
     ConnectionsKeepEvidence, TabsKeepEvidence DEF Next
<1>2. CASE UNCHANGED vars
  BY <1>2 DEF vars, tabs, server, net, Evidence, TabTypes, FramesSound, RingsSound,
              ScreensSound, WelcomeSound, JoinedBothAsked
<1> QED
  BY <1>1, <1>2

LEMMA InitOrder ==
  ASSUME NEW d, DM = {d}, Init
  PROVE  Wired /\ Orderly(d)
<1>1. /\ \A t \in Tab : /\ in[t] = <<>> /\ out[t] = <<>> /\ task[t] = <<>>
                        /\ ringState[t] = None /\ welcome[t] = {}
      /\ conn \in [Tab -> {"down", "opening", "up"}]
      /\ \A t \in Tab : conn[t] # "opening"
      /\ rings[d] = None /\ expired = {} /\ raced = FALSE /\ missed = {}
  BY DEF Init
<1>2. Wired
  BY <1>1 DEF Wired, Silent
<1>3. OneAtWork /\ Recorded(d)
  BY <1>1 DEF OneAtWork, Recorded, Greeted
<1>4. \A t \in Tab : WillEnd(d, t) /\ WillRing(d, t)
  BY <1>1 DEF WillEnd, WillRing, Shows
<1> QED
  BY <1>2, <1>3, <1>4 DEF Orderly

LEMMA StepOrder ==
  ASSUME NEW d, DM = {d}, Evidence, Wired, Orderly(d), [Next]_vars
  PROVE  Wired' /\ Orderly(d)'
<1>1. CASE Next
  BY <1>1, UsersKeepOrder, ServerKeepsOrder, RelayKeepsOrder, TimersKeepOrder,
     ConnectionsKeepOrder, TabsKeepOrder DEF Next
<1>2. CASE UNCHANGED vars
  BY <1>2 DEF vars, tabs, server, net, Wired, Silent, Orderly, OneAtWork, Recorded, Greeted,
              WillEnd, WillRing, Shows, TellsEnd, TellsRing, HasRung, HasAnswered
<1> QED
  BY <1>1, <1>2

-----------------------------------------------------------------------------
\* With a single DM a tab is in its call only if both users have asked for it:
\* the acceptance that joins them can only answer their own ring, whatever
\* overlaps and whatever is lost (voiceui.js:341).
THEOREM OneDMJoinedBothAsked ==
  ASSUME NEW CONSTANT d, DM = {d}
  PROVE  Spec => []JoinedBothAsked
<1>1. Evidence => JoinedBothAsked
  BY DEF Evidence
<1> QED
  BY <1>1, InitEvidence, StepEvidence, PTL DEF Spec

\* Once nothing is under way no tab shows a ring that is over: declined,
\* cancelled, accepted in another tab or timed out, unless two of these
\* overlapped or the tab's own connection lost what it should have heard.
THEOREM OneDMNoRingLingers ==
  ASSUME NEW CONSTANT d, DM = {d}
  PROVE  Spec => []NoRingLingers
<1> DEFINE Inv == Evidence /\ Wired /\ Orderly(d)
<1>1. Inv => NoRingLingers
  <2> SUFFICES ASSUME Inv, Quiet, ~raced, NEW t \in Tab \ missed, ringState[t] # None
               PROVE  rings[ringState[t].dm] # None
    BY DEF NoRingLingers
  <2>1. ringState[t].dm = d
    BY DEF Evidence, TabTypes, Shown
  <2>2. Shows(t) /\ ~TellsEnd(Owner[t]) /\ ~HasRung(t)
    BY DEF Quiet, Shows, TellsEnd, HasRung
  <2>3. WillEnd(d, t)
    BY DEF Orderly
  <2> QED
    BY <2>1, <2>2, <2>3 DEF WillEnd
<1>2. Init => Inv
  BY InitEvidence, InitOrder
<1>3. Inv /\ [Next]_vars => Inv'
  BY StepEvidence, StepOrder
<1> QED
  BY <1>1, <1>2, <1>3, PTL DEF Spec

\* A pending ring shows on every tab of the callee, one that connected while it
\* was pending too (handlers.go:145), with the same exceptions.
THEOREM OneDMRingReaches ==
  ASSUME NEW CONSTANT d, DM = {d}
  PROVE  Spec => []RingReaches
<1> DEFINE Inv == Evidence /\ Wired /\ Orderly(d)
<1>1. Inv => RingReaches
  <2> SUFFICES ASSUME Inv, Quiet, ~raced, NEW e \in DM, NEW t \in Tab \ missed, rings[e] # None,
                      conn[t] = "up", Owner[t] \in Members[e] \ {rings[e].by}
               PROVE  ringState[t] # None
    BY DEF RingReaches
  <2>1. ~TellsRing(Owner[t]) /\ ~HasAnswered(t) /\ welcome[t] = {}
    BY DEF Quiet, TellsRing, HasAnswered
  <2>2. WillRing(d, t) /\ e = d
    BY DEF Orderly
  <2>3. Shows(t)
    BY <2>1, <2>2 DEF WillRing
  <2> QED
    BY <2>3 DEF Quiet, Shows
<1>2. Init => Inv
  BY InitEvidence, InitOrder
<1>3. Inv /\ [Next]_vars => Inv'
  BY StepEvidence, StepOrder
<1> QED
  BY <1>1, <1>2, <1>3, PTL DEF Spec
=============================================================================
