------------------------- MODULE SecretChat_proofs --------------------------
(* Theorems about SecretChat, for any number of tabs of either user, of    *)
(* offers, texts and faults: typing, and that a secret is never shared by  *)
(* more than one tab of each user, with the directions of the two opposed. *)
EXTENDS SecretChat, TLAPS

TypeOK ==
  /\ sess \in [Tab -> Sessions] /\ request \in [Tab -> BOOLEAN]
  /\ tasks \in [Tab -> SUBSET Tasks] /\ in \in [Tab -> Seq(Frames)]
  /\ up \in SUBSET Tab /\ announce \in [Side -> [on : BOOLEAN, off : Nat]]
  /\ seen \in [Tab -> BOOLEAN] /\ flip \in [Tab -> BOOLEAN]
  /\ limit \in Limits
  /\ offers \in 0..MaxOffers /\ texts \in 0..MaxTexts /\ faults \in 0..MaxFaults
  /\ lost \in SUBSET Tab /\ crossed \in 0..MaxOffers
  /\ overlapped \in SUBSET Offer /\ bunched \in SUBSET Offer

Handshake == {"verify", "derive", "spent"}

\* The tab t may share the secret of offer n with the accepting tab `by`: one of
\* them is the tab `org[n]` that made the offer, the other is the peer's.
Role(org, t, n, by) ==
  \/ by = t /\ Owner(t) # Owner(org[n])
  \/ t = org[n] /\ Owner(by) # Owner(t)

\* What a session, a task of t and a frame under way to t say of the tab that
\* made an offer, if that is org[n].
SessionTraced(org, t, s) ==
  /\ s.phase # "none" => s.n \in 1..offers
  /\ s.phase = "offered" => org[s.n] = t
  /\ s.phase = "incoming" => Owner(org[s.n]) # Owner(t)
  /\ s.phase = "active" =>
       /\ s.send \in Chain /\ s.send.side = Owner(t) /\ Role(org, t, s.n, s.send.by)
       /\ s.recv \in Chain /\ s.recv.side = Peer(t)

TaskTraced(org, t, task) ==
  /\ task.at # "roster" => task.n \in 1..offers
  /\ task.at = "offer" => org[task.n] = t
  /\ task.at = "accept" => Owner(org[task.n]) # Owner(t)
  /\ task.at \in Handshake =>
       /\ org[task.n] = t
       /\ task.for \in 1..offers /\ Owner(task.by) # Owner(org[task.for])
       /\ task.at = "derive" => task.n = task.for
  /\ task.at = "encrypt" => task.chain.side = Owner(t) /\ Role(org, t, task.n, task.chain.by)
  /\ task.at = "decrypt" => task.chain.side = Peer(t)

FrameTraced(org, t, f) ==
  /\ f.type = "offer" => f.n \in 1..offers /\ Owner(org[f.n]) # Owner(t)
  /\ f.type = "accept" => f.n \in 1..offers /\ Owner(f.by) # Owner(org[f.n])

\* The frames of a queue.
Waiting(queue) == {queue[i] : i \in DOMAIN queue}

TracedTo(org) ==
  \A t \in Tab :
    /\ SessionTraced(org, t, sess[t])
    /\ \A task \in tasks[t] : TaskTraced(org, t, task)
    /\ \A f \in Waiting(in[t]) : FrameTraced(org, t, f)

Origins == [Offer -> Tab \cup {None}]

\* Every offer was made by one tab, and all that is left of it goes back there.
Traced == \E org \in Origins : TracedTo(org)

Inv == TypeOK /\ Traced

-----------------------------------------------------------------------------
(* The data and the helpers of the actions.                                *)

LEMMA Bounds ==
  ASSUME TypeOK
  PROVE  /\ limit.tabs \in SUBSET Tab /\ limit.offers \in 0..MaxOffers
         /\ limit.texts \in 0..MaxTexts /\ limit.faults \in 0..MaxFaults
         /\ MaxOffers \in Nat /\ MaxTexts \in Nat /\ MaxFaults \in Nat
  BY BoundsAssumption DEF TypeOK

LEMMA SessionTypes ==
  /\ NoSession \in Sessions /\ NoSession.phase = "none"
  /\ \A phase \in Phase, n \in Offer \cup {0} :
       /\ MakeSession(phase, n) \in Sessions
       /\ MakeSession(phase, n).phase = phase /\ MakeSession(phase, n).n = n
  /\ \A s \in Sessions, phase \in Phase : [s EXCEPT !.phase = phase] \in Sessions
  BY DEF NoSession, NoChain, MakeSession, Sessions, Phase

LEMMA Queues ==
  ASSUME NEW queue \in Seq(Frames)
  PROVE  /\ Waiting(queue) \in SUBSET Frames
         /\ \A f \in Frames : Append(queue, f) \in Seq(Frames)
         /\ \A f \in Frames : Waiting(Append(queue, f)) = Waiting(queue) \cup {f}
         /\ queue # <<>> => /\ Tail(queue) \in Seq(Frames) /\ Head(queue) \in Waiting(queue)
                            /\ Waiting(Tail(queue)) \subseteq Waiting(queue)
<1>1. Waiting(queue) \in SUBSET Frames
  BY DEF Waiting
<1>2. ASSUME NEW f \in Frames
      PROVE  Append(queue, f) \in Seq(Frames) /\ Waiting(Append(queue, f)) = Waiting(queue) \cup {f}
  <2>1. /\ Append(queue, f) \in Seq(Frames)
        /\ DOMAIN Append(queue, f) = 1..(Len(queue) + 1) /\ Len(queue) \in Nat
        /\ \A i \in 1..Len(queue) : Append(queue, f)[i] = queue[i]
        /\ Append(queue, f)[Len(queue) + 1] = f
        /\ DOMAIN queue = 1..Len(queue)
    OBVIOUS
  <2> QED
    BY <2>1 DEF Waiting
<1>3. ASSUME queue # <<>>
      PROVE  /\ Tail(queue) \in Seq(Frames) /\ Head(queue) \in Waiting(queue)
             /\ Waiting(Tail(queue)) \subseteq Waiting(queue)
  <2>1. /\ Tail(queue) \in Seq(Frames) /\ Len(queue) \in Nat \ {0}
        /\ DOMAIN queue = 1..Len(queue) /\ DOMAIN Tail(queue) = 1..(Len(queue) - 1)
        /\ \A i \in DOMAIN Tail(queue) : Tail(queue)[i] = queue[i + 1]
        /\ Head(queue) = queue[1]
    BY <1>3
  <2>2. \A i \in DOMAIN Tail(queue) : i + 1 \in DOMAIN queue
    BY <2>1
  <2> QED
    BY <2>1, <2>2 DEF Waiting
<1> QED
  BY <1>1, <1>2, <1>3

LEMMA Puts ==
  ASSUME TypeOK, NEW t \in Tab, NEW s \in Sessions, Put(t, s)
  PROVE  /\ sess' \in [Tab -> Sessions] /\ sess'[t] = s
         /\ \A q \in Tab \ {t} : sess'[q] = sess[q]
  BY DEF TypeOK, Put

LEMMA Adds ==
  ASSUME TypeOK, NEW t \in Tab, NEW task \in Tasks, Add(t, task)
  PROVE  /\ tasks' \in [Tab -> SUBSET Tasks] /\ tasks'[t] = tasks[t] \cup {task}
         /\ \A q \in Tab \ {t} : tasks'[q] = tasks[q]
<1>1. tasks[t] \cup {task} \in SUBSET Tasks /\ tasks \in [Tab -> SUBSET Tasks]
  BY DEF TypeOK
<1>2. tasks' = [tasks EXCEPT ![t] = tasks[t] \cup {task}]
  BY DEF Add
<1> QED
  BY <1>1, <1>2

LEMMA Dones ==
  ASSUME TypeOK, NEW t \in Tab, NEW task, Done(t, task)
  PROVE  /\ tasks' \in [Tab -> SUBSET Tasks] /\ tasks'[t] \subseteq tasks[t]
         /\ \A q \in Tab \ {t} : tasks'[q] = tasks[q]
<1>1. tasks[t] \ {task} \in SUBSET Tasks /\ tasks \in [Tab -> SUBSET Tasks]
  BY DEF TypeOK
<1>2. tasks' = [tasks EXCEPT ![t] = tasks[t] \ {task}]
  BY DEF Done
<1> QED
  BY <1>1, <1>2

LEMMA Asks ==
  ASSUME TypeOK, NEW t \in Tab, NEW b \in BOOLEAN, Ask(t, b)
  PROVE  request' \in [Tab -> BOOLEAN]
  BY DEF TypeOK, Ask

\* What a relay puts into the queues.
LEMMA Relays ==
  ASSUME TypeOK, NEW t \in Tab, NEW f \in Frames, Relay(t, f)
  PROVE  /\ in' \in [Tab -> Seq(Frames)]
         /\ \A q \in Tab : \A g \in Waiting(in'[q]) \ Waiting(in[q]) :
              (g = f /\ Owner(q) # Owner(t)) \/ g = Frame("dismiss")
<1>1. Frame("dismiss") \in Frames
  BY DEF Frame, Frames
<1>2. \A q \in Tab : in[q] \in Seq(Frames)
  BY DEF TypeOK
<1>3. \A q \in Tab :
        \/ in'[q] = in[q]
        \/ in'[q] = Append(in[q], f) /\ Owner(q) # Owner(t)
        \/ in'[q] = Append(in[q], Frame("dismiss"))
  BY DEF Relay
<1>4. ASSUME NEW q \in Tab
      PROVE  /\ in'[q] \in Seq(Frames)
             /\ \A g \in Waiting(in'[q]) \ Waiting(in[q]) :
                  (g = f /\ Owner(q) # Owner(t)) \/ g = Frame("dismiss")
  <2> DEFINE old == in[q]
             new == in'[q]
  <2>1. old \in Seq(Frames)
    BY <1>2
  <2>2. new = old \/ (new = Append(old, f) /\ Owner(q) # Owner(t)) \/ new = Append(old, Frame("dismiss"))
    BY <1>3
  <2> HIDE DEF old, new
  <2>3. \A g \in Frames : /\ Append(old, g) \in Seq(Frames)
                          /\ Waiting(Append(old, g)) = Waiting(old) \cup {g}
    BY <2>1, Queues
  <2>4. /\ new \in Seq(Frames)
        /\ \A g \in Waiting(new) \ Waiting(old) :
             (g = f /\ Owner(q) # Owner(t)) \/ g = Frame("dismiss")
    BY <1>1, <2>1, <2>2, <2>3
  <2> QED
    BY <2>4 DEF old, new
<1>5. in' \in [Tab -> Seq(Frames)]
  BY <1>4 DEF Relay
<1> QED
  BY <1>4, <1>5

LEMMA Takes ==
  ASSUME TypeOK, NEW t \in Tab, NEW f, Take(t, f)
  PROVE  /\ in' \in [Tab -> Seq(Frames)] /\ f \in Waiting(in[t]) /\ f \in Frames
         /\ \A q \in Tab : Waiting(in'[q]) \subseteq Waiting(in[q])
<1>1. in[t] \in Seq(Frames) /\ in[t] # <<>> /\ f = Head(in[t])
  BY DEF Take, TypeOK
<1>2. /\ Tail(in[t]) \in Seq(Frames) /\ Head(in[t]) \in Waiting(in[t])
      /\ Waiting(Tail(in[t])) \subseteq Waiting(in[t]) /\ Waiting(in[t]) \in SUBSET Frames
  BY <1>1, Queues
<1> QED
  BY <1>1, <1>2 DEF Take, TypeOK

\* A step of the tab t that makes no offer.
LEMMA TabStep ==
  ASSUME TypeOK, NEW org \in Origins, TracedTo(org), NEW t \in Tab, UNCHANGED offers,
         \A q \in Tab \ {t} : sess'[q] = sess[q] /\ tasks'[q] = tasks[q],
         sess'[t] = sess[t] \/ SessionTraced(org, t, sess'[t]),
         \A task \in tasks'[t] \ tasks[t] : TaskTraced(org, t, task),
         \A q \in Tab : \A f \in Waiting(in'[q]) \ Waiting(in[q]) : FrameTraced(org, q, f)
  PROVE  Traced'
<1>1. ASSUME NEW q \in Tab PROVE SessionTraced(org, q, sess'[q])
  BY DEF TracedTo
<1>2. ASSUME NEW q \in Tab, NEW task \in tasks'[q] PROVE TaskTraced(org, q, task)
  BY DEF TracedTo
<1>3. ASSUME NEW q \in Tab, NEW f \in Waiting(in'[q]) PROVE FrameTraced(org, q, f)
  BY DEF TracedTo
<1>4. TracedTo(org)'
  BY <1>1, <1>2, <1>3 DEF TracedTo, SessionTraced, TaskTraced, FrameTraced
<1> QED
  BY <1>4 DEF Traced

LEMMA InitInv ==
  Init => Inv
<1> SUFFICES ASSUME Init PROVE Inv
  OBVIOUS
<1>1. /\ \A t \in Tab : sess[t] = NoSession /\ tasks[t] = {} /\ in[t] = <<>>
      /\ offers = 0
  BY DEF Init
<1>2. TypeOK
  <2>1. limit \in Limits /\ up \in SUBSET Tab
    BY BoundsAssumption DEF Init
  <2>2. /\ sess \in [Tab -> Sessions] /\ request \in [Tab -> BOOLEAN]
        /\ tasks \in [Tab -> SUBSET Tasks] /\ in \in [Tab -> Seq(Frames)]
    <3>1. <<>> \in Seq(Frames) /\ {} \in SUBSET Tasks
      OBVIOUS
    <3> QED
      BY <3>1, SessionTypes DEF Init
  <2>3. /\ announce \in [Side -> [on : BOOLEAN, off : Nat]]
        /\ seen \in [Tab -> BOOLEAN] /\ flip \in [Tab -> BOOLEAN]
    BY DEF Init
  <2>4. /\ offers \in 0..MaxOffers /\ texts \in 0..MaxTexts /\ faults \in 0..MaxFaults
        /\ crossed \in 0..MaxOffers
    BY BoundsAssumption DEF Init
  <2>5. lost = {} /\ overlapped = {} /\ bunched = {}
    BY DEF Init
  <2> QED
    BY <2>1, <2>2, <2>3, <2>4, <2>5 DEF TypeOK
<1>3. Traced
  <2> DEFINE org == [n \in Offer |-> None]
  <2>1. org \in Origins
    BY DEF Origins
  <2> HIDE DEF org
  <2>2. Waiting(<<>>) = {}
    BY DEF Waiting
  <2>3. \A t \in Tab : SessionTraced(org, t, sess[t])
    BY <1>1, SessionTypes DEF SessionTraced
  <2>4. \A t \in Tab : tasks[t] = {} /\ Waiting(in[t]) = {}
    BY <1>1, <2>2
  <2>5. TracedTo(org)
    BY <2>3, <2>4 DEF TracedTo
  <2> QED
    BY <2>1, <2>5 DEF Traced
<1> QED
  BY <1>2, <1>3 DEF Inv

-----------------------------------------------------------------------------
(* Making and accepting an offer.                                          *)

\* A new offer is nobody else's.
LEMMA OfferingKeepsInv ==
  ASSUME Inv, NEW t \in Tab, SecretButton(t)
  PROVE  Inv'
<1> USE DEF Inv
<1>1. /\ offers < limit.offers /\ offers' = offers + 1
      /\ ClearEndedSession(t) /\ Add(t, [at |-> "offer", n |-> offers'])
      /\ UNCHANGED <<request, in, up, announce, seen, flip, limit, texts, faults, lost,
                     overlapped, bunched>>
  BY DEF SecretButton, presence
<1>0. crossed' \in {offers', crossed}
  BY DEF SecretButton, Crosses
<1>2. offers \in Nat /\ offers' \in Offer /\ offers' \in 0..MaxOffers
  BY <1>1, Bounds DEF Offer, TypeOK
<1> PICK m \in Offer : m = offers'
  BY <1>2
<1> DEFINE task == [at |-> "offer", n |-> m]
<1>3. task \in Tasks /\ task.at = "offer" /\ task.n = m /\ Add(t, task)
  BY <1>1 DEF Tasks
<1> HIDE DEF task
<1>4. /\ tasks' \in [Tab -> SUBSET Tasks]
      /\ tasks'[t] = tasks[t] \cup {task}
      /\ \A q \in Tab \ {t} : tasks'[q] = tasks[q]
  BY <1>1, <1>3, Adds
<1>5. /\ sess' \in [Tab -> Sessions] /\ sess'[t] \in {sess[t], NoSession}
      /\ \A q \in Tab \ {t} : sess'[q] = sess[q]
  <2>1. CASE In(t, {"ended"})
    BY <1>1, <2>1, Puts, SessionTypes DEF ClearEndedSession, Delete
  <2>2. CASE ~In(t, {"ended"})
    BY <1>1, <2>2 DEF ClearEndedSession, TypeOK
  <2> QED
    BY <2>1, <2>2
<1>6. TypeOK'
  BY <1>0, <1>1, <1>2, <1>4, <1>5 DEF TypeOK
<1>7. PICK org \in Origins : TracedTo(org)
  BY DEF Traced
<1>8. PICK new \in Origins :
        /\ new[offers'] = t /\ offers' \in 1..offers'
        /\ \A n \in 1..offers : new[n] = org[n] /\ n \in 1..offers'
  <2>1. [org EXCEPT ![offers'] = t] \in Origins
    BY <1>7 DEF Origins
  <2>2. /\ [org EXCEPT ![offers'] = t][offers'] = t /\ offers' \in 1..offers'
        /\ \A n \in 1..offers : [org EXCEPT ![offers'] = t][n] = org[n] /\ n \in 1..offers'
    BY <1>1, <1>2, <1>7, Bounds DEF Origins, Offer
  <2> QED
    BY <2>1, <2>2
<1>9. ASSUME NEW q \in Tab, NEW s, s = NoSession \/ SessionTraced(org, q, s)
      PROVE  SessionTraced(new, q, s)'
  BY <1>8, <1>9, SessionTypes DEF SessionTraced, Role
<1>10. ASSUME NEW q \in Tab, NEW had \in Tasks, TaskTraced(org, q, had)
       PROVE  TaskTraced(new, q, had)'
  BY <1>8, <1>10 DEF TaskTraced, Role, Handshake
<1>11. ASSUME NEW q \in Tab, NEW f, FrameTraced(org, q, f) PROVE FrameTraced(new, q, f)'
  BY <1>8, <1>11 DEF FrameTraced
<1>12. TaskTraced(new, t, task)'
  BY <1>3, <1>8 DEF TaskTraced, Handshake
<1>13. TracedTo(new)'
  <2>1. ASSUME NEW q \in Tab PROVE SessionTraced(new, q, sess[q])'
    BY <1>5, <1>7, <1>9 DEF TracedTo
  <2>2. ASSUME NEW q \in Tab, NEW some \in tasks'[q] PROVE TaskTraced(new, q, some)'
    <3>1. CASE some \in tasks[q]
      <4>1. some \in Tasks /\ TaskTraced(org, q, some)
        BY <1>7, <3>1 DEF TracedTo, TypeOK
      <4> QED
        BY <1>10, <4>1
    <3>2. CASE some \notin tasks[q]
      BY <1>4, <1>12, <2>2, <3>2
    <3> QED
      BY <3>1, <3>2
  <2>3. ASSUME NEW q \in Tab, NEW f \in Waiting(in'[q]) PROVE FrameTraced(new, q, f)'
    BY <1>1, <1>7, <1>11 DEF TracedTo
  <2> QED
    BY <2>1, <2>2, <2>3 DEF TracedTo
<1> QED
  BY <1>6, <1>8, <1>13 DEF Traced

\* The tab that initiated is the one its offer's frames go back to.
LEMMA InitiatingKeepsInv ==
  ASSUME Inv, NEW t \in Tab, NEW task \in tasks[t], InitiateSecret(t, task)
  PROVE  Inv'
<1> USE DEF Inv
<1>1. PICK org \in Origins : TracedTo(org)
  BY DEF Traced
<1>2. task.at = "offer" /\ task \in Tasks
  BY DEF InitiateSecret, Await, TypeOK
<1>3. TaskTraced(org, t, task)
  BY <1>1 DEF TracedTo
<1>4. task.n \in 1..offers /\ org[task.n] = t /\ task.n \in Offer
  BY <1>2, <1>3, Bounds DEF TaskTraced, Offer, TypeOK
<1> DEFINE s == MakeSession("offered", task.n)
           f == [type |-> "offer", n |-> task.n]
<1>5. s \in Sessions /\ s.phase = "offered" /\ s.n = task.n
  BY <1>4, SessionTypes DEF Phase
<1>6. f \in Frames /\ f.type = "offer" /\ f.n = task.n
  BY <1>4 DEF Frames
<1>7. /\ Done(t, task) /\ Put(t, s) /\ Relay(t, f)
      /\ UNCHANGED <<request, up, announce, seen, flip, limit, offers, texts, faults,
                     lost, crossed, overlapped, bunched>>
  BY DEF InitiateSecret, presence, bounds, ghosts
<1> HIDE DEF s, f
<1>8. TypeOK'
  BY <1>5, <1>6, <1>7, Puts, Dones, Relays DEF TypeOK
<1>9. SessionTraced(org, t, s)
  BY <1>4, <1>5 DEF SessionTraced
<1>10. ASSUME NEW q \in Tab, Owner(q) # Owner(t) PROVE FrameTraced(org, q, f)
  BY <1>4, <1>6, <1>10 DEF FrameTraced
<1>11. ASSUME NEW q \in Tab, NEW g \in Waiting(in'[q]) \ Waiting(in[q])
       PROVE  FrameTraced(org, q, g)
  <2>1. (g = f /\ Owner(q) # Owner(t)) \/ g = Frame("dismiss")
    BY <1>6, <1>7, Relays
  <2> QED
    BY <1>10, <2>1 DEF Frame, FrameTraced
<1>12. sess'[t] = s /\ tasks'[t] \ tasks[t] = {}
  BY <1>5, <1>7, Puts, Dones
<1>13. \A q \in Tab \ {t} : sess'[q] = sess[q] /\ tasks'[q] = tasks[q]
  BY <1>5, <1>7, Puts, Dones
<1> QED
  BY <1>1, <1>7, <1>8, <1>9, <1>11, <1>12, <1>13, TabStep

LEMMA AskingToAcceptKeepsInv ==
  ASSUME Inv, NEW t \in Tab, AcceptButton(t)
  PROVE  Inv'
<1> USE DEF Inv
<1>1. PICK org \in Origins : TracedTo(org)
  BY DEF Traced
<1>2. sess[t].phase = "incoming" /\ SessionTraced(org, t, sess[t])
  BY <1>1 DEF AcceptButton, In, TracedTo
<1> DEFINE task == [at |-> "accept", n |-> sess[t].n]
<1>3. /\ sess[t].n \in 1..offers /\ sess[t].n \in Offer /\ Owner(org[sess[t].n]) # Owner(t)
  BY <1>2, Bounds DEF SessionTraced, Offer, TypeOK
<1>4. task \in Tasks /\ task.at = "accept" /\ task.n = sess[t].n
  BY <1>3 DEF Tasks
<1>5. /\ Ask(t, FALSE) /\ Add(t, task)
      /\ UNCHANGED <<sess, in, up, announce, seen, flip, limit, offers, texts, faults,
                     lost, overlapped, bunched>>
  BY DEF AcceptButton, presence, bounds
<1> HIDE DEF task
<1>6. crossed' \in {offers, crossed}
  BY <1>5 DEF AcceptButton, Crosses
<1>7. TypeOK'
  BY <1>4, <1>5, <1>6, Adds, Asks DEF TypeOK
<1>8. TaskTraced(org, t, task)
  BY <1>3, <1>4 DEF TaskTraced, Handshake
<1>9. /\ \A some \in tasks'[t] \ tasks[t] : some = task
      /\ \A q \in Tab \ {t} : tasks'[q] = tasks[q]
  BY <1>4, <1>5, Adds
<1> QED
  BY <1>1, <1>5, <1>7, <1>8, <1>9, TabStep

\* The session of the tab that accepts.
LEMMA DerivedSession ==
  ASSUME NEW org, NEW t \in Tab, NEW n \in 1..offers, n \in Offer, NEW by \in Tab,
         NEW s \in Sessions, s.n = n, Role(org, t, n, by)
  PROVE  /\ DeriveSessionKeys(t, n, by, s) \in Sessions
         /\ SessionTraced(org, t, DeriveSessionKeys(t, n, by, s))
<1> DEFINE send == [by |-> by, side |-> Owner(t), step |-> 0]
           recv == [by |-> by, side |-> Peer(t), step |-> 0]
           d == [s EXCEPT !.phase = "active", !.send = send, !.recv = recv]
<1>1. /\ send \in Chain /\ recv \in Chain /\ send.side = Owner(t) /\ recv.side = Peer(t)
      /\ send.by = by
  BY DEF Chain, Side, Owner, Peer
<1> HIDE DEF send, recv
<1>2. d \in Sessions /\ d.phase = "active" /\ d.send = send /\ d.recv = recv /\ d.n = n
  BY <1>1 DEF Sessions, Phase
<1>3. DeriveSessionKeys(t, n, by, s) = d
  BY DEF DeriveSessionKeys, send, recv
<1> HIDE DEF d
<1>4. SessionTraced(org, t, d)
  BY <1>1, <1>2 DEF SessionTraced
<1> QED
  BY <1>2, <1>3, <1>4

LEMMA AcceptingKeepsInv ==
  ASSUME Inv, NEW t \in Tab, NEW task \in tasks[t], AcceptSecret(t, task)
  PROVE  Inv'
<1> USE DEF Inv
<1>1. PICK org \in Origins : TracedTo(org)
  BY DEF Traced
<1>2. task.at = "accept" /\ task \in Tasks
  BY DEF AcceptSecret, Await, TypeOK
<1>3. TaskTraced(org, t, task)
  BY <1>1 DEF TracedTo
<1>4. task.n \in 1..offers /\ Owner(org[task.n]) # Owner(t) /\ task.n \in Offer
  BY <1>2, <1>3, Bounds DEF TaskTraced, Offer, TypeOK
<1>5. /\ Done(t, task)
      /\ UNCHANGED <<up, announce, seen, flip, limit, offers, texts, faults,
                     lost, overlapped, bunched>>
  BY DEF AcceptSecret, presence, bounds
<1>6. tasks'[t] \ tasks[t] = {} /\ tasks' \in [Tab -> SUBSET Tasks]
      /\ \A q \in Tab \ {t} : tasks'[q] = tasks[q]
  BY <1>5, Dones
<1> DEFINE s == DeriveSessionKeys(t, task.n, t, MakeSession("active", task.n))
           f == [type |-> "accept", n |-> task.n, by |-> t]
<1>7. CASE Put(t, s) /\ Relay(t, f) /\ Ask(t, FALSE) /\ UNCHANGED crossed
  <2>1. s \in Sessions /\ SessionTraced(org, t, s)
    <3>1. /\ MakeSession("active", task.n) \in Sessions
          /\ MakeSession("active", task.n).n = task.n
      BY <1>4, SessionTypes DEF Phase
    <3> QED
      BY <1>4, <3>1, DerivedSession DEF Role
  <2>2. f \in Frames /\ f.type = "accept" /\ f.n = task.n /\ f.by = t
    BY <1>4 DEF Frames
  <2> HIDE DEF s, f
  <2>3. TypeOK'
    BY <1>5, <1>6, <1>7, <2>1, <2>2, Puts, Relays, Asks DEF TypeOK
  <2>4. ASSUME NEW q \in Tab, NEW g \in Waiting(in'[q]) \ Waiting(in[q])
        PROVE  FrameTraced(org, q, g)
    <3>1. g = f \/ g = Frame("dismiss")
      BY <1>7, <2>2, Relays
    <3> QED
      BY <1>4, <2>2, <3>1 DEF Frame, FrameTraced
  <2>5. sess'[t] = s /\ \A q \in Tab \ {t} : sess'[q] = sess[q]
    BY <1>7, <2>1, Puts
  <2> QED
    BY <1>1, <1>5, <1>6, <2>1, <2>3, <2>4, <2>5, TabStep
<1>8. CASE UNCHANGED <<sess, in, request>> /\ crossed' = offers
  <2>1. TypeOK'
    BY <1>5, <1>6, <1>8 DEF TypeOK
  <2> QED
    BY <1>1, <1>5, <1>6, <1>8, <2>1, TabStep
<1> QED
  BY <1>7, <1>8 DEF AcceptSecret

\* A session that goes leaves nothing to trace.
LEMMA GoneSession ==
  ASSUME NEW org, NEW t PROVE SessionTraced(org, t, NoSession)
  BY SessionTypes DEF SessionTraced

LEMMA EndingKeepsInv ==
  ASSUME Inv, NEW t \in Tab, EndSecret(t)
  PROVE  Inv'
<1> USE DEF Inv
<1>1. PICK org \in Origins : TracedTo(org)
  BY DEF Traced
<1>2. /\ Put(t, NoSession) /\ Ask(t, FALSE) /\ Relay(t, Frame("end"))
      /\ UNCHANGED <<tasks, up, announce, seen, flip, limit, offers, texts, faults,
                     lost, overlapped, bunched>>
  BY DEF EndSecret, Delete, presence, bounds
<1>3. crossed' \in {offers, crossed}
  BY <1>2 DEF EndSecret, Crosses
<1>4. Frame("end") \in Frames
  BY DEF Frame, Frames
<1>5. TypeOK'
  BY <1>2, <1>3, <1>4, SessionTypes, Puts, Relays, Asks DEF TypeOK
<1>6. ASSUME NEW q \in Tab, NEW g \in Waiting(in'[q]) \ Waiting(in[q])
      PROVE  FrameTraced(org, q, g)
  <2>1. g = Frame("end") \/ g = Frame("dismiss")
    BY <1>2, <1>4, Relays
  <2> QED
    BY <2>1 DEF Frame, FrameTraced
<1>7. sess'[t] = NoSession /\ \A q \in Tab \ {t} : sess'[q] = sess[q]
  BY <1>2, SessionTypes, Puts
<1> QED
  BY <1>1, <1>2, <1>5, <1>6, <1>7, GoneSession, TabStep

LEMMA ReturningKeepsInv ==
  ASSUME Inv, NEW t \in Tab, ReturnToChat(t)
  PROVE  Inv'
<1> USE DEF Inv
<1>1. PICK org \in Origins : TracedTo(org)
  BY DEF Traced
<1>2. /\ Put(t, NoSession)
      /\ UNCHANGED <<request, tasks, in, up, announce, seen, flip, limit, offers, texts, faults,
                     lost, crossed, overlapped, bunched>>
  BY DEF ReturnToChat, ClearEndedSession, Delete, presence, bounds, ghosts
<1>3. TypeOK'
  BY <1>2, SessionTypes, Puts DEF TypeOK
<1>4. sess'[t] = NoSession /\ \A q \in Tab \ {t} : sess'[q] = sess[q]
  BY <1>2, SessionTypes, Puts
<1> QED
  BY <1>1, <1>2, <1>3, <1>4, GoneSession, TabStep

-----------------------------------------------------------------------------
(* Messages.                                                               *)

LEMMA ComposingKeepsInv ==
  ASSUME Inv, NEW t \in Tab, Compose(t)
  PROVE  Inv'
<1> USE DEF Inv
<1>1. PICK org \in Origins : TracedTo(org)
  BY DEF Traced
<1>2. sess[t].phase = "active" /\ SessionTraced(org, t, sess[t]) /\ sess[t] \in Sessions
  BY <1>1 DEF Compose, In, TracedTo, TypeOK
<1> DEFINE task == [at |-> "encrypt", n |-> sess[t].n, chain |-> sess[t].send,
                    counter |-> sess[t].sendCounter, id |-> texts']
<1>3. /\ texts < limit.texts /\ texts' = texts + 1 /\ Add(t, task)
      /\ UNCHANGED <<sess, request, in, up, announce, seen, flip, limit, offers, faults,
                     lost, crossed, bunched>>
      /\ overlapped' \in {overlapped, overlapped \cup {sess[t].n}}
  BY DEF Compose, presence
<1>4. texts' \in 0..MaxTexts /\ texts' \in 1..MaxTexts
  BY <1>3, Bounds DEF TypeOK
<1>5. /\ sess[t].n \in 1..offers /\ sess[t].n \in Offer /\ sess[t].sendCounter \in Nat
      /\ sess[t].send \in Chain /\ sess[t].send.side = Owner(t)
      /\ Role(org, t, sess[t].n, sess[t].send.by)
  BY <1>2, Bounds DEF SessionTraced, Sessions, Offer, TypeOK
<1>6. task \in Tasks /\ task.at = "encrypt" /\ task.n = sess[t].n /\ task.chain = sess[t].send
  BY <1>4, <1>5 DEF Tasks
<1> HIDE DEF task
<1>7. TypeOK'
  BY <1>3, <1>4, <1>5, <1>6, Adds DEF TypeOK
<1>8. TaskTraced(org, t, task)
  BY <1>5, <1>6 DEF TaskTraced, Handshake
<1>9. /\ \A some \in tasks'[t] \ tasks[t] : some = task
      /\ \A q \in Tab \ {t} : tasks'[q] = tasks[q]
  BY <1>3, <1>6, Adds
<1> QED
  BY <1>1, <1>3, <1>7, <1>8, <1>9, TabStep

\* A chain moves on within its secret and direction.
LEMMA Steps ==
  ASSUME NEW chain \in Chain
  PROVE  Stepped(chain) \in Chain /\ Stepped(chain).by = chain.by /\ Stepped(chain).side = chain.side
  BY DEF Stepped, Chain

LEMMA EncryptingKeepsInv ==
  ASSUME Inv, NEW t \in Tab, NEW task \in tasks[t], EncryptMessage(t, task)
  PROVE  Inv'
<1> USE DEF Inv
<1>1. PICK org \in Origins : TracedTo(org)
  BY DEF Traced
<1>2. task.at = "encrypt" /\ task \in Tasks /\ sess[t] \in Sessions
  BY DEF EncryptMessage, Await, TypeOK
<1>3. /\ task.chain.side = Owner(t) /\ Role(org, t, task.n, task.chain.by)
      /\ SessionTraced(org, t, sess[t])
  BY <1>1, <1>2 DEF TracedTo, TaskTraced
<1>4. task.n \in Offer /\ task.chain \in Chain /\ task.counter \in Nat
  BY <1>2 DEF Tasks
<1> DEFINE next == Stepped(task.chain)
<1>0. next \in Chain
  BY <1>4, Steps
<1> HIDE DEF next
<1> DEFINE f == [type |-> "msg",
                 wire |-> [n |-> task.n, chain |-> task.chain, counter |-> task.counter]]
<1>5. f \in Frames /\ f.type = "msg"
  BY <1>4 DEF Frames, Wires
<1> PICK s : s = [sess[t] EXCEPT !.send = next, !.sendCounter = sess[t].sendCounter + 1]
  OBVIOUS
<1>6. /\ s \in Sessions /\ s.phase = sess[t].phase /\ s.n = sess[t].n
      /\ s.send = next /\ s.recv = sess[t].recv
  <2> DEFINE k == sess[t].sendCounter + 1
  <2>1. k \in Nat
    BY <1>2 DEF Sessions
  <2>2. s = [sess[t] EXCEPT !.send = next, !.sendCounter = k]
    OBVIOUS
  <2> HIDE DEF k
  <2> DEFINE old == sess[t]
  <2>3. old \in Sessions /\ s = [old EXCEPT !.send = next, !.sendCounter = k]
    BY <1>2, <2>2
  <2> HIDE DEF old
  <2>4. /\ s \in Sessions /\ s.phase = old.phase /\ s.n = old.n
        /\ s.send = next /\ s.recv = old.recv
    BY <1>0, <2>1, <2>3 DEF Sessions
  <2> QED
    BY <2>4 DEF old
<1>7. /\ Done(t, task) /\ Put(t, IF Still(t, task) THEN s ELSE sess[t]) /\ Relay(t, f)
      /\ UNCHANGED <<request, up, announce, seen, flip, limit, offers, texts, faults,
                     lost, crossed, overlapped, bunched>>
  BY DEF EncryptMessage, presence, bounds, ghosts, next
<1> HIDE DEF f
<1>8. Still(t, task) => SessionTraced(org, t, s)
  BY <1>0, <1>3, <1>4, <1>6, Steps DEF Still, SessionTraced, next
<1>9. PICK new \in Sessions : Put(t, new) /\ SessionTraced(org, t, new)
  BY <1>2, <1>3, <1>6, <1>7, <1>8
<1>10. TypeOK'
  BY <1>5, <1>7, <1>9, Puts, Dones, Relays DEF TypeOK
<1>11. ASSUME NEW q \in Tab, NEW g \in Waiting(in'[q]) \ Waiting(in[q])
       PROVE  FrameTraced(org, q, g)
  <2>1. g = f \/ g = Frame("dismiss")
    BY <1>5, <1>7, Relays
  <2> QED
    BY <1>5, <2>1 DEF Frame, FrameTraced
<1>12. sess'[t] = new /\ tasks'[t] \ tasks[t] = {}
  BY <1>7, <1>9, Puts, Dones
<1>13. \A q \in Tab \ {t} : sess'[q] = sess[q] /\ tasks'[q] = tasks[q]
  BY <1>7, <1>9, Puts, Dones
<1> QED
  BY <1>1, <1>7, <1>9, <1>10, <1>11, <1>12, <1>13, TabStep

LEMMA TakingTextsKeepsInv ==
  ASSUME Inv, NEW t \in Tab, NEW wire, OnMsg(t, wire)
  PROVE  Inv'
<1> USE DEF Inv
<1>1. PICK org \in Origins : TracedTo(org)
  BY DEF Traced
<1> DEFINE f == [type |-> "msg", wire |-> wire]
           task == [at |-> "decrypt", n |-> sess[t].n, chain |-> sess[t].recv, wire |-> wire]
<1>2. /\ Take(t, f)
      /\ UNCHANGED <<sess, request, up, announce, seen, flip, limit, offers, texts, faults,
                     lost, crossed, overlapped>>
      /\ bunched' \in {bunched, bunched \cup {wire.n}}
      /\ IF In(t, {"active"}) /\ ReplayOk(sess[t], wire.counter)
           THEN Add(t, task) ELSE UNCHANGED tasks
  BY DEF OnMsg, presence, bounds
<1>3. f \in Frames /\ in' \in [Tab -> Seq(Frames)]
      /\ \A q \in Tab : Waiting(in'[q]) \ Waiting(in[q]) = {}
  BY <1>2, Takes
<1>4. wire \in Wires /\ wire.n \in Offer
  <2>1. f.type = "msg" /\ f.wire = wire
    OBVIOUS
  <2>2. \E w \in Wires : f = [type |-> "msg", wire |-> w]
    BY <1>3, <2>1 DEF Frames
  <2> QED
    BY <2>1, <2>2 DEF Wires
<1>5. CASE In(t, {"active"}) /\ ReplayOk(sess[t], wire.counter)
  <2>1. sess[t].phase = "active" /\ SessionTraced(org, t, sess[t]) /\ sess[t] \in Sessions
    BY <1>1, <1>5 DEF In, TracedTo, TypeOK
  <2>2. sess[t].n \in 1..offers /\ sess[t].n \in Offer /\ sess[t].recv \in Chain /\ sess[t].recv.side = Peer(t)
    BY <2>1, Bounds DEF SessionTraced, Offer, TypeOK
  <2>3. task \in Tasks /\ task.at = "decrypt" /\ task.n = sess[t].n /\ task.chain = sess[t].recv
    BY <1>4, <2>2 DEF Tasks
  <2>4. Add(t, task)
    BY <1>2, <1>5
  <2> HIDE DEF task
  <2>5. TypeOK'
    BY <1>2, <1>3, <1>4, <2>3, <2>4, Adds DEF TypeOK
  <2>6. TaskTraced(org, t, task)
    BY <2>2, <2>3 DEF TaskTraced, Handshake
  <2>7. /\ \A some \in tasks'[t] \ tasks[t] : some = task
        /\ \A q \in Tab \ {t} : tasks'[q] = tasks[q]
    BY <2>3, <2>4, Adds
  <2> QED
    BY <1>1, <1>2, <1>3, <2>5, <2>6, <2>7, TabStep
<1>6. CASE ~(In(t, {"active"}) /\ ReplayOk(sess[t], wire.counter))
  <2>1. UNCHANGED tasks
    BY <1>2, <1>6
  <2>2. TypeOK'
    BY <1>2, <1>3, <1>4, <2>1 DEF TypeOK
  <2> QED
    BY <1>1, <1>2, <1>3, <2>1, <2>2, TabStep
<1> QED
  BY <1>5, <1>6

LEMMA DecryptingKeepsInv ==
  ASSUME Inv, NEW t \in Tab, NEW task \in tasks[t], DecryptMessage(t, task)
  PROVE  Inv'
<1> USE DEF Inv
<1>1. PICK org \in Origins : TracedTo(org)
  BY DEF Traced
<1>2. task.at = "decrypt" /\ task \in Tasks /\ sess[t] \in Sessions
  BY DEF DecryptMessage, Await, TypeOK
<1>3. task.chain.side = Peer(t) /\ SessionTraced(org, t, sess[t])
  BY <1>1, <1>2 DEF TracedTo, TaskTraced
<1>4. task.chain \in Chain /\ task.wire.counter \in Nat
  BY <1>2 DEF Tasks, Wires
<1> DEFINE next == Stepped(task.chain)
<1>0. next \in Chain /\ next.side = Peer(t)
  BY <1>3, <1>4, Steps
<1> HIDE DEF next
<1> PICK s : s = [sess[t] EXCEPT !.recv = next, !.recvNextExpected = task.wire.counter + 1]
  OBVIOUS
<1>5. /\ s \in Sessions /\ s.phase = sess[t].phase /\ s.n = sess[t].n
      /\ s.send = sess[t].send /\ s.recv = next
  <2> DEFINE k == task.wire.counter + 1
  <2>1. k \in Nat
    BY <1>4
  <2>2. s = [sess[t] EXCEPT !.recv = next, !.recvNextExpected = k]
    OBVIOUS
  <2> HIDE DEF k
  <2> DEFINE old == sess[t]
  <2>3. old \in Sessions /\ s = [old EXCEPT !.recv = next, !.recvNextExpected = k]
    BY <1>2, <2>2
  <2> HIDE DEF old
  <2>4. /\ s \in Sessions /\ s.phase = old.phase /\ s.n = old.n
        /\ s.send = old.send /\ s.recv = next
    BY <1>0, <2>1, <2>3 DEF Sessions
  <2> QED
    BY <2>4 DEF old
<1>6. /\ Done(t, task) /\ Put(t, IF Still(t, task) /\ Opens(task) THEN s ELSE sess[t])
      /\ UNCHANGED <<request, in, up, announce, seen, flip, limit, offers, texts, faults,
                     lost, crossed, overlapped, bunched>>
  BY DEF DecryptMessage, presence, bounds, ghosts, next
<1>7. SessionTraced(org, t, s)
  BY <1>0, <1>3, <1>5 DEF SessionTraced
<1>8. PICK new \in Sessions : Put(t, new) /\ SessionTraced(org, t, new)
  BY <1>2, <1>3, <1>5, <1>6, <1>7
<1>9. TypeOK'
  BY <1>6, <1>8, Puts, Dones DEF TypeOK
<1>10. sess'[t] = new /\ tasks'[t] \ tasks[t] = {}
  BY <1>6, <1>8, Puts, Dones
<1>11. \A q \in Tab \ {t} : sess'[q] = sess[q] /\ tasks'[q] = tasks[q]
  BY <1>6, <1>8, Puts, Dones
<1> QED
  BY <1>1, <1>6, <1>8, <1>9, <1>10, <1>11, TabStep

-----------------------------------------------------------------------------
(* Frames of a handshake and of its end.                                   *)

LEMMA OffersKeepInv ==
  ASSUME Inv, NEW t \in Tab, NEW n \in Offer, OnOffer(t, n)
  PROVE  Inv'
<1> USE DEF Inv
<1>1. PICK org \in Origins : TracedTo(org)
  BY DEF Traced
<1> DEFINE f == [type |-> "offer", n |-> n]
           s == MakeSession("incoming", n)
<1>2. /\ Take(t, f)
      /\ UNCHANGED <<tasks, up, announce, seen, flip, limit, offers, texts, faults,
                     lost, crossed, overlapped, bunched>>
      /\ \/ UNCHANGED <<sess, request>>
         \/ Put(t, s) /\ Ask(t, TRUE)
  BY DEF OnOffer, presence, bounds, ghosts
<1>3. /\ in' \in [Tab -> Seq(Frames)] /\ f \in Waiting(in[t])
      /\ \A q \in Tab : Waiting(in'[q]) \ Waiting(in[q]) = {}
  BY <1>2, Takes
<1>4. n \in 1..offers /\ Owner(org[n]) # Owner(t)
  BY <1>1, <1>3 DEF TracedTo, FrameTraced
<1>5. s \in Sessions /\ s.phase = "incoming" /\ s.n = n
  BY SessionTypes DEF Phase
<1> HIDE DEF s, f
<1>6. SessionTraced(org, t, s)
  BY <1>4, <1>5 DEF SessionTraced
<1>7. CASE UNCHANGED <<sess, request>>
  <2>1. TypeOK'
    BY <1>2, <1>3, <1>7 DEF TypeOK
  <2> QED
    BY <1>1, <1>2, <1>3, <1>7, <2>1, TabStep
<1>8. CASE Put(t, s) /\ Ask(t, TRUE)
  <2>1. TypeOK'
    BY <1>2, <1>3, <1>5, <1>8, Puts, Asks DEF TypeOK
  <2>2. sess'[t] = s /\ \A q \in Tab \ {t} : sess'[q] = sess[q]
    BY <1>5, <1>8, Puts
  <2> QED
    BY <1>1, <1>2, <1>3, <1>6, <2>1, <2>2, TabStep
<1> QED
  BY <1>2, <1>7, <1>8

LEMMA AcceptsKeepInv ==
  ASSUME Inv, NEW t \in Tab, NEW n \in Offer, NEW by \in Tab, OnAccept(t, n, by)
  PROVE  Inv'
<1> USE DEF Inv
<1>1. PICK org \in Origins : TracedTo(org)
  BY DEF Traced
<1> DEFINE f == [type |-> "accept", n |-> n, by |-> by]
           task == [at |-> "verify", n |-> sess[t].n, by |-> by, for |-> n]
<1>2. /\ Take(t, f)
      /\ UNCHANGED <<sess, request, up, announce, seen, flip, limit, offers, texts, faults,
                     lost, crossed, overlapped, bunched>>
      /\ IF In(t, {"offered"}) THEN Add(t, task) ELSE UNCHANGED tasks
  BY DEF OnAccept, presence, bounds, ghosts
<1>3. /\ in' \in [Tab -> Seq(Frames)] /\ f \in Waiting(in[t])
      /\ \A q \in Tab : Waiting(in'[q]) \ Waiting(in[q]) = {}
  BY <1>2, Takes
<1>4. n \in 1..offers /\ Owner(by) # Owner(org[n])
  BY <1>1, <1>3 DEF TracedTo, FrameTraced
<1>5. CASE In(t, {"offered"})
  <2>1. SessionTraced(org, t, sess[t])
    BY <1>1 DEF TracedTo
  <2>2. sess[t].n \in 1..offers /\ sess[t].n \in Offer /\ org[sess[t].n] = t
    BY <1>5, <2>1, Bounds DEF In, SessionTraced, Offer, TypeOK
  <2>3. /\ task \in Tasks /\ task.at = "verify" /\ task.n = sess[t].n /\ task.by = by
        /\ task.for = n
    BY <2>2 DEF Tasks
  <2>4. Add(t, task)
    BY <1>2, <1>5
  <2> HIDE DEF task, f
  <2>5. TypeOK'
    BY <1>2, <1>3, <2>3, <2>4, Adds DEF TypeOK
  <2>6. TaskTraced(org, t, task)
    BY <1>4, <2>2, <2>3 DEF TaskTraced, Handshake
  <2>7. /\ \A some \in tasks'[t] \ tasks[t] : some = task
        /\ \A q \in Tab \ {t} : tasks'[q] = tasks[q]
    BY <2>3, <2>4, Adds
  <2> QED
    BY <1>1, <1>2, <1>3, <2>5, <2>6, <2>7, TabStep
<1>6. CASE ~In(t, {"offered"})
  <2>1. UNCHANGED tasks
    BY <1>2, <1>6
  <2>2. TypeOK'
    BY <1>2, <1>3, <2>1 DEF TypeOK
  <2> QED
    BY <1>1, <1>2, <1>3, <2>1, <2>2, TabStep
<1> QED
  BY <1>5, <1>6

\* The stages of a handshake differ in nothing but their name.
LEMMA NextStage ==
  ASSUME NEW task \in Tasks, task.at \in Handshake, NEW stage \in Handshake
  PROVE  /\ [task EXCEPT !.at = stage] \in Tasks /\ [task EXCEPT !.at = stage].at = stage
         /\ [task EXCEPT !.at = stage].n = task.n /\ [task EXCEPT !.at = stage].by = task.by
         /\ [task EXCEPT !.at = stage].for = task.for
         /\ task.by \in Tab /\ task.n \in Offer
<1>1. task \in [at : Handshake, n : Offer, by : Tab, for : Offer]
  BY DEF Tasks, Handshake
<1>2. [task EXCEPT !.at = stage] \in [at : Handshake, n : Offer, by : Tab, for : Offer]
  BY <1>1
<1> QED
  BY <1>1, <1>2 DEF Tasks, Handshake

LEMMA VerifyingKeepsInv ==
  ASSUME Inv, NEW t \in Tab, NEW task \in tasks[t], Verify(t, task)
  PROVE  Inv'
<1> USE DEF Inv
<1>1. PICK org \in Origins : TracedTo(org)
  BY DEF Traced
<1>2. task.at = "verify" /\ task \in Tasks /\ task.n = task.for
  BY DEF Verify, Await, Signed, TypeOK
<1>3. TaskTraced(org, t, task)
  BY <1>1 DEF TracedTo
<1> DEFINE new == [task EXCEPT !.at = "derive"]
<1>4. /\ new \in Tasks /\ new.at = "derive" /\ new.n = task.n /\ new.by = task.by
      /\ new.for = task.for
  BY <1>2, NextStage DEF Handshake
<1>5. /\ tasks' = [tasks EXCEPT ![t] = (tasks[t] \ {task}) \cup {new}]
      /\ UNCHANGED <<sess, request, in, up, announce, seen, flip, limit, offers, texts, faults,
                     lost, crossed, overlapped, bunched>>
  BY DEF Verify, presence, bounds, ghosts
<1> HIDE DEF new
<1>6. (tasks[t] \ {task}) \cup {new} \in SUBSET Tasks
  BY <1>4 DEF TypeOK
<1>7. /\ tasks' \in [Tab -> SUBSET Tasks] /\ \A q \in Tab \ {t} : tasks'[q] = tasks[q]
      /\ \A some \in tasks'[t] \ tasks[t] : some = new
  BY <1>5, <1>6 DEF TypeOK
<1>8. TypeOK'
  BY <1>5, <1>7 DEF TypeOK
<1>9. TaskTraced(org, t, new)
  BY <1>2, <1>3, <1>4 DEF TaskTraced, Handshake
<1> QED
  BY <1>1, <1>5, <1>7, <1>8, <1>9, TabStep

LEMMA FailingKeepsInv ==
  ASSUME Inv, NEW t \in Tab, NEW task \in tasks[t], VerifyFails(t, task)
  PROVE  Inv'
<1> USE DEF Inv
<1>1. PICK org \in Origins : TracedTo(org)
  BY DEF Traced
<1>2. /\ Done(t, task) /\ Put(t, NoSession) /\ Ask(t, FALSE)
      /\ UNCHANGED <<in, up, announce, seen, flip, limit, offers, texts, faults,
                     lost, crossed, overlapped, bunched>>
  BY DEF VerifyFails, Delete, presence, bounds, ghosts
<1>3. TypeOK'
  BY <1>2, SessionTypes, Puts, Dones, Asks DEF TypeOK
<1>4. sess'[t] = NoSession /\ tasks'[t] \ tasks[t] = {}
  BY <1>2, SessionTypes, Puts, Dones
<1>5. \A q \in Tab \ {t} : sess'[q] = sess[q] /\ tasks'[q] = tasks[q]
  BY <1>2, SessionTypes, Puts, Dones
<1> QED
  BY <1>1, <1>2, <1>3, <1>4, <1>5, GoneSession, TabStep

\* The tab that made the offer takes the secret of the accept it verified.
LEMMA DerivingKeepsInv ==
  ASSUME Inv, NEW t \in Tab, NEW task \in tasks[t], Derive(t, task)
  PROVE  Inv'
<1> USE DEF Inv
<1>1. PICK org \in Origins : TracedTo(org)
  BY DEF Traced
<1>2. task.at = "derive" /\ task \in Tasks /\ sess[t] \in Sessions
  BY DEF Derive, Await, TypeOK
<1>3. TaskTraced(org, t, task) /\ SessionTraced(org, t, sess[t])
  BY <1>1 DEF TracedTo
<1>4. /\ task.n \in 1..offers /\ task.n \in Offer /\ task.by \in Tab
      /\ org[task.n] = t /\ Owner(task.by) # Owner(t)
  BY <1>2, <1>3, NextStage DEF TaskTraced, Handshake
<1>5. Role(org, t, task.n, task.by)
  BY <1>4 DEF Role
<1> DEFINE s == IF Still(t, task) THEN DeriveSessionKeys(t, task.n, task.by, sess[t]) ELSE sess[t]
<1>6. s \in Sessions /\ SessionTraced(org, t, s)
  <2>1. CASE Still(t, task)
    <3>1. sess[t].n = task.n
      BY <2>1 DEF Still
    <3>2. /\ DeriveSessionKeys(t, task.n, task.by, sess[t]) \in Sessions
          /\ SessionTraced(org, t, DeriveSessionKeys(t, task.n, task.by, sess[t]))
      BY <1>2, <1>4, <1>5, <3>1, DerivedSession
    <3> QED
      BY <2>1, <3>2
  <2>2. CASE ~Still(t, task)
    BY <1>2, <1>3, <2>2
  <2> QED
    BY <2>1, <2>2
<1>7. Put(t, s)
  BY DEF Derive
<1> HIDE DEF s
<1> DEFINE spend(q) == IF q.at = "verify" /\ q.n = task.n THEN [q EXCEPT !.at = "spent"] ELSE q
           new == {spend(q) : q \in tasks[t] \ {task}}
<1>8. /\ tasks' = [tasks EXCEPT ![t] = new] /\ Ask(t, FALSE)
      /\ UNCHANGED <<in, up, announce, seen, flip, limit, offers, texts, faults,
                     lost, crossed, overlapped, bunched>>
  BY DEF Derive, presence, bounds, ghosts
<1>9. ASSUME NEW q \in tasks[t] PROVE spend(q) \in Tasks /\ TaskTraced(org, t, spend(q))
  <2>1. q \in Tasks /\ TaskTraced(org, t, q)
    BY <1>1 DEF TracedTo, TypeOK
  <2>2. CASE q.at = "verify" /\ q.n = task.n
    <3> DEFINE late == [q EXCEPT !.at = "spent"]
    <3>1. /\ late \in Tasks /\ late.at = "spent" /\ late.n = q.n /\ late.by = q.by
          /\ late.for = q.for
      BY <2>1, <2>2, NextStage DEF Handshake
    <3> HIDE DEF late
    <3>2. TaskTraced(org, t, late)
      BY <2>1, <2>2, <3>1 DEF TaskTraced, Handshake
    <3> QED
      BY <2>2, <3>1, <3>2 DEF late
  <2>3. CASE ~(q.at = "verify" /\ q.n = task.n)
    BY <2>1, <2>3
  <2> QED
    BY <2>2, <2>3
<1> HIDE DEF spend
<1>10. new \in SUBSET Tasks /\ \A some \in new : TaskTraced(org, t, some)
  BY <1>9
<1> HIDE DEF new
<1>11. /\ tasks' \in [Tab -> SUBSET Tasks] /\ tasks'[t] = new
       /\ \A q \in Tab \ {t} : tasks'[q] = tasks[q]
  BY <1>8, <1>10 DEF TypeOK
<1>12. TypeOK'
  BY <1>6, <1>7, <1>8, <1>11, Puts, Asks DEF TypeOK
<1>13. sess'[t] = s /\ \A q \in Tab \ {t} : sess'[q] = sess[q]
  BY <1>6, <1>7, Puts
<1> QED
  BY <1>1, <1>6, <1>8, <1>10, <1>11, <1>12, <1>13, TabStep

LEMMA EndsKeepInv ==
  ASSUME Inv, NEW t \in Tab, OnEnd(t)
  PROVE  Inv'
<1> USE DEF Inv
<1>1. PICK org \in Origins : TracedTo(org)
  BY DEF Traced
<1>2. /\ Take(t, Frame("end"))
      /\ UNCHANGED <<tasks, up, announce, seen, flip, limit, offers, texts, faults,
                     lost, crossed, overlapped, bunched>>
      /\ UNCHANGED request \/ Ask(t, FALSE)
  BY DEF OnEnd, presence, bounds, ghosts
<1>3. sess[t] \in Sessions /\ SessionTraced(org, t, sess[t])
  BY <1>1 DEF TracedTo, TypeOK
<1>4. PICK s \in Sessions : Put(t, s) /\ SessionTraced(org, t, s)
  <2>1. CASE In(t, {"active"})
    <3> DEFINE s == [sess[t] EXCEPT !.phase = "ended"]
    <3>1. s \in Sessions /\ s.phase = "ended" /\ s.n = sess[t].n
      BY <1>3 DEF Sessions, Phase
    <3>2. Put(t, s)
      BY <2>1 DEF OnEnd
    <3> HIDE DEF s
    <3>3. SessionTraced(org, t, s)
      BY <1>3, <2>1, <3>1 DEF SessionTraced, In
    <3> QED
      BY <3>1, <3>2, <3>3
  <2>2. CASE ~In(t, {"active"})
    BY <2>2, SessionTypes, GoneSession DEF OnEnd, Delete
  <2> QED
    BY <2>1, <2>2
<1>5. /\ in' \in [Tab -> Seq(Frames)]
      /\ \A q \in Tab : Waiting(in'[q]) \ Waiting(in[q]) = {}
  BY <1>2, Takes
<1>6. request' \in [Tab -> BOOLEAN]
  BY <1>2, Asks DEF TypeOK
<1>7. TypeOK'
  BY <1>2, <1>4, <1>5, <1>6, Puts DEF TypeOK
<1>8. sess'[t] = s /\ \A q \in Tab \ {t} : sess'[q] = sess[q]
  BY <1>4, Puts
<1> QED
  BY <1>1, <1>2, <1>4, <1>5, <1>7, <1>8, TabStep

LEMMA DismissalsKeepInv ==
  ASSUME Inv, NEW t \in Tab, OnDismiss(t)
  PROVE  Inv'
<1> USE DEF Inv
<1>1. PICK org \in Origins : TracedTo(org)
  BY DEF Traced
<1>2. /\ Take(t, Frame("dismiss")) /\ Ask(t, FALSE)
      /\ UNCHANGED <<tasks, up, announce, seen, flip, limit, offers, texts, faults,
                     lost, crossed, overlapped, bunched>>
      /\ UNCHANGED sess \/ Put(t, NoSession)
  BY DEF OnDismiss, Delete, presence, bounds, ghosts
<1>3. /\ in' \in [Tab -> Seq(Frames)]
      /\ \A q \in Tab : Waiting(in'[q]) \ Waiting(in[q]) = {}
  BY <1>2, Takes
<1>4. /\ sess' \in [Tab -> Sessions] /\ sess'[t] \in {sess[t], NoSession}
      /\ \A q \in Tab \ {t} : sess'[q] = sess[q]
  BY <1>2, SessionTypes, Puts DEF TypeOK
<1>5. TypeOK'
  BY <1>2, <1>3, <1>4, Asks DEF TypeOK
<1> QED
  BY <1>1, <1>2, <1>3, <1>4, <1>5, GoneSession, TabStep

-----------------------------------------------------------------------------
(* Connections and presence: nothing of a handshake begins here.           *)

\* A step that lets sessions and tasks be.
LEMMA FrameStep ==
  ASSUME Traced, UNCHANGED <<sess, tasks, offers>>,
         \A q \in Tab : \A f \in Waiting(in'[q]) \ Waiting(in[q]) :
           f.type \notin {"offer", "accept"}
  PROVE  Traced'
<1>1. PICK org \in Origins : TracedTo(org)
  BY DEF Traced
<1>2. ASSUME NEW q \in Tab, NEW f \in Waiting(in'[q]) PROVE FrameTraced(org, q, f)
  BY <1>1 DEF TracedTo, FrameTraced
<1>3. TracedTo(org)'
  BY <1>1, <1>2 DEF TracedTo, SessionTraced, TaskTraced, FrameTraced
<1> QED
  BY <1>3 DEF Traced

\* What waits for a tab that lost its connection.
LEMMA Cleared ==
  ASSUME TypeOK, NEW t \in Tab, in' = Clears(t)
  PROVE  /\ in' \in [Tab -> Seq(Frames)]
         /\ \A q \in Tab : Waiting(in'[q]) \ Waiting(in[q]) = {}
<1>1. <<>> \in Seq(Frames) /\ Waiting(<<>>) = {}
  BY DEF Waiting
<1>2. /\ in' \in [Tab -> Seq(Frames)]
      /\ \A q \in Tab : in'[q] = in[q] \/ in'[q] = <<>>
  BY <1>1 DEF Clears, TypeOK
<1> QED
  BY <1>1, <1>2

LEMMA Announced ==
  ASSUME TypeOK, NEW u \in Side, NEW open, Leaves(u, open)
  PROVE  announce' \in [Side -> [on : BOOLEAN, off : Nat]]
<1>1. announce[u] \in [on : BOOLEAN, off : Nat]
  BY DEF TypeOK
<1>2. [announce[u] EXCEPT !.off = announce[u].off + 1] \in [on : BOOLEAN, off : Nat]
  BY <1>1
<1>3. announce' = announce
      \/ announce' = [announce EXCEPT ![u] = [announce[u] EXCEPT !.off = announce[u].off + 1]]
  BY DEF Leaves
<1> QED
  BY <1>2, <1>3 DEF TypeOK

LEMMA DroppingKeepsInv ==
  ASSUME Inv, NEW t \in Tab, Drop(t)
  PROVE  Inv'
<1> USE DEF Inv
<1>1. /\ faults < limit.faults /\ faults' = faults + 1 /\ up' = up \ {t}
      /\ Leaves(Owner(t), up') /\ in' = Clears(t) /\ lost' = lost \cup {t}
      /\ UNCHANGED <<sess, request, tasks, seen, flip, limit, offers, texts, crossed,
                     overlapped, bunched>>
  BY DEF Drop, session
<1>2. faults' \in 0..MaxFaults
  BY <1>1, Bounds DEF TypeOK
<1>3. announce' \in [Side -> [on : BOOLEAN, off : Nat]]
  BY <1>1, Announced DEF Owner, Side
<1>4. up' \in SUBSET Tab /\ lost' \in SUBSET Tab
  BY <1>1 DEF TypeOK
<1>5. /\ in' \in [Tab -> Seq(Frames)]
      /\ \A q \in Tab : Waiting(in'[q]) \ Waiting(in[q]) = {}
  BY <1>1, Cleared
<1>6. TypeOK'
  BY <1>1, <1>2, <1>3, <1>4, <1>5 DEF TypeOK
<1> QED
  BY <1>1, <1>5, <1>6, FrameStep

LEMMA ReloadingKeepsInv ==
  ASSUME Inv, NEW t \in Tab, Reload(t)
  PROVE  Inv'
<1> USE DEF Inv
<1>1. PICK org \in Origins : TracedTo(org)
  BY DEF Traced
<1>2. /\ faults < limit.faults /\ faults' = faults + 1 /\ up' = up \ {t}
      /\ Leaves(Owner(t), up') /\ lost' = lost \cup {t}
      /\ Put(t, NoSession) /\ Ask(t, FALSE) /\ tasks' = [tasks EXCEPT ![t] = {}]
      /\ flip' = [flip EXCEPT ![t] = FALSE] /\ seen' = [seen EXCEPT ![t] = FALSE]
      /\ UNCHANGED <<limit, offers, texts, crossed, overlapped, bunched>>
  BY DEF Reload, Delete
<1>3. faults' \in 0..MaxFaults
  BY <1>2, Bounds DEF TypeOK
<1>4. announce' \in [Side -> [on : BOOLEAN, off : Nat]]
  BY <1>2, Announced DEF Owner, Side
<1>5. /\ up' \in SUBSET Tab /\ lost' \in SUBSET Tab
      /\ flip' \in [Tab -> BOOLEAN] /\ seen' \in [Tab -> BOOLEAN]
  BY <1>2 DEF TypeOK
<1>6. /\ tasks' \in [Tab -> SUBSET Tasks] /\ tasks'[t] \ tasks[t] = {}
      /\ \A q \in Tab \ {t} : tasks'[q] = tasks[q]
  BY <1>2 DEF TypeOK
<1>7. /\ in' \in [Tab -> Seq(Frames)]
      /\ \A q \in Tab : \A g \in Waiting(in'[q]) \ Waiting(in[q]) : g = Frame("end")
  <2>1. <<>> \in Seq(Frames) /\ Waiting(<<>>) = {}
    BY DEF Waiting
  <2>2. Frame("end") \in Frames
    BY DEF Frame, Frames
  <2>3. ASSUME NEW queue \in Seq(Frames)
        PROVE  /\ Append(queue, Frame("end")) \in Seq(Frames)
               /\ Waiting(Append(queue, Frame("end"))) = Waiting(queue) \cup {Frame("end")}
    BY <2>2, Queues
  <2>4. \A q \in Tab : /\ in[q] \in Seq(Frames)
                       /\ in'[q] \in {<<>>, in[q], Append(in[q], Frame("end"))}
    BY DEF Reload, TypeOK
  <2>5. in' = [q \in Tab |-> in'[q]]
    BY DEF Reload
  <2>6. \A q \in Tab : in'[q] \in Seq(Frames)
    BY <2>1, <2>3, <2>4
  <2>7. in' \in [Tab -> Seq(Frames)]
    BY <2>5, <2>6
  <2>8. ASSUME NEW q \in Tab, NEW g \in Waiting(in'[q]) \ Waiting(in[q])
        PROVE  g = Frame("end")
    <3> DEFINE old == in[q]
               new == in'[q]
               with == Append(old, Frame("end"))
    <3>1. old \in Seq(Frames) /\ new \in {<<>>, old, with} /\ g \in Waiting(new) \ Waiting(old)
      BY <2>4
    <3>2. Waiting(with) = Waiting(old) \cup {Frame("end")}
      BY <2>3, <3>1
    <3> HIDE DEF old, new, with
    <3> QED
      BY <2>1, <3>1, <3>2
  <2> QED
    BY <2>7, <2>8
<1>8. TypeOK'
  BY <1>2, <1>3, <1>4, <1>5, <1>6, <1>7, SessionTypes, Puts, Asks DEF TypeOK
<1>9. sess'[t] = NoSession /\ \A q \in Tab \ {t} : sess'[q] = sess[q]
  BY <1>2, SessionTypes, Puts
<1>10. \A q \in Tab : \A g \in Waiting(in'[q]) \ Waiting(in[q]) : FrameTraced(org, q, g)
  BY <1>7 DEF Frame, FrameTraced
<1> QED
  BY <1>1, <1>2, <1>6, <1>8, <1>9, <1>10, GoneSession, TabStep

LEMMA ConnectingKeepsInv ==
  ASSUME Inv, NEW t \in Tab, Connect(t)
  PROVE  Inv'
<1> USE DEF Inv
<1>1. PICK org \in Origins : TracedTo(org)
  BY DEF Traced
<1> DEFINE task == [at |-> "roster", online |-> Online(Peer(t), up)]
<1>2. /\ up' = up \cup {t} /\ flip' = [flip EXCEPT ![t] = FALSE] /\ Add(t, task)
      /\ UNCHANGED <<sess, request, in, seen, limit, offers, texts, faults, lost, crossed,
                     overlapped, bunched>>
  BY DEF Connect, bounds, ghosts
<1>3. task \in Tasks /\ task.at = "roster"
  BY DEF Tasks, Online
<1> HIDE DEF task
<1>4. announce' \in [Side -> [on : BOOLEAN, off : Nat]]
  <2>1. Owner(t) \in Side
    BY DEF Owner, Side
  <2> DEFINE said == [announce[Owner(t)] EXCEPT !.on = TRUE]
  <2>2. said \in [on : BOOLEAN, off : Nat]
    BY <2>1 DEF TypeOK
  <2>3. announce' = announce \/ announce' = [announce EXCEPT ![Owner(t)] = said]
    BY DEF Connect
  <2> HIDE DEF said
  <2> QED
    BY <2>1, <2>2, <2>3 DEF TypeOK
<1>5. up' \in SUBSET Tab /\ flip' \in [Tab -> BOOLEAN]
  BY <1>2 DEF TypeOK
<1>6. TypeOK'
  BY <1>2, <1>3, <1>4, <1>5, Adds DEF TypeOK
<1>7. TaskTraced(org, t, task)
  BY <1>3 DEF TaskTraced, Handshake
<1>8. /\ \A some \in tasks'[t] \ tasks[t] : some = task
      /\ \A q \in Tab \ {t} : tasks'[q] = tasks[q]
  BY <1>2, <1>3, Adds
<1> QED
  BY <1>1, <1>2, <1>6, <1>7, <1>8, TabStep

LEMMA ResyncingKeepsInv ==
  ASSUME Inv, NEW t \in Tab, NEW task \in tasks[t], Resync(t, task)
  PROVE  Inv'
<1> USE DEF Inv
<1>1. PICK org \in Origins : TracedTo(org)
  BY DEF Traced
<1>2. /\ Done(t, task) /\ seen' = [seen EXCEPT ![t] = task.online]
      /\ UNCHANGED <<sess, request, in, up, announce, flip, limit, offers, texts, faults,
                     lost, crossed, overlapped, bunched>>
  BY DEF Resync, bounds, ghosts
<1>3. task.online \in BOOLEAN
  <2>1. task \in Tasks /\ task.at = "roster"
    BY DEF Resync, Await, TypeOK
  <2>2. \E b \in BOOLEAN : task = [at |-> "roster", online |-> b]
    BY <2>1 DEF Tasks
  <2> QED
    BY <2>2
<1>4. seen' \in [Tab -> BOOLEAN]
  BY <1>2, <1>3 DEF TypeOK
<1>5. TypeOK'
  BY <1>2, <1>4, Dones DEF TypeOK
<1>6. tasks'[t] \ tasks[t] = {} /\ \A q \in Tab \ {t} : tasks'[q] = tasks[q]
  BY <1>2, Dones
<1> QED
  BY <1>1, <1>2, <1>5, <1>6, TabStep

LEMMA BroadcastingKeepsInv ==
  ASSUME Inv, NEW u \in Side, NEW online \in BOOLEAN, Broadcast(u, online)
  PROVE  Inv'
<1> USE DEF Inv
<1> DEFINE f == [type |-> "presence", online |-> online]
<1>1. /\ UNCHANGED <<sess, request, tasks, up, seen, flip, limit, offers, texts, faults, lost,
                     crossed, overlapped, bunched>>
      /\ in' = [q \in Tab |-> IF q \in up /\ Owner(q) # u THEN Append(in[q], f) ELSE in[q]]
  BY DEF Broadcast, session, bounds, ghosts
<1>2. f \in Frames /\ f.type = "presence"
  BY DEF Frames
<1> HIDE DEF f
<1>3. announce' \in [Side -> [on : BOOLEAN, off : Nat]]
  <2> DEFINE had == announce[u]
  <2>1. had \in [on : BOOLEAN, off : Nat]
    BY DEF TypeOK
  <2>2. \/ announce' = [announce EXCEPT ![u] = [had EXCEPT !.on = FALSE]]
        \/ had.off > 0 /\ announce' = [announce EXCEPT ![u] = [had EXCEPT !.off = had.off - 1]]
    BY DEF Broadcast
  <2> HIDE DEF had
  <2>3. [had EXCEPT !.on = FALSE] \in [on : BOOLEAN, off : Nat]
    BY <2>1
  <2>4. had.off > 0 => [had EXCEPT !.off = had.off - 1] \in [on : BOOLEAN, off : Nat]
    BY <2>1
  <2> QED
    BY <2>2, <2>3, <2>4 DEF TypeOK
<1>4. /\ in' \in [Tab -> Seq(Frames)]
      /\ \A q \in Tab : \A g \in Waiting(in'[q]) \ Waiting(in[q]) : g = f
  <2>1. ASSUME NEW queue \in Seq(Frames)
        PROVE  /\ Append(queue, f) \in Seq(Frames)
               /\ Waiting(Append(queue, f)) = Waiting(queue) \cup {f}
    BY <1>2, Queues
  <2>2. \A q \in Tab : in[q] \in Seq(Frames) /\ in'[q] \in {in[q], Append(in[q], f)}
    BY <1>1 DEF TypeOK
  <2>3. \A q \in Tab : in'[q] \in Seq(Frames)
    BY <2>1, <2>2
  <2>4. in' \in [Tab -> Seq(Frames)]
    BY <1>1, <2>3
  <2> QED
    BY <2>1, <2>2, <2>4
<1>5. TypeOK'
  BY <1>1, <1>3, <1>4 DEF TypeOK
<1> QED
  BY <1>1, <1>2, <1>4, <1>5, FrameStep

LEMMA PresenceKeepsInv ==
  ASSUME Inv, NEW t \in Tab, NEW online \in BOOLEAN, OnPresence(t, online)
  PROVE  Inv'
<1> USE DEF Inv
<1>1. /\ Take(t, [type |-> "presence", online |-> online])
      /\ flip' = [flip EXCEPT ![t] = (PresenceDecision(online, seen[t]) = "schedule")]
      /\ UNCHANGED <<sess, request, tasks, up, announce, seen, limit, offers, texts, faults,
                     lost, crossed, overlapped, bunched>>
  BY DEF OnPresence, session, bounds, ghosts
<1>2. /\ in' \in [Tab -> Seq(Frames)]
      /\ \A q \in Tab : Waiting(in'[q]) \ Waiting(in[q]) = {}
  BY <1>1, Takes
<1>3. flip' \in [Tab -> BOOLEAN]
  BY <1>1 DEF TypeOK
<1>4. TypeOK'
  BY <1>1, <1>2, <1>3 DEF TypeOK
<1> QED
  BY <1>1, <1>2, <1>4, FrameStep

LEMMA FlippingKeepsInv ==
  ASSUME Inv, NEW t \in Tab, Flip(t)
  PROVE  Inv'
<1> USE DEF Inv
<1>1. PICK org \in Origins : TracedTo(org)
  BY DEF Traced
<1>2. /\ flip' = [flip EXCEPT ![t] = FALSE] /\ seen' = [seen EXCEPT ![t] = ~seen[t]]
      /\ UNCHANGED <<tasks, in, up, announce, limit, offers, texts, faults,
                     lost, crossed, overlapped, bunched>>
      /\ Put(t, sess[t]) \/ Put(t, Terminated(sess[t]))
  BY DEF Flip, bounds, ghosts
<1>3. flip' \in [Tab -> BOOLEAN] /\ seen' \in [Tab -> BOOLEAN]
  BY <1>2 DEF TypeOK
<1>4. request' \in [Tab -> BOOLEAN]
  <2>1. PICK b \in BOOLEAN : b = (request[t] /\ (seen'[t] \/ In(t, {"none", "ended"})))
    OBVIOUS
  <2>2. Ask(t, b)
    BY <2>1 DEF Flip
  <2> QED
    BY <2>2, Asks
<1>5. sess[t] \in Sessions /\ SessionTraced(org, t, sess[t])
  BY <1>1 DEF TracedTo, TypeOK
<1>6. Terminated(sess[t]) \in Sessions /\ SessionTraced(org, t, Terminated(sess[t]))
  <2> DEFINE ended == [sess[t] EXCEPT !.phase = "ended"]
  <2>1. ended \in Sessions /\ ended.phase = "ended" /\ ended.n = sess[t].n
    BY <1>5 DEF Sessions, Phase
  <2> HIDE DEF ended
  <2>2. Terminated(sess[t]) = sess[t]
        \/ (sess[t].phase # "none" /\ Terminated(sess[t]) = ended)
    <3>1. ASSUME sess[t].phase \in {"active", "offered", "incoming"}
          PROVE  Terminated(sess[t]) = ended
      BY <3>1 DEF Terminated, ended
    <3>2. ASSUME sess[t].phase \notin {"active", "offered", "incoming"}
          PROVE  Terminated(sess[t]) = sess[t]
      BY <3>2 DEF Terminated
    <3> QED
      BY <3>1, <3>2
  <2>3. sess[t].phase # "none" => SessionTraced(org, t, ended)
    BY <1>5, <2>1 DEF SessionTraced
  <2> QED
    BY <1>5, <2>1, <2>2, <2>3
<1>7. PICK s \in Sessions : Put(t, s) /\ SessionTraced(org, t, s)
  BY <1>2, <1>5, <1>6
<1>8. TypeOK'
  BY <1>2, <1>3, <1>4, <1>7, Puts DEF TypeOK
<1>9. sess'[t] = s /\ \A q \in Tab \ {t} : sess'[q] = sess[q]
  BY <1>7, Puts
<1> QED
  BY <1>1, <1>2, <1>7, <1>8, <1>9, TabStep

-----------------------------------------------------------------------------
LEMMA StepKeepsInv ==
  Inv /\ [Next]_vars => Inv'
<1> SUFFICES ASSUME Inv, [Next]_vars PROVE Inv'
  OBVIOUS
<1>1. CASE UNCHANGED vars
  <2>1. UNCHANGED <<sess, request, tasks, in, up, announce, seen, flip, limit, offers, texts,
                    faults, lost, crossed, overlapped, bunched>>
    BY <1>1 DEF vars, session, presence, bounds, ghosts
  <2>2. TypeOK'
    BY <2>1 DEF Inv, TypeOK
  <2> QED
    BY <2>1, <2>2, FrameStep DEF Inv
<1>2. \A t \in limit.tabs : t \in Tab
  BY Bounds DEF Inv
<1>3. ASSUME NEW t \in Tab, Receive(t) PROVE Inv'
  BY <1>3, OffersKeepInv, AcceptsKeepInv, TakingTextsKeepsInv, EndsKeepInv, DismissalsKeepInv,
     PresenceKeepsInv DEF Receive
<1>4. ASSUME NEW t \in Tab, Work(t) PROVE Inv'
  BY <1>4, InitiatingKeepsInv, AcceptingKeepsInv, EncryptingKeepsInv, VerifyingKeepsInv,
     FailingKeepsInv, DerivingKeepsInv, DecryptingKeepsInv, ResyncingKeepsInv DEF Work
<1>5. ASSUME NEW t \in Tab, Click(t) PROVE Inv'
  BY <1>5, OfferingKeepsInv, AskingToAcceptKeepsInv, EndingKeepsInv, ReturningKeepsInv,
     ComposingKeepsInv DEF Click, DeclineButton, SafetyEndButton
<1>6. CASE Next
  <2>1. CASE \E t \in limit.tabs : Receive(t) \/ Work(t) \/ Flip(t)
    BY <1>2, <1>3, <1>4, <2>1, FlippingKeepsInv
  <2>2. CASE \E u \in Side, b \in BOOLEAN : Broadcast(u, b)
    BY <2>2, BroadcastingKeepsInv
  <2>3. CASE \E t \in limit.tabs : Click(t) \/ Drop(t) \/ Reload(t) \/ Connect(t)
    BY <1>2, <1>5, <2>3, DroppingKeepsInv, ReloadingKeepsInv, ConnectingKeepsInv
  <2> QED
    BY <1>6, <2>1, <2>2, <2>3 DEF Next, Act
<1> QED
  BY <1>1, <1>6

\* Every reachable state is well-typed, with any number of tabs of either user.
THEOREM Typing ==
  Spec => []TypeOK
<1>1. Inv => TypeOK
  BY DEF Inv
<1> QED
  BY <1>1, InitInv, StepKeepsInv, PTL DEF Spec

\* Whatever crosses, however many tabs take part and whatever session a handler
\* finds when it returns: tabs that share a secret are two, one of each user,
\* and what one sends with the other receives with (initiateSecret,
\* acceptSecret, onSecretEvent, deriveSessionKeys).
THEOREM SecretsAreOfTwo ==
  Spec => []KeysAgree
<1>1. Inv => KeysAgree
  <2> SUFFICES ASSUME Inv, NEW t \in Tab, NEW q \in Tab, t # q,
                      In(t, {"active"}), In(q, {"active"}), Secret(t) = Secret(q)
               PROVE  /\ Owner(t) # Owner(q)
                      /\ sess[t].send.side = sess[q].recv.side
                      /\ sess[t].recv.side = sess[q].send.side
                      /\ \A r \in Tab \ {t, q} : ~(In(r, {"active"}) /\ Secret(r) = Secret(t))
    BY DEF KeysAgree
  <2>1. PICK org \in Origins : TracedTo(org)
    BY DEF Inv, Traced
  <2>2. ASSUME NEW r \in Tab, In(r, {"active"})
        PROVE  /\ sess[r].send.side = Owner(r) /\ sess[r].recv.side = Peer(r)
               /\ Role(org, r, sess[r].n, sess[r].send.by)
    BY <2>1, <2>2 DEF TracedTo, SessionTraced, In
  <2>3. ASSUME NEW r \in Tab, In(r, {"active"}), Secret(r) = Secret(t)
        PROVE  sess[r].n = sess[t].n /\ sess[r].send.by = sess[t].send.by
    BY <2>3 DEF Secret
  <2> DEFINE n == sess[t].n
             by == sess[t].send.by
  <2>4. \A r \in Tab : In(r, {"active"}) /\ Secret(r) = Secret(t) => Role(org, r, n, by)
    BY <2>2, <2>3
  <2> HIDE DEF n, by
  <2>5. Role(org, t, n, by) /\ Role(org, q, n, by)
    BY <2>4
  <2>6. Owner(t) # Owner(q)
    BY <2>5 DEF Role
  <2>7. Owner(t) = Peer(q) /\ Peer(t) = Owner(q)
    BY <2>6 DEF Owner, Peer
  <2>8. \A r \in Tab : Role(org, r, n, by) => r \in {t, q}
    BY <2>5 DEF Role
  <2> QED
    BY <2>2, <2>4, <2>6, <2>7, <2>8
<1> QED
  BY <1>1, InitInv, StepKeepsInv, PTL DEF Spec
=============================================================================
