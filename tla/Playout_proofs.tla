----------------------------- MODULE Playout_proofs -----------------------------
(***************************************************************************)
(* Proofs about Media and Playout: mute silences every sender              *)
(* (MutedStaysSilent), no device is left capturing (CaptureStaysHeld),     *)
(* every peer is sent the stream (PeersAlwaysGetStream), the server knows  *)
(* what it captures (PostureStaysTrue), no sender outgrows the budget      *)
(* (ShapeStaysFit), and each peer is heard where it belongs                *)
(* (VoiceStaysVoice). The invariants are Base for all of them (lists,      *)
(* waits and the one tone that is ours), Silent, CaptureHeld itself, Whole *)
(* and Sent, JoinsAlone and Announced, Pictured, Counted and Shaped, and   *)
(* Heard.                                                                  *)
(***************************************************************************)
EXTENDS Playout, FiniteSetTheorems, WellFoundedInduction, TLAPS

-----------------------------------------------------------------------------
(* Lists of tracks and senders.                                            *)

LEMMA LeastOf ==
  ASSUME NEW S, S \subseteq Nat, S # {}
  PROVE  Min(S) \in S /\ \A i \in S : Min(S) <= i
<1> DEFINE R == OpToRel(<, Nat)
<1>1. IsWellFoundedOn(R, Nat) BY NatLessThanWellFounded
<1>2. \A c, d \in Nat : c < d => <<c, d>> \in R BY DEF OpToRel
<1> HIDE DEF R
<1>3. \E b \in S : \A c \in S : <<c, b>> \notin R BY <1>1, WFMin
<1>4. PICK b \in S : \A c \in S : <<c, b>> \notin R BY <1>3
<1>5. ASSUME NEW c \in S PROVE b <= c
  <2>1. c \in Nat /\ b \in Nat OBVIOUS
  <2>2. ~(c < b) BY <1>2, <1>4, <2>1
  <2> QED BY <2>1, <2>2
<1> QED BY <1>5 DEF Min

\* A finite set of numbers can be listed in order: no least bound b has a subset
\* of 1..b without a list.
LEMMA ListExists ==
  ASSUME NEW n \in Nat, NEW S \in SUBSET (1..n)
  PROVE  \E s \in [1..Cardinality(S) -> S] : \A i, j \in DOMAIN s : i < j => s[i] < s[j]
<1> DEFINE Listed(T) == \E s \in [1..Cardinality(T) -> T] : \A i, j \in DOMAIN s : i < j => s[i] < s[j]
           Bad == {b \in Nat : \E T \in SUBSET (1..b) : ~Listed(T)}
<1>1. SUFFICES ASSUME Bad # {} PROVE FALSE
  <2>1. n \notin Bad BY <1>1
  <2> QED BY <2>1
<1>2. /\ Bad \subseteq Nat /\ \A c \in Bad : \E T \in SUBSET (1..c) : ~Listed(T)
      /\ \A c \in Nat \ Bad : \A T \in SUBSET (1..c) : Listed(T)
  OBVIOUS
<1> HIDE DEF Bad
<1> DEFINE b == Min(Bad)
<1>3. b \in Bad /\ b \in Nat /\ b - 1 \notin Bad
  <2>1. Bad \subseteq Nat BY <1>2
  <2>2. b \in Bad /\ \A c \in Bad : b <= c BY <1>1, <2>1, LeastOf
  <2> HIDE DEF b
  <2> QED BY <2>1, <2>2
<1> HIDE DEF b
<1>4. PICK T \in SUBSET (1..b) : ~Listed(T) BY <1>2, <1>3
<1>5. IsFiniteSet(T) /\ Cardinality(T) \in Nat
  <2>1. IsFiniteSet(1..b) BY <1>3, FS_Interval
  <2>2. IsFiniteSet(T) BY <2>1, FS_Subset
  <2> QED BY <2>2, FS_CardinalityType
<1>6. b # 0
  <2> SUFFICES ASSUME b = 0 PROVE FALSE
    OBVIOUS
  <2>1. T = {} OBVIOUS
  <2>2. Cardinality(T) = 0 BY <2>1, FS_EmptySet
  <2> DEFINE e == [i \in 1..0 |-> 0]
  <2>3. e \in [1..0 -> T] /\ DOMAIN e = 1..0 /\ \A i \in 1..0 : FALSE OBVIOUS
  <2> HIDE DEF e
  <2>4. e \in [1..Cardinality(T) -> T] BY <2>2, <2>3
  <2>5. \A i, j \in DOMAIN e : i < j => e[i] < e[j] BY <2>3
  <2> QED BY <1>4, <2>4, <2>5
<1>7. \A V \in SUBSET (1..(b - 1)) : Listed(V)
  <2>1. b - 1 \in Nat \ Bad BY <1>3, <1>6
  <2> HIDE DEF Listed
  <2> QED BY <1>2, <2>1
<1>8. b \in T
  <2> SUFFICES ASSUME b \notin T PROVE FALSE
    OBVIOUS
  <2>1. T \in SUBSET (1..(b - 1)) BY <1>3
  <2> QED BY <1>4, <1>7, <2>1
<1> DEFINE U == T \ {b}
<1>9. U \in SUBSET (1..(b - 1)) /\ U \subseteq T /\ \A u \in U : u < b /\ u \in Nat BY <1>3
<1>10. PICK s \in [1..Cardinality(U) -> U] : \A i, j \in DOMAIN s : i < j => s[i] < s[j] BY <1>7, <1>9
<1>11. Cardinality(U) = Cardinality(T) - 1 /\ Cardinality(U) \in Nat
  <2>1. IsFiniteSet(U) BY <1>5, FS_Subset
  <2>2. Cardinality(U) \in Nat BY <2>1, FS_CardinalityType
  <2>3. Cardinality(U) = IF b \in T THEN Cardinality(T) - 1 ELSE Cardinality(T)
    BY <1>5, FS_RemoveElement
  <2> QED BY <1>8, <2>2, <2>3
<1> HIDE DEF U
<1> DEFINE k == Cardinality(T)
           t == [i \in 1..k |-> IF i = k THEN b ELSE s[i]]
<1>12. \A i \in 1..k : i # k => i \in 1..Cardinality(U) BY <1>5, <1>11
<1>13. \A i \in 1..Cardinality(U) : s[i] \in T /\ s[i] < b /\ s[i] \in Nat BY <1>9, <1>10
<1>14. t \in [1..k -> T] BY <1>8, <1>12, <1>13
<1>15. \A i, j \in DOMAIN t : i < j => t[i] < t[j]
  <2> SUFFICES ASSUME NEW i \in 1..k, NEW j \in 1..k, i < j PROVE t[i] < t[j]
    OBVIOUS
  <2>1. i # k BY <1>5
  <2>2. t[i] = s[i] /\ i \in 1..Cardinality(U) BY <1>12, <2>1
  <2>3. CASE j = k BY <1>13, <2>2, <2>3
  <2>4. CASE j # k
    <3>1. j \in 1..Cardinality(U) /\ t[j] = s[j] BY <1>12, <2>4
    <3> QED BY <1>10, <2>2, <3>1
  <2> QED BY <2>3, <2>4
<1> QED BY <1>4, <1>14, <1>15

LEMMA SeqMore ==
  ASSUME NEW S, NEW T, S \subseteq T, NEW s \in Seq(S)
  PROVE  s \in Seq(T)
<1>1. s = [i \in 1..Len(s) |-> s[i]] /\ Len(s) \in Nat /\ \A i \in 1..Len(s) : s[i] \in T OBVIOUS
<1> QED BY <1>1

LEMMA InOrderLists ==
  ASSUME NEW n \in Nat, NEW S \in SUBSET (1..n)
  PROVE  InOrder(S) \in Seq(S) /\ Len(InOrder(S)) = Cardinality(S)
<1>1. InOrder(S) \in [1..Cardinality(S) -> S] BY ListExists, Zenon DEF InOrder
<1>2. Cardinality(S) \in Nat
  <2>1. IsFiniteSet(1..n) BY FS_Interval
  <2>2. IsFiniteSet(S) BY <2>1, FS_Subset
  <2> QED BY <2>2, FS_CardinalityType
<1> QED BY <1>1, <1>2

LEMMA InOrderShort ==
  ASSUME NEW n \in Nat
  PROVE  /\ InOrder({}) = <<>>
         /\ \A v \in 1..n : InOrder({v}) = <<v>>
<1>1. InOrder({}) = <<>>
  <2>1. {} \in SUBSET (1..n) /\ Cardinality({}) = 0 BY FS_EmptySet
  <2> QED BY <2>1, InOrderLists
<1>2. ASSUME NEW v \in 1..n PROVE InOrder({v}) = <<v>>
  <2>1. {v} \in SUBSET (1..n) /\ Cardinality({v}) = 1 BY FS_Singleton
  <2>2. InOrder({v}) \in Seq({v}) /\ Len(InOrder({v})) = 1 BY <2>1, InOrderLists
  <2> QED BY <2>2
<1> QED BY <1>1, <1>2

\* The least of one number, the first of none.
LEMMA FirstOfFew ==
  /\ FirstOf({}) = 0
  /\ \A v \in Nat : FirstOf({v}) = v
<1>1. FirstOf({}) = 0 BY DEF FirstOf
<1>2. ASSUME NEW v \in Nat PROVE Min({v}) = v BY DEF Min
<1> QED BY <1>1, <1>2 DEF FirstOf

-----------------------------------------------------------------------------
(* What the operators of Media do to a list of tracks and to the senders.  *)

Kinds == {"mic", "camera", "screen", "sound"}
TrackRow == [kind : Kinds, live : BOOLEAN, on : BOOLEAN, in : Nat]

LEMMA StoppedRows ==
  ASSUME NEW trs \in Seq(TrackRow), NEW S
  PROVE  /\ Stopped(trs, S) \in Seq(TrackRow) /\ Len(Stopped(trs, S)) = Len(trs)
         /\ \A i \in 1..Len(trs) :
              Stopped(trs, S)[i] = IF i \in S THEN [trs[i] EXCEPT !.live = FALSE, !.in = 0] ELSE trs[i]
<1>1. \A i \in 1..Len(trs) : trs[i] \in TrackRow OBVIOUS
<1>2. \A r \in TrackRow : [r EXCEPT !.live = FALSE, !.in = 0] \in TrackRow BY DEF TrackRow
<1>3. DOMAIN trs = 1..Len(trs) /\ Len(trs) \in Nat OBVIOUS
<1>4. \A i \in 1..Len(trs) :
        Stopped(trs, S)[i] = IF i \in S THEN [trs[i] EXCEPT !.live = FALSE, !.in = 0] ELSE trs[i]
  BY <1>3 DEF Stopped
<1>5. DOMAIN Stopped(trs, S) = 1..Len(trs) /\ Stopped(trs, S) = [i \in 1..Len(trs) |-> Stopped(trs, S)[i]]
  BY <1>3 DEF Stopped
<1>6. \A i \in 1..Len(trs) : Stopped(trs, S)[i] \in TrackRow BY <1>1, <1>2, <1>4
<1>7. Stopped(trs, S) \in Seq(TrackRow) /\ Len(Stopped(trs, S)) = Len(trs) BY <1>3, <1>5, <1>6
<1> QED BY <1>4, <1>7

LEMMA EnabledRows ==
  ASSUME NEW trs \in Seq(TrackRow), NEW S, NEW on \in BOOLEAN
  PROVE  /\ Enabled(trs, S, on) \in Seq(TrackRow) /\ Len(Enabled(trs, S, on)) = Len(trs)
         /\ \A i \in 1..Len(trs) : Enabled(trs, S, on)[i] = IF i \in S THEN [trs[i] EXCEPT !.on = on] ELSE trs[i]
<1>1. \A i \in 1..Len(trs) : trs[i] \in TrackRow OBVIOUS
<1>2. \A r \in TrackRow : [r EXCEPT !.on = on] \in TrackRow BY DEF TrackRow
<1>3. DOMAIN trs = 1..Len(trs) /\ Len(trs) \in Nat OBVIOUS
<1>4. \A i \in 1..Len(trs) : Enabled(trs, S, on)[i] = IF i \in S THEN [trs[i] EXCEPT !.on = on] ELSE trs[i]
  BY <1>3 DEF Enabled
<1>5. DOMAIN Enabled(trs, S, on) = 1..Len(trs) /\ Enabled(trs, S, on) = [i \in 1..Len(trs) |-> Enabled(trs, S, on)[i]]
  BY <1>3 DEF Enabled
<1>6. \A i \in 1..Len(trs) : Enabled(trs, S, on)[i] \in TrackRow BY <1>1, <1>2, <1>4
<1>7. Enabled(trs, S, on) \in Seq(TrackRow) /\ Len(Enabled(trs, S, on)) = Len(trs) BY <1>3, <1>5, <1>6
<1> QED BY <1>4, <1>7

\* Rows added at the end.
LEMMA AddedRows ==
  ASSUME NEW trs \in Seq(TrackRow), NEW new \in Seq(TrackRow)
  PROVE  /\ trs \o new \in Seq(TrackRow) /\ Len(trs \o new) = Len(trs) + Len(new)
         /\ \A i \in 1..Len(trs) : (trs \o new)[i] = trs[i]
         /\ \A i \in 1..Len(new) : (trs \o new)[Len(trs) + i] = new[i]
  OBVIOUS

\* A connection, by its senders' lists of tracks.
Sends(pc, aud, vid) == "aud" \in DOMAIN pc /\ "vid" \in DOMAIN pc /\ pc.aud = aud /\ pc.vid = vid
Carries(pc, n) == Sends(pc, pc.aud, pc.vid) /\ pc.aud \in Seq(0..n) /\ pc.vid \in Seq(0..n)

HasSenders(f) == \A p \in DOMAIN f : "aud" \in DOMAIN f[p] /\ "vid" \in DOMAIN f[p]

\* Shaping the video moves no track.
LEMMA CapsKeep ==
  ASSUME NEW pc, "aud" \in DOMAIN pc, "vid" \in DOMAIN pc, NEW n, NEW scr, NEW moving
  PROVE  Sends(ApplyVideoBitrateCaps(pc, n, scr, moving), pc.aud, pc.vid)
  BY DEF ApplyVideoBitrateCaps, Sends

LEMMA ReplacedIs ==
  ASSUME NEW n \in Nat, NEW s \in Seq(0..n), NEW t \in Nat
  PROVE  /\ Replaced(s, t) \in Seq(0..n \cup {t}) /\ DOMAIN Replaced(s, t) = DOMAIN s
         /\ (\A i \in DOMAIN s : s[i] = 0) => Replaced(s, t) = s
         /\ \A k \in DOMAIN s : s[k] # 0 /\ (\A i \in DOMAIN s : s[i] # 0 => k <= i)
              => Replaced(s, t) = [s EXCEPT ![k] = t]
<1> DEFINE I == {i \in 1..Len(s) : s[i] # 0}
<1>1. Replaced(s, t) = IF I = {} THEN s ELSE IF Min(I) = 0 THEN s ELSE [s EXCEPT ![Min(I)] = t]
  BY DEF Replaced, SelectInSeq, ReplaceAt
<1>2. I \subseteq Nat \ {0} /\ DOMAIN s = 1..Len(s) OBVIOUS
<1>3. \A k \in I : (\A i \in I : k <= i) => Min(I) = k BY <1>2 DEF Min
<1> HIDE DEF I
<1>4. ASSUME NEW k
      PROVE  [s EXCEPT ![k] = t] \in Seq(0..n \cup {t}) /\ DOMAIN [s EXCEPT ![k] = t] = DOMAIN s
  <2> DEFINE r == [s EXCEPT ![k] = t]
  <2>1. DOMAIN r = 1..Len(s) /\ Len(s) \in Nat /\ \A i \in 1..Len(s) : r[i] = IF i = k THEN t ELSE s[i]
    OBVIOUS
  <2>2. r = [i \in 1..Len(s) |-> r[i]] OBVIOUS
  <2>3. \A i \in 1..Len(s) : r[i] \in 0..n \cup {t} BY <2>1
  <2> HIDE DEF r
  <2>4. r \in Seq(0..n \cup {t}) /\ DOMAIN r = DOMAIN s BY <2>1, <2>2, <2>3
  <2> QED BY <2>4 DEF r
<1>5. s \in Seq(0..n \cup {t}) OBVIOUS
<1>6. Replaced(s, t) \in Seq(0..n \cup {t}) /\ DOMAIN Replaced(s, t) = DOMAIN s
  BY <1>1, <1>4, <1>5
<1>7. (\A i \in DOMAIN s : s[i] = 0) => I = {} BY <1>2 DEF I
<1>8. ASSUME NEW k \in DOMAIN s, s[k] # 0, \A i \in DOMAIN s : s[i] # 0 => k <= i
      PROVE  Replaced(s, t) = [s EXCEPT ![k] = t]
  <2>1. k \in I /\ \A i \in I : k <= i BY <1>2, <1>8 DEF I
  <2>2. Min(I) = k /\ k # 0 BY <1>2, <1>3, <2>1
  <2> QED BY <1>1, <2>1, <2>2
<1> QED BY <1>1, <1>6, <1>7, <1>8

\* The same for all connections: which lists an operator changes, and how.
LEMMA ShapedSenders ==
  ASSUME NEW f, HasSenders(f), NEW scr
  PROVE  /\ DOMAIN Applied(f, scr) = DOMAIN f /\ DOMAIN ResetScales(f) = DOMAIN f
         /\ \A p \in DOMAIN f : /\ Sends(Applied(f, scr)[p], f[p].aud, f[p].vid)
                               /\ Sends(ResetScales(f)[p], f[p].aud, f[p].vid)
<1>1. DOMAIN Applied(f, scr) = DOMAIN f /\ DOMAIN ResetScales(f) = DOMAIN f BY DEF Applied, ResetScales
<1>2. ASSUME NEW p \in DOMAIN f
      PROVE  /\ Sends(Applied(f, scr)[p], f[p].aud, f[p].vid)
             /\ Sends(ResetScales(f)[p], f[p].aud, f[p].vid)
  <2>1. "aud" \in DOMAIN f[p] /\ "vid" \in DOMAIN f[p] BY DEF HasSenders
  <2>2. Applied(f, scr)[p] = ApplyVideoBitrateCaps(f[p], Members, scr, motion.active) BY DEF Applied
  <2>3. ResetScales(f)[p] = [f[p] EXCEPT !.scale = 0] BY DEF ResetScales
  <2> QED BY <2>1, <2>2, <2>3, CapsKeep DEF Sends
<1> QED BY <1>1, <1>2

\* The lists without the screen's sound.
Unsounded(aud) == [i \in DOMAIN aud |-> IF aud[i] = sound THEN 0 ELSE aud[i]]

LEMMA AudioSenders ==
  ASSUME NEW f, HasSenders(f), NEW t
  PROVE  /\ DOMAIN WithAudio(f, t) = DOMAIN f /\ DOMAIN AttachScreenAudioToPeers(f, t) = DOMAIN f
         /\ DOMAIN WithoutSound(f) = DOMAIN f
         /\ \A p \in DOMAIN f :
              /\ Sends(WithAudio(f, t)[p], Replaced(f[p].aud, t), f[p].vid)
              /\ Sends(AttachScreenAudioToPeers(f, t)[p], Append(f[p].aud, t), f[p].vid)
              /\ Sends(WithoutSound(f)[p], Unsounded(f[p].aud), f[p].vid)
<1>1. /\ DOMAIN WithAudio(f, t) = DOMAIN f /\ DOMAIN AttachScreenAudioToPeers(f, t) = DOMAIN f
      /\ DOMAIN WithoutSound(f) = DOMAIN f
  BY DEF WithAudio, AttachScreenAudioToPeers, WithoutSound
<1>2. ASSUME NEW p \in DOMAIN f
      PROVE  /\ Sends(WithAudio(f, t)[p], Replaced(f[p].aud, t), f[p].vid)
             /\ Sends(AttachScreenAudioToPeers(f, t)[p], Append(f[p].aud, t), f[p].vid)
             /\ Sends(WithoutSound(f)[p], Unsounded(f[p].aud), f[p].vid)
  <2>1. "aud" \in DOMAIN f[p] /\ "vid" \in DOMAIN f[p] BY DEF HasSenders
  <2>2. WithAudio(f, t)[p] = [f[p] EXCEPT !.aud = Replaced(f[p].aud, t)] BY DEF WithAudio
  <2>3. AttachScreenAudioToPeers(f, t)[p] = [f[p] EXCEPT !.aud = Append(f[p].aud, t)]
    BY DEF AttachScreenAudioToPeers
  <2>4. WithoutSound(f)[p] = [f[p] EXCEPT !.aud = Unsounded(f[p].aud)] BY DEF WithoutSound, Unsounded
  <2> QED BY <2>1, <2>2, <2>3, <2>4 DEF Sends
<1> QED BY <1>1, <1>2

\* Where a new video goes: into the first sender without a track, or a new one.
Attached(vid, t) ==
  LET i == SelectInSeq(vid, LAMBDA x : x = 0) IN IF i # 0 THEN ReplaceAt(vid, i, t) ELSE Append(vid, t)

LEMMA VideoSenders ==
  ASSUME NEW f, HasSenders(f), NEW t, NEW scr
  PROVE  /\ DOMAIN WithVideo(f, t) = DOMAIN f /\ DOMAIN AttachVideoToPeers(f, t, scr) = DOMAIN f
         /\ \A p \in DOMAIN f :
              /\ Sends(WithVideo(f, t)[p], f[p].aud, Replaced(f[p].vid, t))
              /\ Sends(AttachVideoToPeers(f, t, scr)[p], f[p].aud, Attached(f[p].vid, t))
<1> DEFINE attach(pc) == LET i == SelectInSeq(pc.vid, LAMBDA x : x = 0)
                         IN  IF i # 0 THEN [pc EXCEPT !.vid = ReplaceAt(@, i, t)]
                             ELSE [pc EXCEPT !.vid = Append(@, t), !.ready = FALSE]
           g == [p \in DOMAIN f |-> attach(f[p])]
<1>1. AttachVideoToPeers(f, t, scr) = Applied(g, scr) BY DEF AttachVideoToPeers
<1>2. DOMAIN WithVideo(f, t) = DOMAIN f /\ DOMAIN Applied(g, scr) = DOMAIN f
  BY DEF WithVideo, Applied
<1>3. ASSUME NEW p \in DOMAIN f
      PROVE  /\ Sends(WithVideo(f, t)[p], f[p].aud, Replaced(f[p].vid, t))
             /\ Sends(Applied(g, scr)[p], f[p].aud, Attached(f[p].vid, t))
  <2>1. "aud" \in DOMAIN f[p] /\ "vid" \in DOMAIN f[p] BY DEF HasSenders
  <2>2. WithVideo(f, t)[p] = [f[p] EXCEPT !.vid = Replaced(f[p].vid, t)] BY DEF WithVideo
  <2>3. Sends(g[p], f[p].aud, Attached(f[p].vid, t))
    BY <2>1 DEF Sends, Attached
  <2>4. Applied(g, scr)[p] = ApplyVideoBitrateCaps(g[p], Members, scr, motion.active) BY DEF Applied
  <2> HIDE DEF g
  <2>5. Sends(Applied(g, scr)[p], g[p].aud, g[p].vid) BY <2>3, <2>4, CapsKeep DEF Sends
  <2> QED BY <2>1, <2>2, <2>3, <2>5 DEF Sends
<1> QED BY <1>1, <1>2, <1>3

LEMMA AttachedIs ==
  ASSUME NEW n \in Nat, NEW s \in Seq(0..n), NEW t \in Nat
  PROVE  /\ Attached(s, t) \in Seq(0..n \cup {t})
         /\ \E k \in DOMAIN Attached(s, t) :
              /\ Attached(s, t)[k] = t /\ (k \in DOMAIN s => s[k] = 0)
              /\ DOMAIN Attached(s, t) = DOMAIN s \cup {k}
              /\ \A i \in DOMAIN Attached(s, t) \ {k} : Attached(s, t)[i] = s[i]
<1> DEFINE I == {i \in 1..Len(s) : s[i] = 0}
<1>1. Attached(s, t) = IF I = {} THEN Append(s, t) ELSE IF Min(I) = 0 THEN Append(s, t) ELSE [s EXCEPT ![Min(I)] = t]
  BY DEF Attached, SelectInSeq, ReplaceAt
<1>2. I \subseteq Nat /\ 0 \notin I OBVIOUS
<1>3. CASE I = {}
  <2>1. Attached(s, t) = Append(s, t) BY <1>1, <1>3
  <2>2. Append(s, t) \in Seq(0..n \cup {t}) OBVIOUS
  <2>3. /\ Append(s, t)[Len(s) + 1] = t /\ Len(s) + 1 \notin DOMAIN s
        /\ DOMAIN Append(s, t) = DOMAIN s \cup {Len(s) + 1}
        /\ \A i \in DOMAIN s : Append(s, t)[i] = s[i]
    OBVIOUS
  <2> QED BY <2>1, <2>2, <2>3
<1>4. CASE I # {}
  <2> DEFINE k == Min(I)
             r == [s EXCEPT ![k] = t]
  <2>1. k \in I BY <1>2, <1>4, LeastOf
  <2>2. Attached(s, t) = r BY <1>1, <1>2, <1>4, <2>1
  <2>3. k \in 1..Len(s) /\ s[k] = 0 BY <2>1
  <2> HIDE DEF k
  <2>4. DOMAIN r = 1..Len(s) /\ Len(s) \in Nat /\ \A i \in 1..Len(s) : r[i] = IF i = k THEN t ELSE s[i]
    OBVIOUS
  <2>5. r = [i \in 1..Len(s) |-> r[i]] OBVIOUS
  <2>6. \A i \in 1..Len(s) : r[i] \in 0..n \cup {t} BY <2>4
  <2> HIDE DEF r
  <2>7. r \in Seq(0..n \cup {t}) BY <2>4, <2>5, <2>6
  <2>8. /\ r[k] = t /\ s[k] = 0 /\ k \in DOMAIN r /\ DOMAIN r = DOMAIN s \cup {k}
        /\ \A i \in DOMAIN r \ {k} : r[i] = s[i]
    BY <2>3, <2>4
  <2> QED BY <2>2, <2>7, <2>8
<1> QED BY <1>3, <1>4

-----------------------------------------------------------------------------
(* What every reachable state of Media is like.                            *)

Devices == {"first", "restore", "switch", "display"}
Tones == {"tone", "leaving"}
Ops == Devices \cup Tones \cup {"join"}

\* A track in a stream is live and is no screen's sound.
TracksTyped ==
  /\ tracks \in Seq(TrackRow) /\ local \in 0..Len(tracks) /\ sound \in 0..Len(tracks)
  /\ \A i \in 1..Len(tracks) :
       tracks[i].in <= Len(tracks) /\ (tracks[i].in # 0 => tracks[i].live /\ tracks[i].kind # "sound")
  /\ sound # 0 => tracks[sound].kind = "sound"
FlagsTyped ==
  /\ gen \in Nat /\ chan \in Chan \cup {None}
  /\ muted \in BOOLEAN /\ camera \in BOOLEAN /\ screen \in BOOLEAN /\ listen \in BOOLEAN
WellWait(x, g, n) ==
  /\ x \in [op : Ops, to : Chan \cup {None}, video : BOOLEAN, gen : 0..g, stream : 0..n, n : {x.n}]
  /\ x.op \in {"join", "leaving"} => x.to \in Chan
  /\ x.op \in Devices => x.stream # 0
WaitsTyped == \A x \in waits : WellWait(x, gen, Len(tracks))
PcsTyped == \A p \in DOMAIN pcs : Carries(pcs[p], Len(tracks))

\* One tone at most is that of the call we left last: it is for our stream, which
\* nobody else takes down, and a stream lasts as long as its call or its tone.
OneTone ==
  /\ \A x \in Waiting(Tones) :
       /\ x.gen = gen => ~InCall /\ x.stream = local
       /\ x.stream = local /\ local # 0 => x.gen = gen
  /\ \A x, y \in Waiting(Tones) : x.gen = gen /\ y.gen = gen => x = y
  /\ local # 0 => InCall \/ \E x \in Waiting(Tones) : x.gen = gen
Base == TracksTyped /\ FlagsTyped /\ WaitsTyped /\ PcsTyped /\ OneTone

LEMMA OwnedAre ==
  ASSUME TracksTyped, NEW s, NEW K
  PROVE  Owned(s, K) \in SUBSET (1..Len(tracks)) /\ Owned(s, K) \subseteq Nat \ {0}
  BY DEF TracksTyped, Owned

LEMMA CreatedIs ==
  ASSUME TracksTyped
  PROVE  /\ Carries(CreatePC, Len(tracks))
         /\ \A i \in DOMAIN CreatePC.aud :
              CreatePC.aud[i] \in Owned(local, {"mic"}) \/ (CreatePC.aud[i] = sound /\ sound # 0)
         /\ \A m \in 1..Len(tracks) : local # 0 /\ Owned(local, {"mic"}) = {m} =>
              CreatePC.aud = IF sound # 0 THEN <<m, sound>> ELSE <<m>>
         /\ Owned(local, Video) = {} => CreatePC.vid = <<>>
         /\ \A v \in 1..Len(tracks) : Owned(local, Video) = {v} => CreatePC.vid = <<v>>
<1> DEFINE n == Len(tracks)
           M == Owned(local, {"mic"})
           V == Owned(local, Video)
           extra == IF local # 0 /\ sound # 0 THEN <<sound>> ELSE <<>>
<1>1. n \in Nat /\ sound \in 0..n BY DEF TracksTyped
<1>2. M \in SUBSET (1..n) /\ V \in SUBSET (1..n) BY OwnedAre
<1>3. CreatePC.aud = InOrder(M) \o extra /\ CreatePC.vid = InOrder(V) /\ Sends(CreatePC, CreatePC.aud, CreatePC.vid)
  BY DEF CreatePC, Sends
<1>4. InOrder(M) \in Seq(M) /\ InOrder(V) \in Seq(V) BY <1>1, <1>2, InOrderLists
<1>5. InOrder({}) = <<>> /\ \A v \in 1..n : InOrder({v}) = <<v>> BY <1>1, InOrderShort
<1> HIDE DEF n, M, V
<1>6. extra \in Seq(0..n) /\ \A i \in DOMAIN extra : extra[i] = sound /\ sound # 0
  <2>1. CASE local # 0 /\ sound # 0
    <3>1. extra = <<sound>> BY <2>1
    <3>2. <<sound>> \in Seq(0..n) /\ DOMAIN <<sound>> = 1..1 /\ <<sound>>[1] = sound BY <1>1
    <3> QED BY <2>1, <3>1, <3>2
  <2>2. CASE ~(local # 0 /\ sound # 0)
    <3>1. extra = <<>> BY <2>2
    <3>2. <<>> \in Seq(0..n) /\ DOMAIN <<>> = {} OBVIOUS
    <3> HIDE DEF extra
    <3> QED BY <3>1, <3>2
  <2> QED BY <2>1, <2>2
<1>7. InOrder(M) \in Seq(0..n) /\ InOrder(V) \in Seq(0..n)
  <2>1. M \subseteq 0..n /\ V \subseteq 0..n BY <1>1, <1>2
  <2> QED BY <1>4, <2>1, SeqMore
<1>8. \A i \in DOMAIN (InOrder(M) \o extra) :
        (InOrder(M) \o extra)[i] \in M \/ ((InOrder(M) \o extra)[i] = sound /\ sound # 0)
  <2> HIDE DEF extra
  <2> QED BY <1>4, <1>6
<1>9. InOrder(M) \o extra \in Seq(0..n) BY <1>6, <1>7
<1>10. Carries(CreatePC, n) BY <1>3, <1>7, <1>9 DEF Carries
<1>11. ASSUME NEW m \in 1..n, local # 0, M = {m}
       PROVE  CreatePC.aud = IF sound # 0 THEN <<m, sound>> ELSE <<m>>
  <2>1. CreatePC.aud = <<m>> \o extra BY <1>3, <1>5, <1>11
  <2> QED BY <1>1, <1>11, <2>1
<1>12. V = {} => CreatePC.vid = <<>> BY <1>3, <1>5
<1>13. \A v \in 1..n : V = {v} => CreatePC.vid = <<v>> BY <1>3, <1>5
<1> QED BY <1>3, <1>8, <1>10, <1>11, <1>12, <1>13 DEF n, M, V

\* A step that ends the tracks of S and adds `new`, or switches those of S.
Ended(r) == [r EXCEPT !.live = FALSE, !.in = 0]
Grown(S, new) ==
  /\ new \in Seq(TrackRow) /\ tracks' \in Seq(TrackRow) /\ Len(tracks') = Len(tracks) + Len(new)
  /\ \A i \in 1..Len(tracks) : tracks'[i] = IF i \in S THEN Ended(tracks[i]) ELSE tracks[i]
  /\ \A i \in 1..Len(new) : tracks'[Len(tracks) + i] = new[i]
Switched(S, on) ==
  /\ tracks' \in Seq(TrackRow) /\ Len(tracks') = Len(tracks)
  /\ \A i \in 1..Len(tracks) : tracks'[i] = IF i \in S THEN [tracks[i] EXCEPT !.on = on] ELSE tracks[i]

LEMMA EndedRow ==
  ASSUME NEW r \in TrackRow
  PROVE  /\ Ended(r) \in TrackRow /\ Ended(r).kind = r.kind /\ Ended(r).on = r.on
         /\ Ended(r).live = FALSE /\ Ended(r).in = 0
  BY DEF Ended, TrackRow

LEMMA GrownIs ==
  ASSUME TracksTyped, NEW S, NEW new \in Seq(TrackRow)
  PROVE  /\ tracks' = Stopped(tracks, S) \o new => Grown(S, new)
         /\ tracks' = tracks \o new => Grown({}, new)
         /\ tracks' = Stopped(tracks, S) => Grown(S, <<>>)
         /\ tracks' = tracks => Grown({}, <<>>)
<1>1. tracks \in Seq(TrackRow) BY DEF TracksTyped
<1> DEFINE T == Stopped(tracks, S)
<1>2. T \in Seq(TrackRow) /\ Len(T) = Len(tracks)
      /\ \A i \in 1..Len(tracks) : T[i] = IF i \in S THEN Ended(tracks[i]) ELSE tracks[i]
  BY <1>1, StoppedRows DEF Ended
<1> HIDE DEF T
<1>3. tracks' = T \o new => Grown(S, new)
  <2> SUFFICES ASSUME tracks' = T \o new PROVE Grown(S, new)
    OBVIOUS
  <2>1. /\ T \o new \in Seq(TrackRow) /\ Len(T \o new) = Len(T) + Len(new)
        /\ \A i \in 1..Len(T) : (T \o new)[i] = T[i]
        /\ \A i \in 1..Len(new) : (T \o new)[Len(T) + i] = new[i]
    BY <1>2, AddedRows
  <2> QED BY <1>2, <2>1 DEF Grown
<1>4. tracks' = tracks \o new => Grown({}, new)
  BY <1>1, AddedRows DEF Grown
<1>5. <<>> \in Seq(TrackRow) /\ Len(<<>>) = 0 OBVIOUS
<1>6. tracks' = T => Grown(S, <<>>) BY <1>2, <1>5 DEF Grown
<1>7. tracks' = tracks => Grown({}, <<>>) BY <1>1, <1>5 DEF Grown
<1> QED BY <1>3, <1>4, <1>6, <1>7 DEF T

LEMMA SwitchedIs ==
  ASSUME TracksTyped, NEW S, NEW on \in BOOLEAN, tracks' = Enabled(tracks, S, on)
  PROVE  Switched(S, on)
  BY EnabledRows DEF TracksTyped, Switched

\* After it a track is one that went on, one that has ended, or a new one.
GoesOn(S, i) == i \in 1..Len(tracks) /\ i \notin S /\ tracks'[i] = tracks[i]
Ends(S, i) ==
  /\ i \in 1..Len(tracks) /\ i \in S /\ tracks'[i].live = FALSE /\ tracks'[i].in = 0
  /\ tracks'[i].kind = tracks[i].kind /\ tracks'[i].on = tracks[i].on
Begins(new, i) == \E j \in 1..Len(new) : i = Len(tracks) + j /\ tracks'[i] = new[j]
LEMMA GrownRow ==
  ASSUME TracksTyped, NEW S, NEW new, Grown(S, new), NEW i \in 1..Len(tracks')
  PROVE  GoesOn(S, i) \/ Ends(S, i) \/ Begins(new, i)
<1>1. Len(tracks) \in Nat /\ Len(new) \in Nat /\ Len(tracks') = Len(tracks) + Len(new) /\ i \in Int
  BY DEF TracksTyped, Grown
<1>2. CASE i \in 1..Len(tracks)
  <2>1. tracks[i] \in TrackRow BY <1>2 DEF TracksTyped
  <2>2. tracks'[i] = IF i \in S THEN Ended(tracks[i]) ELSE tracks[i] BY <1>2 DEF Grown
  <2> QED BY <1>2, <2>1, <2>2, EndedRow DEF GoesOn, Ends
<1>3. CASE i \notin 1..Len(tracks)
  <2> DEFINE j == i - Len(tracks)
  <2>1. j \in 1..Len(new) /\ i = Len(tracks) + j BY <1>1, <1>3
  <2>2. tracks'[Len(tracks) + j] = new[j] BY <2>1 DEF Grown
  <2> QED BY <2>1, <2>2 DEF Begins
<1> QED BY <1>2, <1>3

LEMMA GrownTyped ==
  ASSUME TracksTyped, NEW S, NEW new, Grown(S, new),
         local' \in 0..Len(tracks'), sound' \in 0..Len(tracks'),
         sound' # 0 => tracks'[sound'].kind = "sound",
         \A j \in 1..Len(new) : /\ new[j].in <= Len(tracks')
                                /\ new[j].in # 0 => new[j].live /\ new[j].kind # "sound"
  PROVE  TracksTyped'
<1>1. Len(tracks) \in Nat /\ Len(new) \in Nat /\ Len(tracks') = Len(tracks) + Len(new) BY DEF TracksTyped, Grown
<1>2. ASSUME NEW i \in 1..Len(tracks')
      PROVE  tracks'[i].in <= Len(tracks') /\ (tracks'[i].in # 0 => tracks'[i].live /\ tracks'[i].kind # "sound")
  <2>1. \A k \in 1..Len(tracks) : /\ tracks[k].in \in Nat /\ tracks[k].in <= Len(tracks)
                                  /\ tracks[k].in # 0 => tracks[k].live /\ tracks[k].kind # "sound"
    <3>1. \A k \in 1..Len(tracks) : tracks[k] \in TrackRow BY DEF TracksTyped
    <3> QED BY <3>1 DEF TracksTyped, TrackRow
  <2>2. GoesOn(S, i) \/ Ends(S, i) \/ Begins(new, i) BY GrownRow
  <2>3. CASE GoesOn(S, i) BY <1>1, <2>1, <2>3 DEF GoesOn
  <2>4. CASE Ends(S, i) BY <1>1, <2>4 DEF Ends
  <2>5. CASE Begins(new, i) BY <2>5 DEF Begins
  <2> QED BY <2>2, <2>3, <2>4, <2>5
<1> QED BY <1>2 DEF TracksTyped, Grown

LEMMA SwitchedTyped ==
  ASSUME TracksTyped, NEW S, NEW on \in BOOLEAN, Switched(S, on), local' = local, sound' = sound
  PROVE  TracksTyped'
<1>1. \A i \in 1..Len(tracks) : tracks[i] \in TrackRow BY DEF TracksTyped
<1>2. \A r \in TrackRow : /\ [r EXCEPT !.on = on].kind = r.kind /\ [r EXCEPT !.on = on].live = r.live
                          /\ [r EXCEPT !.on = on].in = r.in
  BY DEF TrackRow
<1>3. \A i \in 1..Len(tracks) : /\ tracks'[i].kind = tracks[i].kind /\ tracks'[i].live = tracks[i].live
                                /\ tracks'[i].in = tracks[i].in
  BY <1>1, <1>2 DEF Switched
<1>4. sound \in 1..Len(tracks) \/ sound = 0 BY DEF TracksTyped
<1> QED BY <1>3, <1>4 DEF TracksTyped, Switched

-----------------------------------------------------------------------------
(* What the steps leave alone.                                             *)

LEMMA WellWaitLater ==
  ASSUME NEW x, NEW g \in Nat, NEW n \in Nat, WellWait(x, g, n),
         NEW h \in Nat, g <= h, NEW m \in Nat, n <= m
  PROVE  WellWait(x, h, m)
  BY DEF WellWait

LEMMA WellWaitNew ==
  ASSUME TracksTyped, FlagsTyped, NEW op \in Ops, NEW to \in Chan \cup {None}, NEW video \in BOOLEAN,
         op \in {"join", "leaving"} => to \in Chan, op \in Devices => local # 0
  PROVE  WellWait(Wait(op, to, video), gen, Len(tracks))
  BY DEF WellWait, Wait, TracksTyped, FlagsTyped

LEMMA WellWaitMoved ==
  ASSUME NEW x, NEW g, NEW n, WellWait(x, g, n), NEW o \in Ops,
         o \in {"join", "leaving"} => x.op \in {"join", "leaving"}, o \in Devices => x.op \in Devices
  PROVE  /\ WellWait([x EXCEPT !.op = o], g, n) /\ [x EXCEPT !.op = o].op = o
         /\ [x EXCEPT !.op = o].stream = x.stream /\ [x EXCEPT !.op = o].gen = x.gen
         /\ [x EXCEPT !.op = o].video = x.video
  BY DEF WellWait

LEMMA WaitsLater ==
  ASSUME WaitsTyped, FlagsTyped, TracksTyped, gen' \in Nat, gen <= gen', Len(tracks') \in Nat, Len(tracks) <= Len(tracks'),
         \A x \in waits' \ waits : WellWait(x, gen', Len(tracks'))
  PROVE  WaitsTyped'
<1>1. gen \in Nat /\ Len(tracks) \in Nat BY DEF FlagsTyped, TracksTyped
<1>2. \A x \in waits : WellWait(x, gen', Len(tracks')) BY <1>1, WellWaitLater DEF WaitsTyped
<1> QED BY <1>2 DEF WaitsTyped

LEMMA PcsLater ==
  ASSUME PcsTyped, TracksTyped, pcs' = pcs, Len(tracks') \in Nat, Len(tracks) <= Len(tracks')
  PROVE  PcsTyped'
<1>1. 0..Len(tracks) \subseteq 0..Len(tracks') BY DEF TracksTyped
<1>2. \A p \in DOMAIN pcs : Carries(pcs[p], Len(tracks'))
  BY <1>1, SeqMore DEF PcsTyped, Carries
<1> QED BY <1>2 DEF PcsTyped

LEMMA TonesLater ==
  ASSUME OneTone, gen' = gen, local' = local, chan' = chan, Waiting(Tones)' = Waiting(Tones)
  PROVE  OneTone'
  BY DEF OneTone, InCall

LEMMA BaseStays ==
  ASSUME Base, UNCHANGED <<chan, gen, local, flags, tracks, waits>>, PcsTyped'
  PROVE  Base'
  BY DEF Base, TracksTyped, FlagsTyped, WaitsTyped, OneTone, Waiting, InCall, flags

-----------------------------------------------------------------------------
(* The operations, one by one.                                             *)

LEMMA TrackIs ==
  ASSUME NEW kind \in Kinds, NEW in \in Nat
  PROVE  LET t == Track(kind, TRUE, in)
         IN  t \in TrackRow /\ t.kind = kind /\ t.live = TRUE /\ t.on = TRUE /\ t.in = in
  BY DEF Track, TrackRow

LEMMA MicIs ==
  ASSUME NEW in \in Nat
  PROVE  LET m == Track("mic", ~muted, in)
         IN  m \in TrackRow /\ m.kind = "mic" /\ m.live = TRUE /\ m.on = ~muted /\ m.in = in
<1> DEFINE z == ~muted
<1>1. z \in BOOLEAN BY Zenon
<1> HIDE DEF z
<1>2. LET m == Track("mic", z, in)
      IN  m \in TrackRow /\ m.kind = "mic" /\ m.live = TRUE /\ m.on = z /\ m.in = in
  BY <1>1 DEF Track, TrackRow, Kinds
<1> QED BY <1>2 DEF z

LEMMA HangUpBase ==
  ASSUME Base, NEW op \in Tones, NEW to \in Chan \cup {None}, NEW video \in BOOLEAN,
         op = "leaving" => to \in Chan, HangUp(Wait(op, to, video))
  PROVE  Base'
<1> DEFINE x == Wait(op, to, video)
<1>1. TracksTyped' /\ FlagsTyped' BY DEF Base, TracksTyped, FlagsTyped, HangUp, flags
<1>2. x.op = op /\ x.gen = gen /\ x.stream = local BY DEF Wait
<1>3. WellWait(x, gen, Len(tracks))
  BY WellWaitNew DEF Base, Tones, Devices, Ops
<1> HIDE DEF x
<1>4. waits' = waits \cup {x} /\ UNCHANGED <<gen, tracks, local>> /\ InCall /\ chan' = None
  BY DEF HangUp, x
<1>5. WaitsTyped' BY <1>3, <1>4 DEF Base, WaitsTyped
<1>6. PcsTyped'
  <2>1. pcs' = <<>> BY DEF HangUp
  <2> QED BY <2>1 DEF PcsTyped
<1>7. OneTone'
  <2>1. \A y \in Waiting(Tones) : y.gen # gen BY <1>4 DEF Base, OneTone
  <2>2. Waiting(Tones)' = Waiting(Tones) \cup {x} BY <1>2, <1>4 DEF Waiting
  <2>3. ~InCall' BY <1>4 DEF InCall
  <2>4. \A y \in Waiting(Tones) : y.stream = local /\ local # 0 => y.gen = gen BY DEF Base, OneTone
  <2> QED BY <1>2, <1>4, <2>1, <2>2, <2>3, <2>4 DEF OneTone
<1> QED BY <1>1, <1>5, <1>6, <1>7 DEF Base

LEMMA JoinBase ==
  ASSUME Base, NEW c \in Chan, NEW video \in BOOLEAN, JoinVoiceChannel(c, video)
  PROVE  Base'
<1>1. CASE InCall
  <2>1. HangUp(Wait("leaving", c, video)) BY <1>1 DEF JoinVoiceChannel
  <2> QED BY <2>1, HangUpBase DEF Tones
<1>2. CASE ~InCall
  <2> DEFINE x == Wait("join", c, video)
  <2>1. /\ waits' = waits \cup {x} /\ UNCHANGED <<chan, gen, local, muted, screen, sound, tracks, pcs>>
        /\ camera' = video /\ listen' = FALSE
    BY <1>2 DEF JoinVoiceChannel, net
  <2>2. WellWait(x, gen, Len(tracks)) BY WellWaitNew DEF Base, Devices, Ops
  <2>3. x.op = "join" BY DEF Wait
  <2> HIDE DEF x
  <2>4. TracksTyped' /\ FlagsTyped' BY <2>1 DEF Base, TracksTyped, FlagsTyped
  <2>5. WaitsTyped' BY <2>1, <2>2 DEF Base, WaitsTyped
  <2>6. PcsTyped' BY <2>1 DEF Base, PcsTyped
  <2>7. Waiting(Tones)' = Waiting(Tones) BY <2>1, <2>3 DEF Waiting, Tones
  <2>8. OneTone' BY <2>1, <2>7, TonesLater DEF Base
  <2> QED BY <2>4, <2>5, <2>6, <2>8 DEF Base
<1> QED BY <1>1, <1>2

\* The tracks that the end of a tone stops.
StoppedBy(x) ==
  IF x.gen = gen THEN Owned(local, {"mic"} \cup Video) \cup ({sound} \ {0})
                 ELSE Owned(x.stream, {"mic"} \cup Video)

LEMMA ToneEndsRows ==
  ASSUME Base, NEW x \in waits, ToneEnds(x)
  PROVE  Grown(StoppedBy(x), <<>>) /\ TracksTyped' /\ Len(tracks') = Len(tracks)
<1>1. TracksTyped /\ Len(tracks) \in Nat BY DEF Base, TracksTyped
<1>2. tracks' = Stopped(tracks, StoppedBy(x)) BY DEF ToneEnds, StoppedBy
<1>3. Grown(StoppedBy(x), <<>>)
  <2>1. <<>> \in Seq(TrackRow) OBVIOUS
  <2> QED BY <1>1, <1>2, <2>1, GrownIs
<1>4. Len(tracks') = Len(tracks) BY <1>1, <1>3 DEF Grown
<1>5. local' \in {0, local} /\ sound' \in {0, sound} BY DEF ToneEnds
<1>6. sound' # 0 => tracks'[sound'].kind = "sound"
  <2>1. sound \in 1..Len(tracks) \/ sound = 0 BY DEF Base, TracksTyped
  <2>2. ASSUME sound' # 0 PROVE tracks'[sound'].kind = "sound"
    <3>1. sound' = sound /\ sound \in 1..Len(tracks) BY <1>5, <2>1, <2>2
    <3>2. GoesOn(StoppedBy(x), sound) \/ Ends(StoppedBy(x), sound) \/ Begins(<<>>, sound)
      BY <1>1, <1>3, <1>4, <3>1, GrownRow
    <3>3. tracks[sound].kind = "sound" BY <3>1 DEF Base, TracksTyped
    <3> QED BY <3>1, <3>2, <3>3 DEF GoesOn, Ends, Begins
  <2> QED BY <2>2
<1>7. local' \in 0..Len(tracks') /\ sound' \in 0..Len(tracks') BY <1>4, <1>5 DEF Base, TracksTyped
<1>8. TracksTyped' BY <1>1, <1>3, <1>6, <1>7, GrownTyped
<1> QED BY <1>3, <1>4, <1>8

\* After it the tone is over, or a join waits in its place.
LEMMA ToneEndsWaits ==
  ASSUME Base, NEW x \in waits, ToneEnds(x)
  PROVE  /\ x \in Waiting(Tones) /\ Waiting(Tones)' = Waiting(Tones) \ {x}
         /\ Waiting(Devices)' = Waiting(Devices)
         /\ \A y \in waits' : y \in waits \/ (/\ x.op = "leaving" /\ y.op = "join" /\ y.video = x.video
                                            /\ WellWait(y, gen, Len(tracks)))
<1>1. x.op \in Tones /\ x \in Waiting(Tones) BY DEF ToneEnds, Tones, Waiting
<1> DEFINE y == [x EXCEPT !.op = "join"]
<1>2. WellWait(x, gen, Len(tracks)) BY DEF Base, WaitsTyped
<1>3. x.op = "leaving" => WellWait(y, gen, Len(tracks)) /\ y.op = "join" /\ y.video = x.video
  BY <1>2, WellWaitMoved DEF Ops, Devices
<1> HIDE DEF y
<1>4. waits' = IF x.op = "leaving" THEN (waits \ {x}) \cup {y} ELSE waits \ {x} BY DEF ToneEnds, y
<1>5. Waiting(Tones)' = Waiting(Tones) \ {x} /\ Waiting(Devices)' = Waiting(Devices)
  BY <1>1, <1>3, <1>4 DEF Waiting, Tones, Devices
<1> QED BY <1>1, <1>3, <1>4, <1>5

LEMMA ToneEndsBase ==
  ASSUME Base, NEW x \in waits, ToneEnds(x)
  PROVE  Base'
<1>1. TracksTyped' /\ Len(tracks') = Len(tracks) BY ToneEndsRows
<1>2. UNCHANGED <<chan, gen, muted, pcs>> /\ local' = IF x.gen = gen THEN 0 ELSE local BY DEF ToneEnds, net
<1>3. FlagsTyped'
  <2>1. x.video \in BOOLEAN BY DEF Base, WaitsTyped, WellWait
  <2> QED BY <1>2, <2>1 DEF Base, FlagsTyped, ToneEnds
<1>4. WaitsTyped' BY <1>1, <1>2, ToneEndsWaits DEF Base, WaitsTyped
<1>5. PcsTyped' BY <1>1, <1>2 DEF Base, PcsTyped
<1>6. OneTone'
  <2>1. x \in Waiting(Tones) /\ Waiting(Tones)' = Waiting(Tones) \ {x} BY ToneEndsWaits
  <2>2. OneTone BY DEF Base
  <2>3. InCall' = InCall BY <1>2 DEF InCall
  <2> QED BY <1>2, <2>1, <2>2, <2>3 DEF OneTone
<1> QED BY <1>1, <1>3, <1>4, <1>5, <1>6 DEF Base

\* The tracks a join brings.
Joined(got) ==
  LET s == Len(tracks) + 1
  IN  CASE got = "both" -> <<Track("mic", ~muted, s), Track("camera", TRUE, s)>>
        [] got = "mic" -> <<Track("mic", ~muted, s)>>
        [] got = "none" -> <<>>

LEMMA JoinGetsRows ==
  ASSUME Base, NEW x \in waits, NEW got \in {"both", "mic", "none"}, JoinGets(x, got)
  PROVE  /\ Grown({}, Joined(got)) /\ TracksTyped' /\ Len(tracks') = Len(tracks) + Len(Joined(got))
         /\ \A j \in 1..Len(Joined(got)) :
              /\ Joined(got)[j].live = TRUE /\ Joined(got)[j].in = Len(tracks) + 1
              /\ \/ j = 1 /\ Joined(got)[j].kind = "mic" /\ Joined(got)[j].on = ~muted
                 \/ j = 2 /\ got = "both" /\ Joined(got)[j].kind = "camera" /\ Joined(got)[j].on = TRUE
         /\ Len(Joined(got)) = CASE got = "both" -> 2 [] got = "mic" -> 1 [] got = "none" -> 0
<1> DEFINE s == Len(tracks) + 1
           m == Track("mic", ~muted, s)
           c == Track("camera", TRUE, s)
           new == Joined(got)
<1>1. s \in Nat /\ s # 0 BY DEF Base, TracksTyped
<1>2. /\ m \in TrackRow /\ m.kind = "mic" /\ m.live = TRUE /\ m.on = ~muted /\ m.in = s
      /\ c \in TrackRow /\ c.kind = "camera" /\ c.live = TRUE /\ c.on = TRUE /\ c.in = s
  <2>1. m \in TrackRow /\ m.kind = "mic" /\ m.live = TRUE /\ m.on = ~muted /\ m.in = s BY <1>1, MicIs
  <2>2. c \in TrackRow /\ c.kind = "camera" /\ c.live = TRUE /\ c.on = TRUE /\ c.in = s
    <3>1. "camera" \in Kinds BY DEF Kinds
    <3> QED BY <1>1, <3>1, TrackIs
  <2> QED BY <2>1, <2>2
<1>3. new = CASE got = "both" -> <<m, c>> [] got = "mic" -> <<m>> [] got = "none" -> <<>> BY DEF Joined
<1> HIDE DEF m, c
<1>4. /\ new \in Seq(TrackRow)
      /\ Len(new) = CASE got = "both" -> 2 [] got = "mic" -> 1 [] got = "none" -> 0
      /\ \A j \in 1..Len(new) : (j = 1 /\ new[j] = m) \/ (j = 2 /\ got = "both" /\ new[j] = c)
  <2>1. CASE got = "both" BY <1>2, <1>3, <2>1
  <2>2. CASE got = "mic" BY <1>2, <1>3, <2>2
  <2>3. CASE got = "none" BY <1>3, <2>3
  <2> QED BY <2>1, <2>2, <2>3
<1>5. tracks' = tracks \o new BY DEF JoinGets, Joined
<1> HIDE DEF new
<1>6. Grown({}, new) BY <1>4, <1>5, GrownIs DEF Base
<1>7. \A j \in 1..Len(new) :
        /\ new[j].live = TRUE /\ new[j].in = s
        /\ \/ j = 1 /\ new[j].kind = "mic" /\ new[j].on = ~muted
           \/ j = 2 /\ got = "both" /\ new[j].kind = "camera" /\ new[j].on = TRUE
  BY <1>2, <1>4
<1>8. TracksTyped'
  <2>1. Len(tracks') = Len(tracks) + Len(new) BY <1>6 DEF Grown
  <2>2. Len(new) \in 0..2 /\ (got # "none" => Len(new) # 0) BY <1>4
  <2>3. local' = (IF got = "none" THEN 0 ELSE s) /\ sound' = sound BY DEF JoinGets
  <2>4. Len(tracks) \in Nat /\ sound \in 0..Len(tracks) /\ TracksTyped BY DEF Base, TracksTyped
  <2>5. local' \in 0..Len(tracks') /\ sound' \in 0..Len(tracks') BY <2>1, <2>2, <2>3, <2>4
  <2>6. ASSUME sound' # 0 PROVE tracks'[sound'].kind = "sound"
    <3>1. sound \in 1..Len(tracks) BY <2>3, <2>4, <2>6
    <3> QED BY <1>6, <2>3, <3>1 DEF Base, TracksTyped, Grown
  <2>7. \A j \in 1..Len(new) : new[j].in <= Len(tracks') /\ (new[j].in # 0 => new[j].live /\ new[j].kind # "sound")
    BY <1>7, <2>1, <2>2, <2>4
  <2> QED BY <1>6, <2>4, <2>5, <2>6, <2>7, GrownTyped
<1>9. Len(tracks') = Len(tracks) + Len(new) BY <1>6 DEF Grown
<1> QED BY <1>4, <1>6, <1>7, <1>8, <1>9 DEF new

LEMMA JoinGetsBase ==
  ASSUME Base, NEW x \in waits, NEW got \in {"both", "mic", "none"}, JoinGets(x, got)
  PROVE  Base' /\ InCall' /\ Waiting(Tones)' = Waiting(Tones)
<1>1. TracksTyped' /\ Len(tracks') \in Nat /\ Len(tracks) <= Len(tracks') /\ Len(tracks) \in Nat
  <2>1. Len(Joined(got)) \in Nat BY JoinGetsRows
  <2>2. Len(tracks) \in Nat BY DEF Base, TracksTyped
  <2>3. TracksTyped' /\ Len(tracks') = Len(tracks) + Len(Joined(got)) BY JoinGetsRows
  <2> QED BY <2>1, <2>2, <2>3
<1>2. x.op = "join" /\ x.to \in Chan BY DEF JoinGets, Base, WaitsTyped, WellWait
<1>3. /\ chan' = x.to /\ gen' = gen + 1 /\ waits' = waits \ {x} /\ UNCHANGED <<muted, screen, pcs>>
      /\ local' = (IF got = "none" THEN 0 ELSE Len(tracks) + 1)
      /\ camera' = CameraGot(x, got) /\ listen' = (listen \/ got = "none")
  BY DEF JoinGets
<1>4. InCall' BY <1>2, <1>3, NoneAssumption DEF InCall
<1>5. gen \in Nat BY DEF Base, FlagsTyped
<1>6. FlagsTyped'
  <2>1. camera' \in BOOLEAN BY <1>3 DEF CameraGot, Base, FlagsTyped
  <2>2. listen' \in BOOLEAN BY <1>3 DEF Base, FlagsTyped
  <2> QED BY <1>2, <1>3, <1>5, <2>1, <2>2 DEF Base, FlagsTyped
<1>7. WaitsTyped' BY <1>1, <1>3, <1>5, WaitsLater DEF Base
<1>8. PcsTyped' BY <1>1, <1>3, PcsLater DEF Base
<1>9. Waiting(Tones)' = Waiting(Tones) BY <1>2, <1>3 DEF Waiting, Tones
<1>10. OneTone'
  <2>1. \A y \in Waiting(Tones) : y.gen \in 0..gen /\ y.stream \in 0..Len(tracks)
    BY DEF Waiting, Base, WaitsTyped, WellWait
  <2>2. \A y \in Waiting(Tones) : y.gen # gen' BY <1>3, <1>5, <2>1
  <2>3. \A y \in Waiting(Tones) : local' # 0 => y.stream # local' BY <1>1, <1>3, <2>1
  <2> QED BY <1>4, <1>9, <2>2, <2>3 DEF OneTone
<1> QED BY <1>1, <1>4, <1>6, <1>7, <1>8, <1>9, <1>10 DEF Base

LEMMA MuteBase ==
  ASSUME Base, NEW m \in BOOLEAN, SetVoiceMuted(m)
  PROVE  Base' /\ Switched(Owned(local, {"mic"}), ~m)
<1>1. /\ tracks' = Enabled(tracks, Owned(local, {"mic"}), ~m) /\ muted' = m
      /\ UNCHANGED <<chan, gen, local, camera, screen, listen, sound, pcs, waits>>
  BY DEF SetVoiceMuted, net
<1>2. Switched(Owned(local, {"mic"}), ~m) BY <1>1, SwitchedIs DEF Base
<1>3. TracksTyped' BY <1>1, <1>2, SwitchedTyped DEF Base
<1>4. Len(tracks') = Len(tracks) BY <1>2 DEF Switched
<1>5. FlagsTyped' BY <1>1 DEF Base, FlagsTyped
<1>6. WaitsTyped' BY <1>1, <1>4 DEF Base, WaitsTyped
<1>7. PcsTyped' BY <1>1, <1>4 DEF Base, PcsTyped
<1>8. OneTone' BY <1>1 DEF Base, OneTone, Waiting, InCall
<1> QED BY <1>2, <1>3, <1>5, <1>6, <1>7, <1>8 DEF Base

\* setCameraEnabled asks for the screen's place, for a first camera, switches the
\* one there is, or does nothing.
LEMMA CameraCases ==
  ASSUME Base, NEW on \in BOOLEAN, SetCameraEnabled(on)
  PROVE  /\ Base' /\ Capturing
         /\ UNCHANGED <<chan, gen, local, muted, screen, listen, sound, net>>
         /\ \/ /\ on /\ screen /\ waits' = waits \cup {Wait("switch", None, FALSE)}
               /\ UNCHANGED <<tracks, camera, posture>>
            \/ /\ on /\ ~screen /\ Owned(local, Video) = {}
               /\ Grown({FirstOf(Owned(local, {"mic"}))} \ {0}, <<>>)
               /\ waits' = waits \cup {Wait("first", None, FALSE)}
               /\ UNCHANGED <<camera, posture>>
            \/ /\ Owned(local, Video) # {} /\ ~(on /\ screen)
               /\ Switched(Owned(local, Video), on) /\ camera' = on
               /\ posture' = Announce(muted, on, screen, listen) /\ UNCHANGED waits
            \/ /\ ~on /\ Owned(local, Video) = {}
               /\ posture' = Announce(muted, camera, screen, listen) /\ UNCHANGED <<waits, tracks, camera>>
<1>1. /\ Capturing /\ UNCHANGED <<chan, gen, local, muted, screen, listen, sound, net, pcs>>
  BY DEF SetCameraEnabled, net
<1>2. TracksTyped /\ local # 0 /\ InCall BY <1>1 DEF Base, Capturing
<1>3. Len(tracks) \in Nat /\ gen \in Nat BY DEF Base, TracksTyped, FlagsTyped
<1>4. ASSUME NEW op \in {"first", "switch"}, waits' = waits \cup {Wait(op, None, FALSE)}, camera' = camera,
             TracksTyped', Len(tracks') = Len(tracks)
      PROVE  Base'
  <2> DEFINE x == Wait(op, None, FALSE)
  <2>1. WellWait(x, gen, Len(tracks)) BY <1>2, WellWaitNew DEF Base, Devices, Ops
  <2>2. x.op = op BY DEF Wait
  <2> HIDE DEF x
  <2>3. waits' = waits \cup {x} BY <1>4 DEF x
  <2>4. FlagsTyped' BY <1>1, <1>4 DEF Base, FlagsTyped
  <2>5. WaitsTyped' BY <1>1, <1>4, <2>1, <2>3 DEF Base, WaitsTyped
  <2>6. PcsTyped' BY <1>1, <1>4 DEF Base, PcsTyped
  <2>7. Waiting(Tones)' = Waiting(Tones) BY <2>2, <2>3 DEF Waiting, Tones
  <2>8. OneTone' BY <1>1, <2>7, TonesLater DEF Base
  <2> QED BY <1>4, <2>4, <2>5, <2>6, <2>8 DEF Base
<1>5. CASE on /\ screen /\ waits' = waits \cup {Wait("switch", None, FALSE)} /\ UNCHANGED <<tracks, camera, posture>>
  <2>1. TracksTyped' BY <1>1, <1>5 DEF Base, TracksTyped
  <2> QED BY <1>1, <1>4, <1>5, <2>1
<1>6. CASE /\ on /\ ~screen /\ Owned(local, Video) = {}
           /\ tracks' = Stopped(tracks, {FirstOf(Owned(local, {"mic"}))} \ {0})
           /\ waits' = waits \cup {Wait("first", None, FALSE)} /\ UNCHANGED <<camera, posture>>
  <2> DEFINE S == {FirstOf(Owned(local, {"mic"}))} \ {0}
  <2>1. Grown(S, <<>>)
    <3>1. <<>> \in Seq(TrackRow) OBVIOUS
    <3> QED BY <1>2, <1>6, <3>1, GrownIs
  <2>2. Len(tracks') = Len(tracks) BY <1>3, <2>1 DEF Grown
  <2> HIDE DEF S
  <2>3. ASSUME sound' # 0 PROVE tracks'[sound'].kind = "sound"
    <3>1. sound' = sound /\ sound \in 1..Len(tracks') /\ tracks[sound].kind = "sound"
      BY <1>1, <2>2, <2>3 DEF Base, TracksTyped
    <3>2. GoesOn(S, sound) \/ Ends(S, sound) \/ Begins(<<>>, sound) BY <1>2, <2>1, <3>1, GrownRow
    <3> QED BY <3>1, <3>2 DEF GoesOn, Ends, Begins
  <2>4. local' \in 0..Len(tracks') /\ sound' \in 0..Len(tracks') BY <1>1, <2>2 DEF Base, TracksTyped
  <2>5. TracksTyped' BY <1>2, <2>1, <2>3, <2>4, GrownTyped
  <2>6. Base' BY <1>4, <1>6, <2>2, <2>5
  <2> QED BY <1>1, <1>6, <2>1, <2>6 DEF S
<1>7. CASE /\ ~(on /\ screen) /\ Owned(local, Video) # {}
           /\ tracks' = Enabled(tracks, Owned(local, Video), on) /\ camera' = on
           /\ posture' = Announce(muted, on, screen, listen) /\ UNCHANGED waits
  <2>1. Switched(Owned(local, Video), on) BY <1>2, <1>7, SwitchedIs
  <2>2. TracksTyped' BY <1>1, <1>2, <2>1, SwitchedTyped
  <2>3. Len(tracks') = Len(tracks) BY <2>1 DEF Switched
  <2>4. FlagsTyped' BY <1>1, <1>7 DEF Base, FlagsTyped
  <2>5. WaitsTyped' BY <1>1, <1>7, <2>3 DEF Base, WaitsTyped
  <2>6. PcsTyped' BY <1>1, <2>3 DEF Base, PcsTyped
  <2>7. OneTone' BY <1>1, <1>7 DEF Base, OneTone, Waiting, InCall
  <2> QED BY <1>1, <1>7, <2>1, <2>2, <2>4, <2>5, <2>6, <2>7 DEF Base
<1>8. CASE /\ ~on /\ Owned(local, Video) = {} /\ posture' = Announce(muted, camera, screen, listen)
           /\ UNCHANGED <<waits, tracks, camera>>
  <2>1. PcsTyped' BY <1>1, <1>8 DEF Base, PcsTyped
  <2>2. Base' BY <1>1, <1>8, <2>1, BaseStays DEF flags
  <2> QED BY <1>1, <1>8, <2>2
<1> QED BY <1>5, <1>6, <1>7, <1>8 DEF SetCameraEnabled

LEMMA ListsTyped ==
  ASSUME NEW n \in Nat, NEW m \in Nat, n <= m, NEW s \in Seq(0..n), NEW t \in 0..m
  PROVE  /\ s \in Seq(0..m) /\ Replaced(s, t) \in Seq(0..m) /\ Attached(s, t) \in Seq(0..m)
         /\ Unsounded(s) \in Seq(0..m) /\ Append(Unsounded(s), t) \in Seq(0..m)
<1>1. 0..n \subseteq 0..m /\ 0..n \cup {t} \subseteq 0..m /\ t \in Nat OBVIOUS
<1>2. s \in Seq(0..m) BY <1>1, SeqMore
<1>3. Replaced(s, t) \in Seq(0..n \cup {t}) /\ Attached(s, t) \in Seq(0..n \cup {t})
  BY <1>1, ReplacedIs, AttachedIs
<1>4. Replaced(s, t) \in Seq(0..m) /\ Attached(s, t) \in Seq(0..m) BY <1>1, <1>3, SeqMore
<1>5. Unsounded(s) \in Seq(0..m)
  <2>1. \A i \in 1..Len(s) : s[i] \in 0..m BY <1>2
  <2>2. Unsounded(s) = [i \in 1..Len(s) |-> IF s[i] = sound THEN 0 ELSE s[i]] /\ Len(s) \in Nat
    BY DEF Unsounded
  <2> QED BY <2>1, <2>2
<1> QED BY <1>2, <1>4, <1>5

LEMMA CarriesLater ==
  ASSUME PcsTyped, TracksTyped, Len(tracks') \in Nat, Len(tracks) <= Len(tracks'),
         DOMAIN pcs' \subseteq DOMAIN pcs, NEW t \in 0..Len(tracks'), NEW u \in 0..Len(tracks'),
         \A p \in DOMAIN pcs' :
           \E aud \in {pcs[p].aud, Replaced(pcs[p].aud, t), Unsounded(pcs[p].aud), Append(Unsounded(pcs[p].aud), t)},
              vid \in {pcs[p].vid, Replaced(pcs[p].vid, u), Attached(pcs[p].vid, u)} :
                Sends(pcs'[p], aud, vid)
  PROVE  PcsTyped'
<1> SUFFICES ASSUME NEW p \in DOMAIN pcs' PROVE Carries(pcs'[p], Len(tracks'))
  BY DEF PcsTyped
<1>1. /\ Len(tracks) \in Nat /\ pcs[p].aud \in Seq(0..Len(tracks)) /\ pcs[p].vid \in Seq(0..Len(tracks))
  BY DEF PcsTyped, TracksTyped, Carries
<1>2. PICK aud \in {pcs[p].aud, Replaced(pcs[p].aud, t), Unsounded(pcs[p].aud), Append(Unsounded(pcs[p].aud), t)},
           vid \in {pcs[p].vid, Replaced(pcs[p].vid, u), Attached(pcs[p].vid, u)} :
                Sends(pcs'[p], aud, vid)
  OBVIOUS
<1> DEFINE n == Len(tracks)
           m == Len(tracks')
           a == pcs[p].aud
           v == pcs[p].vid
<1>3. n \in Nat /\ m \in Nat /\ n <= m /\ a \in Seq(0..n) /\ v \in Seq(0..n) /\ t \in 0..m /\ u \in 0..m BY <1>1
<1> HIDE DEF n, m, a, v
<1>4. /\ a \in Seq(0..m) /\ Replaced(a, t) \in Seq(0..m)
      /\ Unsounded(a) \in Seq(0..m) /\ Append(Unsounded(a), t) \in Seq(0..m)
  BY <1>3, ListsTyped
<1>5. v \in Seq(0..m) /\ Replaced(v, u) \in Seq(0..m) /\ Attached(v, u) \in Seq(0..m)
  BY <1>3, ListsTyped
<1>6. aud \in Seq(0..m) /\ vid \in Seq(0..m) BY <1>4, <1>5 DEF a, v
<1> QED BY <1>2, <1>6 DEF Carries, Sends, m

LEMMA PcsHave ==
  ASSUME PcsTyped
  PROVE  HasSenders(pcs)
  BY DEF PcsTyped, HasSenders, Carries, Sends

\* What every answer of a device leaves: the calls and their tones.
LEMMA AnswerBase ==
  ASSUME Base, NEW x \in waits, x.op \in Devices, waits' = waits \ {x},
         UNCHANGED <<chan, gen, local, muted, listen>>, TracksTyped', Len(tracks) <= Len(tracks'), PcsTyped',
         camera' \in BOOLEAN, screen' \in BOOLEAN
  PROVE  Base'
<1>1. FlagsTyped' BY DEF Base, FlagsTyped
<1>2. WaitsTyped'
  <2>1. gen \in Nat /\ Len(tracks') \in Nat BY DEF Base, FlagsTyped, TracksTyped
  <2> QED BY <2>1, WaitsLater DEF Base
<1>3. Waiting(Tones)' = Waiting(Tones) BY DEF Waiting, Tones, Devices
<1>4. OneTone' BY <1>3, TonesLater DEF Base
<1> QED BY <1>1, <1>2, <1>4 DEF Base

FirstAdds == <<Track("mic", ~muted, local), Track("camera", TRUE, local)>>
LEMMA FirstGetsBase ==
  ASSUME Base, NEW x \in waits, FirstGets(x)
  PROVE  /\ Base' /\ Grown({}, FirstAdds) /\ Len(FirstAdds) = 2
         /\ FirstAdds[1].kind = "mic" /\ FirstAdds[1].live = TRUE /\ FirstAdds[1].on = ~muted /\ FirstAdds[1].in = local
         /\ FirstAdds[2].kind = "camera" /\ FirstAdds[2].live = TRUE /\ FirstAdds[2].on = TRUE /\ FirstAdds[2].in = local
         /\ local = 0 => pcs' = pcs
         /\ local # 0 =>
              /\ DOMAIN pcs' = DOMAIN pcs
              /\ \A p \in DOMAIN pcs :
                   Sends(pcs'[p], Replaced(pcs[p].aud, Len(tracks) + 1), Attached(pcs[p].vid, Len(tracks) + 2))
<1> DEFINE n == Len(tracks)
           m == Track("mic", ~muted, local)
           c == Track("camera", TRUE, local)
<1>1. TracksTyped /\ PcsTyped /\ n \in Nat /\ local \in 0..n /\ sound \in 0..n BY DEF Base, TracksTyped
<1>2. /\ m \in TrackRow /\ m.kind = "mic" /\ m.live = TRUE /\ m.on = ~muted /\ m.in = local
      /\ c \in TrackRow /\ c.kind = "camera" /\ c.live = TRUE /\ c.on = TRUE /\ c.in = local
  <2>a. local \in Nat BY <1>1
  <2>1. m \in TrackRow /\ m.kind = "mic" /\ m.live = TRUE /\ m.on = ~muted /\ m.in = local BY <2>a, MicIs
  <2>2. "camera" \in Kinds BY DEF Kinds
  <2>3. c \in TrackRow /\ c.kind = "camera" /\ c.live = TRUE /\ c.on = TRUE /\ c.in = local
    BY <2>a, <2>2, TrackIs
  <2> QED BY <2>1, <2>3
<1>3. FirstAdds = <<m, c>> BY DEF FirstAdds
<1>4. tracks' = tracks \o FirstAdds BY DEF FirstGets, FirstAdds
<1> HIDE DEF m, c
<1>5. FirstAdds \in Seq(TrackRow) /\ Len(FirstAdds) = 2 /\ FirstAdds[1] = m /\ FirstAdds[2] = c BY <1>2, <1>3
<1>6. Grown({}, FirstAdds) BY <1>1, <1>4, <1>5, GrownIs
<1>7. Len(tracks') = n + 2 BY <1>5, <1>6 DEF Grown
<1>8. x.op = "first" /\ waits' = waits \ {x} /\ UNCHANGED <<chan, gen, local, muted, screen, listen, sound>>
  BY DEF FirstGets
<1>9. TracksTyped'
  <2>1. local' \in 0..Len(tracks') /\ sound' \in 0..Len(tracks') BY <1>1, <1>7, <1>8
  <2>2. ASSUME sound' # 0 PROVE tracks'[sound'].kind = "sound"
    <3>1. sound' = sound /\ sound \in 1..n /\ tracks[sound].kind = "sound" BY <1>1, <1>8, <2>2 DEF TracksTyped
    <3>2. tracks'[sound] = tracks[sound] BY <1>6, <3>1 DEF Grown
    <3> QED BY <3>1, <3>2
  <2>3. \A j \in 1..Len(FirstAdds) :
          FirstAdds[j].in <= Len(tracks') /\ (FirstAdds[j].in # 0 => FirstAdds[j].live /\ FirstAdds[j].kind # "sound")
    <3>1. \A j \in 1..2 : j = 1 \/ j = 2 OBVIOUS
    <3> QED BY <1>1, <1>2, <1>5, <1>7, <3>1
  <2> QED BY <1>1, <1>6, <2>1, <2>2, <2>3, GrownTyped
<1>10. camera' \in BOOLEAN BY DEF FirstGets, Base, FlagsTyped
<1>11. CASE local = 0
  <2>1. pcs' = pcs BY <1>11 DEF FirstGets
  <2>2. PcsTyped' BY <1>1, <1>7, <2>1, PcsLater
  <2>3. Base' BY <1>1, <1>7, <1>8, <1>9, <1>10, <2>2, AnswerBase DEF Devices, Base, FlagsTyped
  <2> QED BY <1>2, <1>5, <1>6, <1>11, <2>1, <2>3
<1>12. CASE local # 0
  <2> DEFINE f == WithAudio(pcs, n + 1)
  <2>1. pcs' = AttachVideoToPeers(f, n + 2, screen)
    <3>1. pcs' = AttachVideoToPeers(WithAudio(pcs, n + 1), (n + 1) + 1, screen) BY <1>12 DEF FirstGets
    <3>2. (n + 1) + 1 = n + 2 BY <1>1
    <3> QED BY <3>1, <3>2
  <2>2. DOMAIN f = DOMAIN pcs /\ \A p \in DOMAIN pcs : Sends(f[p], Replaced(pcs[p].aud, n + 1), pcs[p].vid)
    BY <1>1, PcsHave, AudioSenders
  <2>3. HasSenders(f) BY <2>2 DEF HasSenders, Sends
  <2> HIDE DEF f
  <2>4. DOMAIN pcs' = DOMAIN f /\ \A p \in DOMAIN f : Sends(pcs'[p], f[p].aud, Attached(f[p].vid, n + 2))
    BY <2>1, <2>3, VideoSenders
  <2>5. \A p \in DOMAIN pcs : Sends(pcs'[p], Replaced(pcs[p].aud, n + 1), Attached(pcs[p].vid, n + 2))
    BY <2>2, <2>4 DEF Sends
  <2>6. PcsTyped'
    <3> DEFINE t == n + 1
               u == n + 2
    <3>1. t \in 0..Len(tracks') /\ u \in 0..Len(tracks') BY <1>1, <1>7
    <3>2. \A p \in DOMAIN pcs' : Sends(pcs'[p], Replaced(pcs[p].aud, t), Attached(pcs[p].vid, u))
      BY <2>2, <2>4, <2>5
    <3>3. DOMAIN pcs' \subseteq DOMAIN pcs BY <2>2, <2>4
    <3> HIDE DEF t, u
    <3> QED BY <1>1, <1>7, <3>1, <3>2, <3>3, CarriesLater
  <2>7. Base' BY <1>1, <1>7, <1>8, <1>9, <1>10, <2>6, AnswerBase DEF Devices, Base, FlagsTyped
  <2> QED BY <1>2, <1>5, <1>6, <1>12, <2>2, <2>4, <2>5, <2>7
<1> QED BY <1>11, <1>12

LEMMA FirstFailsBase ==
  ASSUME Base, NEW x \in waits, FirstFails(x)
  PROVE  /\ Base' /\ Waiting(Tones)' = Waiting(Tones)
         /\ UNCHANGED <<chan, gen, local, flags, tracks, net, pcs, posture, raced>>
         /\ \E y : /\ y.op = "restore" /\ y.stream = x.stream /\ waits' = (waits \ {x}) \cup {y}
                  /\ x.op = "first"
<1> DEFINE y == [x EXCEPT !.op = "restore"]
<1>1. WellWait(x, gen, Len(tracks)) /\ x.op = "first" BY DEF Base, WaitsTyped, FirstFails
<1>2. WellWait(y, gen, Len(tracks)) /\ y.op = "restore" /\ y.stream = x.stream
  BY <1>1, WellWaitMoved DEF Ops, Devices
<1> HIDE DEF y
<1>3. waits' = (waits \ {x}) \cup {y} /\ UNCHANGED <<chan, gen, local, flags, tracks, net, pcs, posture, raced>>
  BY DEF FirstFails, y, net
<1>4. Waiting(Tones)' = Waiting(Tones) BY <1>1, <1>2, <1>3 DEF Waiting, Tones
<1>5. TracksTyped' /\ FlagsTyped' BY <1>3 DEF Base, TracksTyped, FlagsTyped, flags
<1>6. WaitsTyped' BY <1>2, <1>3 DEF Base, WaitsTyped
<1>7. PcsTyped' BY <1>3 DEF Base, PcsTyped
<1>8. OneTone' BY <1>3, <1>4, TonesLater DEF Base
<1> QED BY <1>1, <1>2, <1>3, <1>4, <1>5, <1>6, <1>7, <1>8 DEF Base

\* Where the new rows are the answer of a device asked for this stream, or a
\* screen's sound, which is in none.
Adds(new) ==
  /\ new \in Seq(TrackRow)
  /\ \A j \in 1..Len(new) : new[j].live = TRUE /\ new[j].in = IF new[j].kind = "sound" THEN 0 ELSE local

LEMMA GrowsTyped ==
  ASSUME TracksTyped, NEW S, NEW new, Grown(S, new), Adds(new), local' = local,
         sound' \in {0, sound} \/ \E j \in 1..Len(new) : sound' = Len(tracks) + j /\ new[j].kind = "sound"
  PROVE  TracksTyped' /\ Len(tracks') \in Nat /\ Len(tracks) <= Len(tracks')
<1>1. /\ Len(tracks) \in Nat /\ Len(new) \in Nat /\ Len(tracks') = Len(tracks) + Len(new)
      /\ local \in 0..Len(tracks) /\ sound \in 0..Len(tracks)
  BY DEF TracksTyped, Grown
<1>2. local' \in 0..Len(tracks') /\ sound' \in 0..Len(tracks') BY <1>1
<1>3. ASSUME sound' # 0 PROVE tracks'[sound'].kind = "sound"
  <2>1. CASE sound' = sound
    <3>1. sound \in 1..Len(tracks') /\ tracks[sound].kind = "sound" BY <1>1, <1>3, <2>1 DEF TracksTyped
    <3>2. GoesOn(S, sound) \/ Ends(S, sound) \/ Begins(new, sound) BY <3>1, GrownRow
    <3>3. sound \in 1..Len(tracks) BY <1>1, <1>3, <2>1
    <3>4. ~Begins(new, sound) BY <1>1, <3>3 DEF Begins
    <3> QED BY <2>1, <3>1, <3>2, <3>4 DEF GoesOn, Ends
  <2>2. CASE \E j \in 1..Len(new) : sound' = Len(tracks) + j /\ new[j].kind = "sound"
    BY <2>2 DEF Grown
  <2> QED BY <1>3, <2>1, <2>2
<1>4. \A j \in 1..Len(new) : new[j].in <= Len(tracks') /\ (new[j].in # 0 => new[j].live /\ new[j].kind # "sound")
  BY <1>1 DEF Adds
<1>5. TracksTyped' BY <1>2, <1>3, <1>4, GrownTyped
<1> QED BY <1>1, <1>5

LEMMA GrownOne ==
  ASSUME TracksTyped, NEW S, NEW r \in TrackRow
  PROVE  /\ tracks' = Append(Stopped(tracks, S), r) => Grown(S, <<r>>)
         /\ tracks' = Append(tracks, r) => Grown({}, <<r>>)
<1>1. tracks \in Seq(TrackRow) BY DEF TracksTyped
<1>2. \A trs \in Seq(TrackRow) : Append(trs, r) = trs \o <<r>> OBVIOUS
<1>3. Stopped(tracks, S) \in Seq(TrackRow) BY <1>1, StoppedRows
<1>4. <<r>> \in Seq(TrackRow) OBVIOUS
<1> QED BY <1>1, <1>2, <1>3, <1>4, GrownIs

LEMMA AddsFew ==
  ASSUME TracksTyped, NEW kind \in {"camera", "screen"}
  PROVE  /\ Adds(<<>>) /\ Adds(<<Track("mic", ~muted, local)>>) /\ Adds(<<Track(kind, TRUE, local)>>)
         /\ Adds(<<Track(kind, TRUE, local), Track("sound", TRUE, 0)>>)
<1> DEFINE m == Track("mic", ~muted, local)
           v == Track(kind, TRUE, local)
           s == Track("sound", TRUE, 0)
<1>1. local \in Nat /\ kind \in Kinds /\ "sound" \in Kinds /\ 0 \in Nat /\ kind # "sound"
  BY DEF TracksTyped, Kinds
<1>2. m \in TrackRow /\ m.kind = "mic" /\ m.live = TRUE /\ m.in = local BY <1>1, MicIs
<1>3. v \in TrackRow /\ v.kind = kind /\ v.live = TRUE /\ v.in = local BY <1>1, TrackIs
<1>4. s \in TrackRow /\ s.kind = "sound" /\ s.live = TRUE /\ s.in = 0 BY <1>1, TrackIs
<1> HIDE DEF m, v, s
<1>5. Adds(<<>>)
  <2>1. <<>> \in Seq(TrackRow) /\ \A j \in 1..Len(<<>>) : FALSE OBVIOUS
  <2> QED BY <2>1 DEF Adds
<1>6. Adds(<<m>>)
  <2>1. <<m>> \in Seq(TrackRow) /\ \A j \in 1..Len(<<m>>) : <<m>>[j] = m BY <1>2
  <2> QED BY <1>2, <2>1 DEF Adds
<1>7. Adds(<<v>>)
  <2>1. <<v>> \in Seq(TrackRow) /\ \A j \in 1..Len(<<v>>) : <<v>>[j] = v BY <1>3
  <2> QED BY <1>1, <1>3, <2>1 DEF Adds
<1>8. Adds(<<v, s>>)
  <2>1. <<v, s>> \in Seq(TrackRow) /\ \A j \in 1..Len(<<v, s>>) : <<v, s>>[j] = v \/ <<v, s>>[j] = s BY <1>3, <1>4
  <2> QED BY <1>1, <1>3, <1>4, <2>1 DEF Adds
<1> QED BY <1>5, <1>6, <1>7, <1>8 DEF m, v, s

RestoreAdds(ok) == IF ok THEN <<Track("mic", ~muted, local)>> ELSE <<>>
LEMMA RestoreGetsBase ==
  ASSUME Base, NEW x \in waits, NEW ok \in BOOLEAN, RestoreGets(x, ok)
  PROVE  /\ Base' /\ Grown({}, RestoreAdds(ok)) /\ Adds(RestoreAdds(ok)) /\ x.op = "restore" /\ waits' = waits \ {x}
         /\ ~(ok /\ local # 0) => pcs' = pcs
         /\ ok /\ local # 0 =>
              /\ DOMAIN pcs' = DOMAIN pcs
              /\ \A p \in DOMAIN pcs : Sends(pcs'[p], Replaced(pcs[p].aud, Len(tracks) + 1), pcs[p].vid)
<1> DEFINE n == Len(tracks)
           m == Track("mic", ~muted, local)
<1>1. TracksTyped /\ PcsTyped /\ n \in Nat /\ local \in Nat BY DEF Base, TracksTyped
<1>2. m \in TrackRow BY <1>1, MicIs
<1>3. x.op = "restore" /\ waits' = waits \ {x} /\ UNCHANGED <<chan, gen, local, muted, camera, screen, listen, sound>>
  BY DEF RestoreGets, flags
<1>4. Adds(RestoreAdds(ok)) BY <1>1, AddsFew DEF RestoreAdds
<1>5. Grown({}, RestoreAdds(ok))
  <2>1. CASE ok
    <3>1. tracks' = Append(tracks, m) /\ RestoreAdds(ok) = <<m>> BY <2>1 DEF RestoreGets, RestoreAdds
    <3> HIDE DEF m
    <3> QED BY <1>1, <1>2, <3>1, GrownOne
  <2>2. CASE ~ok
    <3>1. tracks' = tracks /\ RestoreAdds(ok) = <<>> BY <2>2 DEF RestoreGets, RestoreAdds
    <3>2. <<>> \in Seq(TrackRow) OBVIOUS
    <3> QED BY <1>1, <3>1, <3>2, GrownIs
  <2> QED BY <2>1, <2>2
<1> HIDE DEF m
<1>6. TracksTyped' /\ Len(tracks') \in Nat /\ n <= Len(tracks') BY <1>1, <1>3, <1>4, <1>5, GrowsTyped
<1>7. camera' \in BOOLEAN /\ screen' \in BOOLEAN BY <1>3 DEF Base, FlagsTyped
<1>8. CASE ok /\ local # 0
  <2>1. pcs' = WithAudio(pcs, n + 1) BY <1>8 DEF RestoreGets
  <2>2. DOMAIN pcs' = DOMAIN pcs /\ \A p \in DOMAIN pcs : Sends(pcs'[p], Replaced(pcs[p].aud, n + 1), pcs[p].vid)
    BY <1>1, <2>1, PcsHave, AudioSenders
  <2>3. n + 1 \in 0..Len(tracks')
    <3>1. Len(RestoreAdds(ok)) = 1 BY <1>8 DEF RestoreAdds
    <3>2. Len(tracks') = n + 1 BY <1>5, <3>1 DEF Grown
    <3> QED BY <1>1, <3>2
  <2>4. PcsTyped'
    <3> DEFINE t == n + 1
    <3>1. t \in 0..Len(tracks') /\ \A p \in DOMAIN pcs' : Sends(pcs'[p], Replaced(pcs[p].aud, t), pcs[p].vid)
      BY <2>2, <2>3
    <3> HIDE DEF t
    <3> QED BY <1>1, <1>6, <2>2, <3>1, CarriesLater
  <2>5. Base' BY <1>3, <1>6, <1>7, <2>4, AnswerBase DEF Devices
  <2> QED BY <1>3, <1>4, <1>5, <1>8, <2>2, <2>5
<1>9. CASE ~(ok /\ local # 0)
  <2>1. pcs' = pcs BY <1>9 DEF RestoreGets
  <2>2. PcsTyped' BY <1>1, <1>6, <2>1, PcsLater
  <2>3. Base' BY <1>3, <1>6, <1>7, <2>2, AnswerBase DEF Devices
  <2> QED BY <1>3, <1>4, <1>5, <1>9, <2>1, <2>3
<1> QED BY <1>8, <1>9

\* What a screen leaves behind: its picture's track and its sound.
Old == {FirstOf(Owned(local, Video)), sound} \ {0}

LEMMA TakenOver ==
  ASSUME PcsTyped, NEW t
  PROVE  LET g == WithoutSound(WithVideo(pcs, t))
         IN  /\ HasSenders(g) /\ DOMAIN g = DOMAIN pcs
             /\ \A p \in DOMAIN pcs : Sends(g[p], Unsounded(pcs[p].aud), Replaced(pcs[p].vid, t))
<1> DEFINE f == WithVideo(pcs, t)
           g == WithoutSound(f)
<1>1. DOMAIN f = DOMAIN pcs /\ \A p \in DOMAIN pcs : Sends(f[p], pcs[p].aud, Replaced(pcs[p].vid, t))
  BY PcsHave, VideoSenders
<1>2. HasSenders(f) BY <1>1 DEF HasSenders, Sends
<1> HIDE DEF f
<1>3. DOMAIN g = DOMAIN f /\ \A p \in DOMAIN f : Sends(g[p], Unsounded(f[p].aud), f[p].vid) BY <1>2, AudioSenders
<1> HIDE DEF g
<1>4. \A p \in DOMAIN pcs : Sends(g[p], Unsounded(pcs[p].aud), Replaced(pcs[p].vid, t)) BY <1>1, <1>3 DEF Sends
<1>5. HasSenders(g) BY <1>1, <1>3 DEF HasSenders, Sends
<1> QED BY <1>1, <1>3, <1>4, <1>5 DEF f, g

SwitchAdds(ok) == IF ok THEN <<Track("camera", TRUE, local)>> ELSE <<>>
LEMMA SwitchGetsBase ==
  ASSUME Base, NEW x \in waits, NEW ok \in BOOLEAN, SwitchGets(x, ok)
  PROVE  /\ Base' /\ Grown(IF ok /\ local # 0 THEN Old ELSE {}, SwitchAdds(ok)) /\ Adds(SwitchAdds(ok))
         /\ x.op = "switch" /\ waits' = waits \ {x}
         /\ ~(ok /\ local # 0) => pcs' = pcs
         /\ ok /\ local # 0 =>
              /\ DOMAIN pcs' = DOMAIN pcs
              /\ \A p \in DOMAIN pcs : Sends(pcs'[p], Unsounded(pcs[p].aud), Replaced(pcs[p].vid, Len(tracks) + 1))
<1> DEFINE n == Len(tracks)
           c == Track("camera", TRUE, local)
<1>1. TracksTyped /\ PcsTyped /\ n \in Nat /\ local \in Nat BY DEF Base, TracksTyped
<1>2. c \in TrackRow BY <1>1, TrackIs DEF Kinds
<1>3. x.op = "switch" /\ waits' = waits \ {x} /\ UNCHANGED <<chan, gen, local, muted, listen>>
  BY DEF SwitchGets
<1>4. Adds(SwitchAdds(ok)) BY <1>1, AddsFew DEF SwitchAdds
<1>5. Grown(IF ok /\ local # 0 THEN Old ELSE {}, SwitchAdds(ok))
  <2>1. CASE ok
    <3>1. SwitchAdds(ok) = <<c>> BY <2>1 DEF SwitchAdds
    <3>2. tracks' = Append(IF local = 0 THEN tracks ELSE Stopped(tracks, Old), c) BY <2>1 DEF SwitchGets, Old
    <3> HIDE DEF c
    <3>3. CASE local = 0 BY <1>1, <1>2, <3>1, <3>2, <3>3, GrownOne
    <3>4. CASE local # 0 BY <1>1, <1>2, <2>1, <3>1, <3>2, <3>4, GrownOne
    <3> QED BY <3>3, <3>4
  <2>2. CASE ~ok
    <3>1. tracks' = tracks /\ SwitchAdds(ok) = <<>> BY <2>2 DEF SwitchGets, SwitchAdds
    <3>2. <<>> \in Seq(TrackRow) OBVIOUS
    <3>3. Grown({}, <<>>) BY <1>1, <3>1, <3>2, GrownIs
    <3> QED BY <2>2, <3>1, <3>3
  <2> QED BY <2>1, <2>2
<1> HIDE DEF c
<1>6. sound' \in {0, sound} BY DEF SwitchGets
<1>7. TracksTyped' /\ Len(tracks') \in Nat /\ n <= Len(tracks') BY <1>1, <1>3, <1>4, <1>5, <1>6, GrowsTyped
<1>8. camera' \in BOOLEAN /\ screen' \in BOOLEAN BY DEF SwitchGets, Base, FlagsTyped
<1>9. CASE ok /\ local # 0
  <2> DEFINE g == WithoutSound(WithVideo(pcs, n + 1))
             h == ResetScales(g)
  <2>1. pcs' = Applied(h, FALSE) BY <1>9 DEF SwitchGets
  <2>2. /\ HasSenders(g) /\ DOMAIN g = DOMAIN pcs
        /\ \A p \in DOMAIN pcs : Sends(g[p], Unsounded(pcs[p].aud), Replaced(pcs[p].vid, n + 1))
    BY <1>1, TakenOver
  <2> HIDE DEF g
  <2>3. DOMAIN h = DOMAIN g /\ \A p \in DOMAIN g : Sends(h[p], g[p].aud, g[p].vid) BY <2>2, ShapedSenders
  <2>4. HasSenders(h) BY <2>3 DEF HasSenders, Sends
  <2> HIDE DEF h
  <2>5. DOMAIN pcs' = DOMAIN h /\ \A p \in DOMAIN h : Sends(pcs'[p], h[p].aud, h[p].vid) BY <2>1, <2>4, ShapedSenders
  <2>6. /\ DOMAIN pcs' = DOMAIN pcs
        /\ \A p \in DOMAIN pcs : Sends(pcs'[p], Unsounded(pcs[p].aud), Replaced(pcs[p].vid, n + 1))
    BY <2>2, <2>3, <2>5 DEF Sends
  <2>7. n + 1 \in 0..Len(tracks')
    <3>1. Len(SwitchAdds(ok)) = 1 BY <1>9 DEF SwitchAdds
    <3>2. Len(tracks') = n + 1 BY <1>5, <3>1 DEF Grown
    <3> QED BY <1>1, <3>2
  <2>8. PcsTyped'
    <3> DEFINE t == n + 1
    <3>1. t \in 0..Len(tracks') /\ \A p \in DOMAIN pcs' : Sends(pcs'[p], Unsounded(pcs[p].aud), Replaced(pcs[p].vid, t))
      BY <2>6, <2>7
    <3> HIDE DEF t
    <3> QED BY <1>1, <1>7, <2>6, <3>1, CarriesLater
  <2>9. Base' BY <1>3, <1>7, <1>8, <2>8, AnswerBase DEF Devices
  <2> QED BY <1>3, <1>4, <1>5, <1>9, <2>6, <2>9
<1>10. CASE ~(ok /\ local # 0)
  <2>1. pcs' = pcs BY <1>10 DEF SwitchGets
  <2>2. PcsTyped' BY <1>1, <1>7, <2>1, PcsLater
  <2>3. Base' BY <1>3, <1>7, <1>8, <2>2, AnswerBase DEF Devices
  <2> QED BY <1>3, <1>4, <1>5, <1>10, <2>1, <2>3
<1> QED BY <1>9, <1>10

LEMMA ShareOffBase ==
  ASSUME Base, NEW E, ShareOff(E), UNCHANGED <<chan, gen, local, muted, listen, waits>>
  PROVE  /\ Base' /\ Grown(Old \cup E, <<>>) /\ DOMAIN pcs' = DOMAIN pcs
         /\ \A p \in DOMAIN pcs : Sends(pcs'[p], Unsounded(pcs[p].aud), Replaced(pcs[p].vid, 0))
<1>1. TracksTyped /\ PcsTyped /\ Len(tracks) \in Nat BY DEF Base, TracksTyped
<1>2. Grown(Old \cup E, <<>>)
  <2>1. tracks' = Stopped(tracks, Old \cup E) BY DEF ShareOff, Old
  <2>2. <<>> \in Seq(TrackRow) OBVIOUS
  <2> QED BY <1>1, <2>1, <2>2, GrownIs
<1>3. Adds(<<>>) BY <1>1, AddsFew
<1>4. sound' = 0 /\ screen' = FALSE /\ camera' = FALSE BY DEF ShareOff
<1>5. TracksTyped' /\ Len(tracks') \in Nat /\ Len(tracks) <= Len(tracks') BY <1>1, <1>2, <1>3, <1>4, GrowsTyped
<1> DEFINE g == WithoutSound(WithVideo(pcs, 0))
<1>6. pcs' = ResetScales(g) BY DEF ShareOff
<1>7. /\ HasSenders(g) /\ DOMAIN g = DOMAIN pcs
      /\ \A p \in DOMAIN pcs : Sends(g[p], Unsounded(pcs[p].aud), Replaced(pcs[p].vid, 0))
  BY <1>1, TakenOver
<1> HIDE DEF g
<1>8. DOMAIN pcs' = DOMAIN g /\ \A p \in DOMAIN g : Sends(pcs'[p], g[p].aud, g[p].vid) BY <1>6, <1>7, ShapedSenders
<1>9. /\ DOMAIN pcs' = DOMAIN pcs
      /\ \A p \in DOMAIN pcs : Sends(pcs'[p], Unsounded(pcs[p].aud), Replaced(pcs[p].vid, 0))
  BY <1>7, <1>8 DEF Sends
<1>10. PcsTyped'
  <2>1. 0 \in 0..Len(tracks') BY <1>5
  <2> QED BY <1>1, <1>5, <1>9, <2>1, CarriesLater
<1>11. FlagsTyped' BY <1>4 DEF Base, FlagsTyped
<1>12. WaitsTyped'
  <2>1. gen \in Nat BY DEF Base, FlagsTyped
  <2> QED BY <1>1, <1>5, <2>1, WaitsLater DEF Base
<1>13. OneTone' BY TonesLater DEF Base, Waiting
<1> QED BY <1>2, <1>5, <1>9, <1>10, <1>11, <1>12, <1>13 DEF Base

\* What a click on the share button does: an end, or a question.
LEMMA ShareClickBase ==
  ASSUME Base, ShareClick
  PROVE  /\ Base' /\ Capturing /\ UNCHANGED <<chan, gen, local, muted, listen, roster>>
         /\ \/ screen /\ ShareOff({}) /\ UNCHANGED waits
            \/ /\ ~screen /\ waits' = waits \cup {Wait("display", None, FALSE)}
               /\ UNCHANGED <<tracks, pcs, screen, camera, sound, posture>>
<1>1. Capturing /\ UNCHANGED <<chan, gen, local, muted, listen, roster>> BY DEF ShareClick
<1>2. CASE screen
  <2>1. ShareOff({}) /\ UNCHANGED waits BY <1>2 DEF ShareClick
  <2> QED BY <1>1, <1>2, <2>1, ShareOffBase
<1>3. CASE ~screen
  <2> DEFINE x == Wait("display", None, FALSE)
  <2>1. waits' = waits \cup {x} /\ UNCHANGED <<tracks, pcs, screen, camera, sound, posture>> BY <1>3 DEF ShareClick
  <2>2. x.op = "display" BY DEF Wait
  <2>3. WellWait(x, gen, Len(tracks))
    BY <1>1, WellWaitNew DEF Base, Devices, Ops, Capturing
  <2> HIDE DEF x
  <2>4. TracksTyped' /\ FlagsTyped' BY <1>1, <2>1 DEF Base, TracksTyped, FlagsTyped
  <2>5. WaitsTyped' BY <1>1, <2>1, <2>3 DEF Base, WaitsTyped
  <2>6. PcsTyped' BY <2>1 DEF Base, PcsTyped
  <2>7. Waiting(Tones)' = Waiting(Tones) BY <2>1, <2>2 DEF Waiting, Tones
  <2>8. OneTone' BY <1>1, <2>7, TonesLater DEF Base
  <2>9. Base' BY <2>4, <2>5, <2>6, <2>8 DEF Base
  <2> QED BY <1>1, <1>3, <2>1, <2>9 DEF x
<1> QED BY <1>2, <1>3

LEMMA ScreenEndsBase ==
  ASSUME Base, NEW i \in DOMAIN tracks, ScreenEnds(i)
  PROVE  /\ Base' /\ UNCHANGED <<chan, gen, local, muted, listen, roster, waits>>
         /\ tracks[i].kind = "screen" /\ tracks[i].live
         /\ \/ Capturing /\ ShareOff({i})
            \/ ~Capturing /\ Grown({i}, <<>>) /\ UNCHANGED <<pcs, screen, camera, sound, posture>>
<1>1. /\ UNCHANGED <<chan, gen, local, muted, listen, roster, waits>> /\ tracks[i].kind = "screen" /\ tracks[i].live
  BY DEF ScreenEnds
<1>2. CASE Capturing
  <2>1. ShareOff({i}) BY <1>2 DEF ScreenEnds
  <2> QED BY <1>1, <1>2, <2>1, ShareOffBase
<1>3. CASE ~Capturing
  <2>1. tracks' = Stopped(tracks, {i}) /\ UNCHANGED <<pcs, screen, camera, sound, posture>> BY <1>3 DEF ScreenEnds
  <2>2. TracksTyped /\ <<>> \in Seq(TrackRow) BY DEF Base
  <2>3. Grown({i}, <<>>) BY <2>1, <2>2, GrownIs
  <2>4. TracksTyped' /\ Len(tracks') \in Nat /\ Len(tracks) <= Len(tracks')
    BY <1>1, <2>1, <2>2, <2>3, AddsFew, GrowsTyped
  <2>5. PcsTyped' BY <2>1, <2>4, PcsLater DEF Base
  <2>6. FlagsTyped' BY <1>1, <2>1 DEF Base, FlagsTyped
  <2>7. WaitsTyped'
    <3>1. gen \in Nat BY DEF Base, FlagsTyped
    <3> QED BY <1>1, <2>4, <3>1, WaitsLater DEF Base
  <2>8. OneTone' BY <1>1, TonesLater DEF Base, Waiting
  <2> QED BY <1>1, <1>3, <2>1, <2>3, <2>4, <2>5, <2>6, <2>7, <2>8 DEF Base
<1> QED BY <1>2, <1>3

DisplayAdds(got) ==
  CASE got = "cancel" -> <<>>
    [] got = "picture" -> <<Track("screen", TRUE, local)>>
    [] got = "sound" -> <<Track("screen", TRUE, local), Track("sound", TRUE, 0)>>
Shown(got) == got # "cancel" /\ local # 0
DisplayEnds(got) ==
  IF Shown(got) THEN ({FirstOf(Owned(local, Video))} \cup IF got = "sound" THEN {sound} ELSE {}) \ {0} ELSE {}

LEMMA DisplayRows ==
  ASSUME Base, NEW x \in waits, NEW got \in {"cancel", "picture", "sound"}, DisplayGets(x, got)
  PROVE  /\ Grown(DisplayEnds(got), DisplayAdds(got)) /\ Adds(DisplayAdds(got))
         /\ Len(DisplayAdds(got)) = CASE got = "cancel" -> 0 [] got = "picture" -> 1 [] got = "sound" -> 2
         /\ got # "cancel" => DisplayAdds(got)[1].kind = "screen" /\ DisplayAdds(got)[1].on = TRUE
         /\ got = "sound" => DisplayAdds(got)[2].kind = "sound"
<1> DEFINE v == Track("screen", TRUE, local)
           w == Track("sound", TRUE, 0)
           new == DisplayAdds(got)
<1>1. TracksTyped /\ local \in Nat /\ 0 \in Nat BY DEF Base, TracksTyped
<1>2. "screen" \in Kinds /\ "sound" \in Kinds BY DEF Kinds
<1>3. v.kind = "screen" /\ v.on = TRUE BY <1>1, <1>2, TrackIs
<1>4. w.kind = "sound" BY <1>1, <1>2, TrackIs
<1>5. Adds(<<>>) /\ Adds(<<v>>) /\ Adds(<<v, w>>) BY <1>1, AddsFew
<1>6. new = CASE got = "cancel" -> <<>> [] got = "picture" -> <<v>> [] got = "sound" -> <<v, w>>
  BY DEF DisplayAdds
<1>7. /\ got = "cancel" \/ local = 0 => tracks' = IF got = "cancel" THEN tracks ELSE tracks \o new
      /\ ~(got = "cancel" \/ local = 0) => tracks' = Stopped(tracks, DisplayEnds(got)) \o new
  <2>1. CASE got = "cancel" BY <2>1 DEF DisplayGets
  <2>2. CASE got = "picture" BY <2>2 DEF DisplayGets, DisplayEnds, DisplayAdds, Shown
  <2>3. CASE got = "sound" BY <2>3 DEF DisplayGets, DisplayEnds, DisplayAdds, Shown
  <2> QED BY <2>1, <2>2, <2>3
<1> HIDE DEF v, w
<1>8. /\ Adds(new) /\ new \in Seq(TrackRow)
      /\ Len(new) = CASE got = "cancel" -> 0 [] got = "picture" -> 1 [] got = "sound" -> 2
      /\ got # "cancel" => new[1] = v
      /\ got = "sound" => new[2] = w
  <2>1. CASE got = "cancel"
    <3>1. new = <<>> BY <1>6, <2>1
    <3> HIDE DEF new
    <3> QED BY <1>5, <2>1, <3>1 DEF Adds
  <2>2. CASE got = "picture"
    <3>1. new = <<v>> BY <1>6, <2>2
    <3> HIDE DEF new
    <3> QED BY <1>5, <2>2, <3>1 DEF Adds
  <2>3. CASE got = "sound"
    <3>1. new = <<v, w>> BY <1>6, <2>3
    <3> HIDE DEF new
    <3> QED BY <1>5, <2>3, <3>1 DEF Adds
  <2> QED BY <2>1, <2>2, <2>3
<1> HIDE DEF new
<1>9. Grown(DisplayEnds(got), new)
  <2>1. CASE Shown(got)
    <3>1. tracks' = Stopped(tracks, DisplayEnds(got)) \o new BY <1>7, <2>1 DEF Shown
    <3> QED BY <1>1, <1>8, <3>1, GrownIs
  <2>2. CASE ~Shown(got)
    <3>1. DisplayEnds(got) = {} BY <2>2 DEF DisplayEnds
    <3>2. CASE got = "cancel"
      <4>1. tracks' = tracks /\ new = <<>> BY <1>6, <1>7, <3>2
      <4>2. <<>> \in Seq(TrackRow) OBVIOUS
      <4> QED BY <1>1, <3>1, <4>1, <4>2, GrownIs
    <3>3. CASE got # "cancel"
      <4>1. tracks' = tracks \o new BY <1>7, <2>2, <3>3 DEF Shown
      <4> QED BY <1>1, <1>8, <3>1, <4>1, GrownIs
    <3> QED BY <3>2, <3>3
  <2> QED BY <2>1, <2>2
<1> QED BY <1>3, <1>4, <1>8, <1>9 DEF new

LEMMA DisplayGetsBase ==
  ASSUME Base, NEW x \in waits, NEW got \in {"cancel", "picture", "sound"}, DisplayGets(x, got)
  PROVE  /\ Base' /\ x.op = "display" /\ waits' = waits \ {x}
         /\ ~Shown(got) => pcs' = pcs
         /\ Shown(got) =>
              /\ DOMAIN pcs' = DOMAIN pcs
              /\ \A p \in DOMAIN pcs :
                   Sends(pcs'[p], IF got = "sound" THEN Append(Unsounded(pcs[p].aud), Len(tracks) + 2) ELSE pcs[p].aud,
                                  IF FirstOf(Owned(local, Video)) # 0 THEN Replaced(pcs[p].vid, Len(tracks) + 1)
                                                                     ELSE Attached(pcs[p].vid, Len(tracks) + 1))
<1> DEFINE n == Len(tracks)
           old == FirstOf(Owned(local, Video))
           new == DisplayAdds(got)
<1>1. TracksTyped /\ PcsTyped /\ n \in Nat BY DEF Base, TracksTyped
<1>2. /\ Grown(DisplayEnds(got), new) /\ Adds(new)
      /\ Len(new) = CASE got = "cancel" -> 0 [] got = "picture" -> 1 [] got = "sound" -> 2
      /\ got = "sound" => new[2].kind = "sound"
  BY DisplayRows
<1>3. x.op = "display" /\ waits' = waits \ {x} /\ UNCHANGED <<chan, gen, local, muted, listen>>
  BY DEF DisplayGets
<1>4. sound' \in {0, sound} \/ \E j \in 1..Len(new) : sound' = n + j /\ new[j].kind = "sound"
  <2>1. CASE Shown(got) /\ got = "sound"
    <3>1. sound' = (n + 1) + 1 BY <2>1 DEF DisplayGets, Shown
    <3>2. 2 \in 1..Len(new) /\ (n + 1) + 1 = n + 2 BY <1>1, <1>2, <2>1
    <3> HIDE DEF new
    <3> QED BY <1>2, <2>1, <3>1, <3>2
  <2>2. CASE ~(Shown(got) /\ got = "sound")
    <3>1. sound' = sound BY <2>2 DEF DisplayGets, Shown
    <3> QED BY <3>1
  <2> QED BY <2>1, <2>2
<1> HIDE DEF new
<1>5. TracksTyped' /\ Len(tracks') \in Nat /\ n <= Len(tracks') BY <1>1, <1>2, <1>3, <1>4, GrowsTyped
<1>6. camera' \in BOOLEAN /\ screen' \in BOOLEAN BY DEF DisplayGets, Base, FlagsTyped
<1>7. CASE ~Shown(got)
  <2>1. pcs' = pcs BY <1>7 DEF DisplayGets, Shown
  <2>2. PcsTyped' BY <1>1, <1>5, <2>1, PcsLater
  <2>3. Base' BY <1>3, <1>5, <1>6, <2>2, AnswerBase DEF Devices
  <2> QED BY <1>3, <1>7, <2>1, <2>3
<1>8. CASE Shown(got)
  <2> DEFINE seen == IF old # 0 THEN WithVideo(pcs, n + 1) ELSE AttachVideoToPeers(pcs, n + 1, screen)
             quiet == WithoutSound(seen)
             sounding == AttachScreenAudioToPeers(quiet, n + 2)
  <2>1. pcs' = ResetScales(IF got = "sound" THEN sounding ELSE seen)
    <3>1. pcs' = ResetScales(IF got = "sound" THEN AttachScreenAudioToPeers(quiet, (n + 1) + 1) ELSE seen)
      BY <1>8 DEF DisplayGets, Shown
    <3>2. (n + 1) + 1 = n + 2 BY <1>1
    <3> QED BY <3>1, <3>2
  <2>2. /\ DOMAIN seen = DOMAIN pcs
        /\ \A p \in DOMAIN pcs :
             Sends(seen[p], pcs[p].aud, IF old # 0 THEN Replaced(pcs[p].vid, n + 1) ELSE Attached(pcs[p].vid, n + 1))
    BY <1>1, PcsHave, VideoSenders
  <2>3. HasSenders(seen) BY <2>2 DEF HasSenders, Sends
  <2> HIDE DEF seen
  <2>4. DOMAIN quiet = DOMAIN seen /\ \A p \in DOMAIN seen : Sends(quiet[p], Unsounded(seen[p].aud), seen[p].vid)
    BY <2>3, AudioSenders
  <2>5. HasSenders(quiet) BY <2>4 DEF HasSenders, Sends
  <2> HIDE DEF quiet
  <2>6. DOMAIN sounding = DOMAIN quiet /\ \A p \in DOMAIN quiet : Sends(sounding[p], Append(quiet[p].aud, n + 2), quiet[p].vid)
    BY <2>5, AudioSenders
  <2>7. HasSenders(sounding) BY <2>6 DEF HasSenders, Sends
  <2> HIDE DEF sounding
  <2> DEFINE g == IF got = "sound" THEN sounding ELSE seen
  <2>8. /\ HasSenders(g) /\ DOMAIN g = DOMAIN pcs
        /\ \A p \in DOMAIN pcs :
             Sends(g[p], IF got = "sound" THEN Append(Unsounded(pcs[p].aud), n + 2) ELSE pcs[p].aud,
                   IF old # 0 THEN Replaced(pcs[p].vid, n + 1) ELSE Attached(pcs[p].vid, n + 1))
    BY <2>2, <2>3, <2>4, <2>6, <2>7 DEF Sends
  <2> HIDE DEF g
  <2>9. DOMAIN pcs' = DOMAIN g /\ \A p \in DOMAIN g : Sends(pcs'[p], g[p].aud, g[p].vid)
    BY <2>1, <2>8, ShapedSenders DEF g
  <2>10. /\ DOMAIN pcs' = DOMAIN pcs
         /\ \A p \in DOMAIN pcs :
              Sends(pcs'[p], IF got = "sound" THEN Append(Unsounded(pcs[p].aud), n + 2) ELSE pcs[p].aud,
                    IF old # 0 THEN Replaced(pcs[p].vid, n + 1) ELSE Attached(pcs[p].vid, n + 1))
    BY <2>8, <2>9 DEF Sends
  <2>11. PcsTyped'
    <3> DEFINE u == n + 1
               t == IF got = "sound" THEN n + 2 ELSE 0
    <3>1. Len(tracks') = n + Len(new) /\ Len(new) = IF got = "sound" THEN 2 ELSE 1
      BY <1>2, <1>8 DEF Grown, Shown
    <3>2. u \in 0..Len(tracks') /\ t \in 0..Len(tracks') BY <1>1, <3>1
    <3>3. \A p \in DOMAIN pcs' :
            Sends(pcs'[p], IF got = "sound" THEN Append(Unsounded(pcs[p].aud), t) ELSE pcs[p].aud,
                  IF old # 0 THEN Replaced(pcs[p].vid, u) ELSE Attached(pcs[p].vid, u))
      BY <2>10
    <3> HIDE DEF u, t, old
    <3>4. \A p \in DOMAIN pcs' :
           \E aud \in {pcs[p].aud, Replaced(pcs[p].aud, t), Unsounded(pcs[p].aud), Append(Unsounded(pcs[p].aud), t)},
              vid \in {pcs[p].vid, Replaced(pcs[p].vid, u), Attached(pcs[p].vid, u)} :
                Sends(pcs'[p], aud, vid)
      BY <3>3
    <3> QED BY <1>1, <1>5, <2>10, <3>2, <3>4, CarriesLater
  <2>12. Base' BY <1>3, <1>5, <1>6, <2>11, AnswerBase DEF Devices
  <2> QED BY <1>3, <1>8, <2>10, <2>12
<1> QED BY <1>7, <1>8

\* Steps that move no track and no flag.
Reshapes ==
  /\ UNCHANGED <<chan, gen, local, flags, tracks, roster, posture, waits, raced>>
  /\ DOMAIN pcs' = DOMAIN pcs /\ \A p \in DOMAIN pcs : Sends(pcs'[p], pcs[p].aud, pcs[p].vid)

LEMMA Reshapers ==
  ASSUME Base,
         MonitorStarts \/ MonitorEnds \/ \E p \in DOMAIN pcs : Negotiated(p) \/ \E r \in Reports : MonitorSample(p, r)
  PROVE  Reshapes
<1>1. HasSenders(pcs) /\ \A p \in DOMAIN pcs : Sends(pcs[p], pcs[p].aud, pcs[p].vid)
  BY PcsHave DEF Base, PcsTyped, Carries
<1>2. ASSUME NEW p \in DOMAIN pcs, NEW g, Sends(g, pcs[p].aud, pcs[p].vid), pcs' = [pcs EXCEPT ![p] = g]
      PROVE  DOMAIN pcs' = DOMAIN pcs /\ \A q \in DOMAIN pcs : Sends(pcs'[q], pcs[q].aud, pcs[q].vid)
  BY <1>1, <1>2
<1>3. CASE MonitorStarts BY <1>1, <1>3 DEF MonitorStarts, Reshapes
<1>4. CASE MonitorEnds
  <2>1. UNCHANGED <<chan, gen, local, flags, tracks, roster, posture, waits, raced>> BY <1>4 DEF MonitorEnds
  <2>2. PICK now : pcs' = pcs \/ pcs' = [p \in DOMAIN pcs |-> ApplyVideoBitrateCaps(pcs[p], Members, screen, now)]
    BY <1>4 DEF MonitorEnds
  <2>3. \A p \in DOMAIN pcs : Sends(ApplyVideoBitrateCaps(pcs[p], Members, screen, now), pcs[p].aud, pcs[p].vid)
    BY <1>1, CapsKeep DEF HasSenders
  <2> QED BY <1>1, <2>1, <2>2, <2>3 DEF Reshapes
<1>5. ASSUME NEW p \in DOMAIN pcs, Negotiated(p) PROVE Reshapes
  <2> DEFINE up == [pcs[p] EXCEPT !.ready = TRUE]
             g == ApplyVideoBitrateCaps(up, Members, screen, motion.active)
  <2>1. UNCHANGED <<chan, gen, local, flags, tracks, roster, posture, waits, raced>> BY <1>5 DEF Negotiated
  <2>2. pcs' = [pcs EXCEPT ![p] = g] BY <1>5 DEF Negotiated
  <2>3. Sends(up, pcs[p].aud, pcs[p].vid) BY <1>1 DEF Sends
  <2> HIDE DEF up
  <2>4. Sends(g, up.aud, up.vid) BY <2>3, CapsKeep DEF Sends
  <2>5. Sends(g, pcs[p].aud, pcs[p].vid) BY <2>3, <2>4 DEF Sends
  <2> HIDE DEF g
  <2> QED BY <1>2, <2>1, <2>2, <2>5 DEF Reshapes
<1>6. ASSUME NEW p \in DOMAIN pcs, NEW r \in Reports, MonitorSample(p, r) PROVE Reshapes
  <2>1. UNCHANGED <<chan, gen, local, flags, tracks, roster, posture, waits, raced>> BY <1>6 DEF MonitorSample
  <2>2. CASE pcs' = pcs BY <1>1, <2>1, <2>2 DEF Reshapes
  <2>3. CASE pcs' # pcs
    <3> DEFINE streak == IF UplinkStressed(r) THEN 0 ELSE Min({pcs[p].streak + 1, ClimbAfter})
               prev == IF pcs[p].target = 0 THEN mon.ceiling ELSE pcs[p].target
               soft == SoftCeilingFor(pcs[p].soft, mon.ceiling, prev, r, streak, screen)
               next == CongestionTarget(prev, Min({mon.ceiling, soft}), r, streak, screen)
               bad == pcs[p].stressed \/ r.linkBad
               low == Min({pcs[p].low, mon.ceiling})
               keep == next = pcs[p].target
    <3>1. pcs' = [pcs EXCEPT ![p] =
                      IF keep THEN [pcs[p] EXCEPT !.streak = streak, !.soft = soft, !.target = next, !.stressed = bad, !.low = low]
                      ELSE ApplyVideoBitrateCaps([pcs[p] EXCEPT !.streak = streak, !.soft = soft, !.target = next,
                                                               !.stressed = bad, !.low = low], Members, screen, motion.active)]
      BY <1>6, <2>3, Zenon DEF MonitorSample
    <3> HIDE DEF streak, prev, soft, next, bad, low, keep
    <3> DEFINE now == [pcs[p] EXCEPT !.streak = streak, !.soft = soft, !.target = next, !.stressed = bad, !.low = low]
               g == IF keep THEN now ELSE ApplyVideoBitrateCaps(now, Members, screen, motion.active)
    <3>2. Sends(now, pcs[p].aud, pcs[p].vid) BY <1>1 DEF Sends
    <3>3. pcs' = [pcs EXCEPT ![p] = g] BY <3>1
    <3> HIDE DEF now
    <3>4. Sends(g, pcs[p].aud, pcs[p].vid) BY <3>2, CapsKeep DEF Sends
    <3> HIDE DEF g
    <3> QED BY <1>2, <2>1, <3>3, <3>4 DEF Reshapes
  <2> QED BY <2>2, <2>3
<1> QED BY <1>3, <1>4, <1>5, <1>6

LEMMA ReshapesBase ==
  ASSUME Base, Reshapes
  PROVE  Base'
<1>1. PcsTyped' BY DEF Base, PcsTyped, Carries, Sends, Reshapes
<1> QED BY <1>1, BaseStays DEF Reshapes

LEMMA OnVoiceStateBase ==
  ASSUME Base, NEW others, OnVoiceState(others)
  PROVE  /\ Base' /\ DOMAIN pcs' = others
         /\ \A p \in others \cap DOMAIN pcs : Sends(pcs'[p], pcs[p].aud, pcs[p].vid)
         /\ \A p \in others \ DOMAIN pcs : Sends(pcs'[p], CreatePC.aud, CreatePC.vid)
<1> DEFINE open == [p \in others |-> IF p \in DOMAIN pcs THEN pcs[p] ELSE CreatePC]
<1>1. pcs' = [p \in others |-> ApplyVideoBitrateCaps(open[p], Cardinality(others) + 1, screen, motion.active)]
  BY DEF OnVoiceState
<1>2. UNCHANGED <<chan, gen, local, flags, tracks, waits>> BY DEF OnVoiceState
<1>3. TracksTyped /\ PcsTyped BY DEF Base
<1>4. \A p \in others : Carries(open[p], Len(tracks)) BY <1>3, CreatedIs DEF PcsTyped
<1> HIDE DEF open
<1>5. \A p \in others : Sends(pcs'[p], open[p].aud, open[p].vid)
  <2>1. \A p \in others : "aud" \in DOMAIN open[p] /\ "vid" \in DOMAIN open[p] BY <1>4 DEF Carries, Sends
  <2> QED BY <1>1, <2>1, CapsKeep
<1>6. DOMAIN pcs' = others BY <1>1
<1>7. PcsTyped' BY <1>2, <1>4, <1>5, <1>6 DEF PcsTyped, Carries, Sends
<1>8. \A p \in others : open[p] = IF p \in DOMAIN pcs THEN pcs[p] ELSE CreatePC BY DEF open
<1> QED BY <1>2, <1>5, <1>6, <1>7, <1>8, BaseStays

\* The senders and the flags of a state without a call, at the start.
LEMMA InitBase ==
  ASSUME MediaInit
  PROVE  Base
<1>1. tracks = <<>> /\ pcs = <<>> /\ waits = {} /\ local = 0 /\ sound = 0 /\ chan = None /\ gen = 0
  BY DEF MediaInit
<1>2. tracks \in Seq(TrackRow) /\ Len(tracks) = 0 BY <1>1
<1>3. TracksTyped BY <1>1, <1>2 DEF TracksTyped
<1>4. FlagsTyped BY DEF MediaInit, FlagsTyped
<1>5. WaitsTyped /\ PcsTyped BY <1>1 DEF WaitsTyped, PcsTyped
<1>6. OneTone BY <1>1 DEF OneTone, Waiting
<1> QED BY <1>3, <1>4, <1>5, <1>6 DEF Base

LEMMA CaptureBase ==
  ASSUME Base, Capture
  PROVE  Base'
<1>1. CASE Leave
  <2>1. HangUp(Wait("tone", None, FALSE)) BY <1>1 DEF Leave
  <2> QED BY <2>1, HangUpBase DEF Tones
<1>2. ASSUME NEW on \in BOOLEAN, SetCameraEnabled(on) PROVE Base' BY <1>2, CameraCases
<1>3. CASE CameraClick
  <2>1. SetCameraEnabled(screen \/ ~camera) BY <1>3 DEF CameraClick
  <2>2. (screen \/ ~camera) \in BOOLEAN BY Zenon
  <2> QED BY <1>2, <2>1, <2>2
<1>4. CASE VideoFull BY <1>2, <1>4 DEF VideoFull
<1>5. CASE ShareClick BY <1>5, ShareClickBase
<1>6. ASSUME MonitorStarts \/ MonitorEnds \/ \E p \in DOMAIN pcs : Negotiated(p) \/ \E r \in Reports : MonitorSample(p, r)
      PROVE  Base'
  BY <1>6, Reshapers, ReshapesBase
<1>7. ASSUME NEW c \in Chan, NEW video \in BOOLEAN, JoinVoiceChannel(c, video) PROVE Base' BY <1>7, JoinBase
<1>8. ASSUME NEW m \in BOOLEAN, SetVoiceMuted(m) PROVE Base' BY <1>8, MuteBase
<1>9. ASSUME NEW i \in DOMAIN tracks, ScreenEnds(i) PROVE Base' BY <1>9, ScreenEndsBase
<1>10. ASSUME NEW S \in SUBSET Peer, OnVoiceState(S) PROVE Base' BY <1>10, OnVoiceStateBase
<1>11. ASSUME NEW x \in waits, ToneEnds(x) PROVE Base' BY <1>11, ToneEndsBase
<1>12. ASSUME NEW x \in waits, FirstGets(x) PROVE Base' BY <1>12, FirstGetsBase
<1>13. ASSUME NEW x \in waits, FirstFails(x) PROVE Base' BY <1>13, FirstFailsBase
<1>14. ASSUME NEW x \in waits, NEW got \in {"both", "mic", "none"}, JoinGets(x, got) PROVE Base'
  BY <1>14, JoinGetsBase
<1>15. ASSUME NEW x \in waits, NEW ok \in BOOLEAN, RestoreGets(x, ok) PROVE Base' BY <1>15, RestoreGetsBase
<1>16. ASSUME NEW x \in waits, NEW ok \in BOOLEAN, SwitchGets(x, ok) PROVE Base' BY <1>16, SwitchGetsBase
<1>17. ASSUME NEW x \in waits, NEW got \in {"cancel", "picture", "sound"}, DisplayGets(x, got) PROVE Base'
  BY <1>17, DisplayGetsBase
<1> QED BY <1>1, <1>3, <1>4, <1>5, <1>6, <1>7, <1>8, <1>9, <1>10, <1>11, <1>12, <1>13, <1>14, <1>15, <1>16, <1>17
        DEF Capture

-----------------------------------------------------------------------------
(* Muted is silent.                                                        *)

LEMMA GrownOwned ==
  ASSUME TracksTyped, NEW S, NEW new, Grown(S, new), NEW K, NEW i
  PROVE  /\ i \in Owned(local, K)' <=>
              /\ local' # 0 /\ i \in 1..Len(tracks') /\ tracks'[i].in = local' /\ tracks'[i].kind \in K
              /\ (GoesOn(S, i) /\ tracks[i].in = local' /\ tracks[i].kind \in K) \/ Begins(new, i)
         /\ local' = local =>
              (i \in Owned(local, K)' <=>
                 \/ i \in Owned(local, K) \ S
                 \/ local # 0 /\ \E j \in 1..Len(new) : i = Len(tracks) + j /\ new[j].in = local /\ new[j].kind \in K)
<1>1. /\ DOMAIN tracks' = 1..Len(tracks') /\ DOMAIN tracks = 1..Len(tracks)
      /\ Len(tracks) \in Nat /\ Len(new) \in Nat /\ Len(tracks') = Len(tracks) + Len(new)
  BY DEF Grown, TracksTyped
<1>2. i \in Owned(local, K)' <=> local' # 0 /\ i \in 1..Len(tracks') /\ tracks'[i].in = local' /\ tracks'[i].kind \in K
  BY <1>1 DEF Owned
<1>3. i \in Owned(local, K) <=> local # 0 /\ i \in 1..Len(tracks) /\ tracks[i].in = local /\ tracks[i].kind \in K
  BY <1>1 DEF Owned
<1>4. i \in 1..Len(tracks') => GoesOn(S, i) \/ Ends(S, i) \/ Begins(new, i) BY GrownRow
<1>5. GoesOn(S, i) => i \in 1..Len(tracks) /\ i \in 1..Len(tracks') /\ tracks'[i] = tracks[i] /\ i \notin S
  BY <1>1 DEF GoesOn
<1>6. Ends(S, i) => tracks'[i].in = 0 /\ i \in S /\ i \in 1..Len(tracks) BY DEF Ends
<1>7. Begins(new, i) <=> \E j \in 1..Len(new) : i = Len(tracks) + j
  BY DEF Begins, Grown
<1>8. \A j \in 1..Len(new) : tracks'[Len(tracks) + j] = new[j] BY DEF Grown
<1>9. \A j \in 1..Len(new) : Len(tracks) + j \notin 1..Len(tracks) /\ Len(tracks) + j \in 1..Len(tracks') BY <1>1
<1>10. i \in 1..Len(tracks) /\ i \notin S => GoesOn(S, i) BY <1>1, <1>4, <1>6, <1>7, <1>9
<1>11. i \in Owned(local, K)' <=>
              /\ local' # 0 /\ i \in 1..Len(tracks') /\ tracks'[i].in = local' /\ tracks'[i].kind \in K
              /\ (GoesOn(S, i) /\ tracks[i].in = local' /\ tracks[i].kind \in K) \/ Begins(new, i)
  BY <1>2, <1>4, <1>5, <1>6
<1>12. ASSUME local' = local
       PROVE  i \in Owned(local, K)' <=>
                 \/ i \in Owned(local, K) \ S
                 \/ local # 0 /\ \E j \in 1..Len(new) : i = Len(tracks) + j /\ new[j].in = local /\ new[j].kind \in K
  <2>1. ASSUME i \in Owned(local, K)'
        PROVE \/ i \in Owned(local, K) \ S
              \/ local # 0 /\ \E j \in 1..Len(new) : i = Len(tracks) + j /\ new[j].in = local /\ new[j].kind \in K
    BY <1>2, <1>3, <1>5, <1>7, <1>8, <1>11, <1>12, <2>1
  <2>2. ASSUME i \in Owned(local, K) \ S PROVE i \in Owned(local, K)'
    BY <1>2, <1>3, <1>5, <1>10, <1>12, <2>2
  <2>3. ASSUME local # 0, NEW j \in 1..Len(new), i = Len(tracks) + j, new[j].in = local, new[j].kind \in K
        PROVE  i \in Owned(local, K)'
    BY <1>2, <1>8, <1>9, <1>12, <2>3
  <2> QED BY <2>1, <2>2, <2>3
<1> QED BY <1>11, <1>12

\* The microphones of the stream follow the button, and no other one is sent.
Obeys ==
  /\ DOMAIN pcs # {} => InCall
  /\ \A i \in Owned(local, {"mic"}) : tracks[i].on = ~muted
  /\ \A p \in DOMAIN pcs : \A t \in Hears(p) : tracks[t].kind = "mic" /\ tracks[t].live => t \in Owned(local, {"mic"})
Silent == Spared({"joins"}) => Obeys

LEMMA HearsIs ==
  ASSUME PcsTyped
  PROVE  \A p \in DOMAIN pcs : \A t \in Hears(p) : t \in 1..Len(tracks) /\ \E k \in DOMAIN pcs[p].aud : pcs[p].aud[k] = t
<1> SUFFICES ASSUME NEW p \in DOMAIN pcs, NEW t \in Hears(p)
             PROVE  t \in 1..Len(tracks) /\ \E k \in DOMAIN pcs[p].aud : pcs[p].aud[k] = t
  OBVIOUS
<1>1. pcs[p].aud \in Seq(0..Len(tracks)) BY DEF PcsTyped, Carries
<1>2. t # 0 /\ \E k \in DOMAIN pcs[p].aud : pcs[p].aud[k] = t BY DEF Hears, Range
<1>3. t \in 0..Len(tracks) BY <1>1, <1>2
<1> QED BY <1>2, <1>3

\* Where the lists of audio tracks come from.
LEMMA ListRanges ==
  ASSUME NEW n \in Nat, NEW s \in Seq(0..n), NEW t \in Nat
  PROVE  /\ Range(Replaced(s, t)) \subseteq Range(s) \cup {t}
         /\ Range(Unsounded(s)) \subseteq Range(s) \cup {0}
         /\ Range(Append(Unsounded(s), t)) \subseteq Range(s) \cup {0, t}
<1>1. Range(Replaced(s, t)) \subseteq Range(s) \cup {t}
  <2> DEFINE I == {i \in 1..Len(s) : s[i] # 0}
  <2>1. Replaced(s, t) = IF I = {} THEN s ELSE IF Min(I) = 0 THEN s ELSE [s EXCEPT ![Min(I)] = t]
    BY DEF Replaced, SelectInSeq, ReplaceAt
  <2> DEFINE k == Min(I)
  <2> HIDE DEF I, k
  <2>2. Replaced(s, t) = s \/ Replaced(s, t) = [s EXCEPT ![k] = t] BY <2>1 DEF k
  <2> QED BY <2>2 DEF Range
<1>2. Range(Unsounded(s)) \subseteq Range(s) \cup {0} BY DEF Range, Unsounded
<1>3. Unsounded(s) \in Seq(0..n) BY ListsTyped
<1>4. \A u \in Seq(0..n) : Range(Append(u, t)) \subseteq Range(u) \cup {t} BY DEF Range
<1> QED BY <1>1, <1>2, <1>3, <1>4

LEMMA SilentGrows ==
  ASSUME Base, Obeys, NEW S, NEW new, Grown(S, new), Adds(new), UNCHANGED <<chan, local, muted>>,
         \A j \in 1..Len(new) : new[j].kind = "mic" => new[j].on = ~muted,
         DOMAIN pcs' = DOMAIN pcs,
         \A p \in DOMAIN pcs : \A t \in Hears(p)' : t \in Hears(p) \/ (local # 0 /\ t \in (Len(tracks) + 1)..Len(tracks'))
  PROVE  Obeys'
<1>1. TracksTyped /\ PcsTyped BY DEF Base
<1>2. DOMAIN pcs' # {} => InCall' BY DEF Obeys, InCall
<1>3. ASSUME NEW i \in Owned(local, {"mic"})' PROVE tracks'[i].on = ~muted'
  <2>1. CASE i \in Owned(local, {"mic"}) \ S
    <3>1. i \in 1..Len(tracks) BY <1>1, <2>1, OwnedAre
    <3>2. tracks'[i] = tracks[i] BY <2>1, <3>1 DEF Grown
    <3>3. tracks[i].on = ~muted BY <2>1 DEF Obeys
    <3>4. muted' = muted /\ muted \in BOOLEAN BY DEF Base, FlagsTyped
    <3> QED BY <3>2, <3>3, <3>4
  <2>2. CASE \E j \in 1..Len(new) : i = Len(tracks) + j /\ new[j].kind \in {"mic"}
    <3>1. PICK j \in 1..Len(new) : i = Len(tracks) + j /\ new[j].kind \in {"mic"} BY <2>2
    <3>2. tracks'[i] = new[j] BY <3>1 DEF Grown
    <3>3. new[j].on = ~muted BY <3>1
    <3>4. muted' = muted /\ muted \in BOOLEAN BY DEF Base, FlagsTyped
    <3> QED BY <3>2, <3>3, <3>4
  <2> QED BY <1>1, <2>1, <2>2, GrownOwned
<1>4. ASSUME NEW p \in DOMAIN pcs', NEW t \in Hears(p)', tracks'[t].kind = "mic" /\ tracks'[t].live
      PROVE  t \in Owned(local, {"mic"})'
  <2>1. CASE t \in Hears(p)
    <3>1. t \in 1..Len(tracks) BY <1>1, <2>1, HearsIs
    <3>2. t \in 1..Len(tracks') /\ ~Begins(new, t) BY <1>1, <3>1 DEF Grown, Begins, TracksTyped
    <3>3. GoesOn(S, t) \/ Ends(S, t) BY <1>1, <3>2, GrownRow
    <3>4. t \notin S /\ tracks'[t] = tracks[t] BY <1>4, <3>3 DEF GoesOn, Ends
    <3>5. t \in Owned(local, {"mic"}) BY <1>4, <2>1, <3>4 DEF Obeys
    <3> QED BY <1>1, <3>4, <3>5, GrownOwned
  <2>2. CASE local # 0 /\ t \in (Len(tracks) + 1)..Len(tracks')
    <3> DEFINE j == t - Len(tracks)
    <3>1. j \in 1..Len(new) /\ t = Len(tracks) + j BY <1>1, <2>2 DEF Grown, TracksTyped
    <3>2. tracks'[t] = new[j] BY <3>1 DEF Grown
    <3> HIDE DEF j
    <3>3. new[j].kind = "mic" /\ new[j].in = local BY <1>4, <3>1, <3>2 DEF Adds
    <3> QED BY <1>1, <2>2, <3>1, <3>3, GrownOwned
  <2> QED BY <1>4, <2>1, <2>2
<1> QED BY <1>2, <1>3, <1>4 DEF Obeys

LEMMA HearsLater ==
  ASSUME Base, NEW t \in Nat, DOMAIN pcs' = DOMAIN pcs,
         \A p \in DOMAIN pcs : pcs'[p].aud \in {pcs[p].aud, Replaced(pcs[p].aud, t), Unsounded(pcs[p].aud),
                                                Append(Unsounded(pcs[p].aud), t)}
  PROVE  \A p \in DOMAIN pcs : \A u \in Hears(p)' : u \in Hears(p) \/ u = t
<1> SUFFICES ASSUME NEW p \in DOMAIN pcs, NEW u \in Hears(p)', u # t PROVE u \in Hears(p)
  OBVIOUS
<1> DEFINE n == Len(tracks)
           a == pcs[p].aud
<1>1. n \in Nat /\ a \in Seq(0..n) BY DEF Base, TracksTyped, PcsTyped, Carries
<1>2. u \in Range(pcs'[p].aud) /\ u # 0 BY DEF Hears
<1>3. pcs'[p].aud \in {a, Replaced(a, t), Unsounded(a), Append(Unsounded(a), t)} OBVIOUS
<1> HIDE DEF a, n
<1>4. u \in Range(a) BY <1>1, <1>2, <1>3, ListRanges
<1> QED BY <1>2, <1>4 DEF Hears, a

LEMMA RacedGrows ==
  ASSUME Capture
  PROVE  raced \subseteq raced'
<1>2. CASE Leave \/ CameraClick \/ VideoFull \/ ShareClick \/ MonitorStarts \/ MonitorEnds
  BY <1>2 DEF Leave, CameraClick, VideoFull, ShareClick, MonitorStarts, MonitorEnds, RacesIf, Races
<1>3. CASE \/ \E c \in Chan, video \in BOOLEAN : JoinVoiceChannel(c, video)
           \/ \E m \in BOOLEAN : SetVoiceMuted(m)
           \/ \E i \in DOMAIN tracks : ScreenEnds(i)
           \/ \E S \in SUBSET Peer : OnVoiceState(S)
           \/ \E p \in DOMAIN pcs : Negotiated(p) \/ \E r \in Reports : MonitorSample(p, r)
  BY <1>3 DEF JoinVoiceChannel, SetVoiceMuted, ScreenEnds, OnVoiceState, Negotiated, MonitorSample, RacesIf, Races
<1>4. CASE \E x \in waits :
       \/ ToneEnds(x) \/ FirstGets(x) \/ FirstFails(x)
       \/ \E got \in {"both", "mic", "none"} : JoinGets(x, got)
       \/ \E ok \in BOOLEAN : RestoreGets(x, ok) \/ SwitchGets(x, ok)
       \/ \E got \in {"cancel", "picture", "sound"} : DisplayGets(x, got)
  BY <1>4 DEF ToneEnds, FirstGets, FirstFails, JoinGets, RestoreGets, SwitchGets, DisplayGets, Races
<1> QED BY <1>2, <1>3, <1>4 DEF Capture

\* Nothing of it changes.
LEMMA ObeysStays ==
  ASSUME Base, Obeys, UNCHANGED <<local, muted, tracks>>, InCall => InCall' \/ DOMAIN pcs' = {},
         DOMAIN pcs' \subseteq DOMAIN pcs, \A p \in DOMAIN pcs' : pcs'[p].aud = pcs[p].aud
  PROVE  Obeys'
<1>1. DOMAIN pcs' # {} => InCall' BY DEF Obeys
<1>2. Owned(local, {"mic"})' = Owned(local, {"mic"}) BY DEF Owned
<1>3. \A p \in DOMAIN pcs' : Hears(p)' = Hears(p) BY DEF Hears
<1>4. \A i \in Owned(local, {"mic"})' : tracks'[i].on = ~muted'
  <2>1. muted \in BOOLEAN /\ muted' = muted /\ tracks' = tracks BY DEF Base, FlagsTyped
  <2> QED BY <1>2, <2>1 DEF Obeys
<1> QED BY <1>1, <1>2, <1>3, <1>4 DEF Obeys

LEMMA SwitchedRows ==
  ASSUME TracksTyped, NEW S, NEW on \in BOOLEAN, Switched(S, on)
  PROVE  /\ DOMAIN tracks' = 1..Len(tracks) /\ DOMAIN tracks = 1..Len(tracks)
         /\ \A i \in 1..Len(tracks) :
              /\ tracks'[i].kind = tracks[i].kind /\ tracks'[i].live = tracks[i].live /\ tracks'[i].in = tracks[i].in
              /\ tracks'[i].on = IF i \in S THEN on ELSE tracks[i].on
<1>1. \A i \in 1..Len(tracks) : tracks[i] \in TrackRow BY DEF TracksTyped
<1>2. \A r \in TrackRow : /\ [r EXCEPT !.on = on].kind = r.kind /\ [r EXCEPT !.on = on].live = r.live
                          /\ [r EXCEPT !.on = on].in = r.in /\ [r EXCEPT !.on = on].on = on
  BY DEF TrackRow
<1>3. \A i \in 1..Len(tracks) : tracks'[i] = IF i \in S THEN [tracks[i] EXCEPT !.on = on] ELSE tracks[i]
  BY DEF Switched
<1>4. DOMAIN tracks' = 1..Len(tracks) /\ DOMAIN tracks = 1..Len(tracks) BY DEF Switched, TracksTyped
<1> QED BY <1>1, <1>2, <1>3, <1>4

LEMMA SwitchedOwned ==
  ASSUME TracksTyped, NEW S, NEW on \in BOOLEAN, Switched(S, on), local' = local, NEW K
  PROVE  Owned(local, K)' = Owned(local, K) /\ Owned(local, K) \subseteq 1..Len(tracks)
<1> DEFINE M == Owned(local, K)
<1>1. \A i \in 1..Len(tracks) : i \in M' <=> i \in M BY SwitchedRows DEF Owned
<1>2. M \subseteq 1..Len(tracks) /\ M' \subseteq 1..Len(tracks) BY SwitchedRows DEF Owned
<1> QED BY <1>1, <1>2

LEMMA MuteObeys ==
  ASSUME Base, Obeys, NEW m \in BOOLEAN, SetVoiceMuted(m)
  PROVE  Obeys'
<1> DEFINE M == Owned(local, {"mic"})
           z == ~m
<1>1. Switched(M, z) /\ TracksTyped BY MuteBase DEF Base
<1>2. muted' = m /\ UNCHANGED <<local, pcs, chan>> BY DEF SetVoiceMuted, net
<1>3. z \in BOOLEAN BY Zenon
<1> HIDE DEF z
<1>4. \A i \in 1..Len(tracks) : /\ tracks'[i].kind = tracks[i].kind /\ tracks'[i].live = tracks[i].live
                                /\ i \in M => tracks'[i].on = z
  BY <1>1, <1>3, SwitchedRows
<1>5. M' = M /\ M \subseteq 1..Len(tracks) BY <1>1, <1>2, <1>3, SwitchedOwned
<1>6. \A i \in M' : tracks'[i].on = ~muted' BY <1>2, <1>4, <1>5 DEF z
<1>7. \A p \in DOMAIN pcs : Hears(p)' = Hears(p) /\ \A t \in Hears(p) : t \in 1..Len(tracks)
  BY <1>2, HearsIs DEF Hears, Base
<1>8. \A p \in DOMAIN pcs' : \A t \in Hears(p)' : tracks'[t].kind = "mic" /\ tracks'[t].live => t \in M'
  BY <1>2, <1>4, <1>5, <1>7 DEF Obeys
<1>9. DOMAIN pcs' # {} => InCall' BY <1>2 DEF Obeys, InCall
<1> QED BY <1>6, <1>8, <1>9 DEF Obeys

LEMMA CameraObeys ==
  ASSUME Base, Obeys, NEW on \in BOOLEAN, SetCameraEnabled(on)
  PROVE  Obeys'
<1>1. /\ UNCHANGED <<chan, local, muted, sound, net, pcs>> /\ TracksTyped
      /\ DOMAIN pcs' = DOMAIN pcs /\ \A p \in DOMAIN pcs : Hears(p)' = Hears(p)
  BY CameraCases DEF Base, net, Hears
<1>2. InCall' = InCall BY <1>1 DEF InCall
<1>3. CASE UNCHANGED tracks BY <1>1, <1>2, <1>3, ObeysStays
<1>4. ASSUME NEW S, Grown(S, <<>>) PROVE Obeys'
  <2>1. Adds(<<>>) BY <1>1, AddsFew
  <2>2. \A j \in 1..Len(<<>>) : FALSE OBVIOUS
  <2> QED BY <1>1, <1>4, <2>1, <2>2, SilentGrows
<1>5. CASE Switched(Owned(local, Video), on)
  <2> DEFINE V == Owned(local, Video)
             M == Owned(local, {"mic"})
  <2>1. \A i \in 1..Len(tracks) : /\ tracks'[i].kind = tracks[i].kind /\ tracks'[i].live = tracks[i].live
                                  /\ tracks'[i].on = IF i \in V THEN on ELSE tracks[i].on
    BY <1>1, <1>5, SwitchedRows
  <2>2. M' = M /\ M \subseteq 1..Len(tracks) BY <1>1, <1>5, SwitchedOwned
  <2>3. \A i \in M' : tracks'[i].on = ~muted'
    <3>1. \A i \in M : i \in 1..Len(tracks) /\ i \notin V BY <2>2 DEF Owned, Video
    <3>2. muted' = muted /\ muted \in BOOLEAN BY <1>1 DEF Base, FlagsTyped
    <3> QED BY <2>1, <2>2, <3>1, <3>2 DEF Obeys
  <2>4. \A p \in DOMAIN pcs : \A t \in Hears(p) : t \in 1..Len(tracks) BY HearsIs DEF Base
  <2>5. \A p \in DOMAIN pcs' : \A t \in Hears(p)' : tracks'[t].kind = "mic" /\ tracks'[t].live => t \in M'
    BY <1>1, <2>1, <2>2, <2>4 DEF Obeys
  <2> QED BY <1>1, <1>2, <2>3, <2>5 DEF Obeys
<1> QED BY <1>3, <1>4, <1>5, CameraCases

LEMMA ToneEndsObeys ==
  ASSUME Base, Obeys, NEW x \in waits, ToneEnds(x)
  PROVE  Obeys'
<1>1. Grown(StoppedBy(x), <<>>) /\ TracksTyped BY ToneEndsRows DEF Base
<1>2. UNCHANGED <<chan, gen, muted, pcs>> /\ local' = IF x.gen = gen THEN 0 ELSE local BY DEF ToneEnds, net
<1>3. CASE x.gen = gen
  <2>1. x \in Waiting(Tones) BY ToneEndsWaits
  <2>2. ~InCall BY <1>3, <2>1 DEF Base, OneTone
  <2>3. DOMAIN pcs' = {} BY <1>2, <2>2 DEF Obeys
  <2>4. Owned(local, {"mic"})' = {} BY <1>2, <1>3 DEF Owned
  <2> QED BY <2>3, <2>4 DEF Obeys
<1>4. CASE x.gen # gen
  <2>1. Adds(<<>>) BY <1>1, AddsFew
  <2>2. \A j \in 1..Len(<<>>) : FALSE OBVIOUS
  <2>3. DOMAIN pcs' = DOMAIN pcs /\ \A p \in DOMAIN pcs : Hears(p)' = Hears(p) BY <1>2 DEF Hears
  <2>4. UNCHANGED <<chan, local, muted>> BY <1>2, <1>4
  <2> QED BY <1>1, <2>1, <2>2, <2>3, <2>4, SilentGrows
<1> QED BY <1>3, <1>4

LEMMA JoinGetsObeys ==
  ASSUME Base, Obeys, NEW x \in waits, NEW got \in {"both", "mic", "none"}, JoinGets(x, got), ~InCall
  PROVE  Obeys'
<1> DEFINE s == Len(tracks) + 1
           new == Joined(got)
<1>a. /\ Grown({}, new) /\ TracksTyped
      /\ \A j \in 1..Len(new) :
           /\ new[j].in = s
           /\ \/ j = 1 /\ new[j].kind = "mic" /\ new[j].on = ~muted
              \/ j = 2 /\ got = "both" /\ new[j].kind = "camera" /\ new[j].on = TRUE
  BY JoinGetsRows DEF Base
<1> HIDE DEF new
<1>1. /\ Grown({}, new) /\ TracksTyped
      /\ \A j \in 1..Len(new) : new[j].in = s /\ (new[j].kind = "mic" => new[j].on = ~muted)
  BY <1>a
<1>2. local' = (IF got = "none" THEN 0 ELSE s) /\ UNCHANGED <<muted, pcs>> BY DEF JoinGets
<1>3. DOMAIN pcs' = {} BY <1>2 DEF Obeys
<1> HIDE DEF new
<1>4. ASSUME NEW i \in Owned(local, {"mic"})' PROVE tracks'[i].on = ~muted'
  <2>1. /\ local' # 0 /\ i \in 1..Len(tracks') /\ tracks'[i].in = local' /\ tracks'[i].kind = "mic"
        /\ (GoesOn({}, i) /\ tracks[i].in = local') \/ Begins(new, i)
    BY <1>1, GrownOwned
  <2>2. ~GoesOn({}, i) \/ tracks[i].in # local'
    <3>1. \A k \in 1..Len(tracks) : tracks[k].in <= Len(tracks) /\ tracks[k].in \in Nat
      <4>1. \A k \in 1..Len(tracks) : tracks[k] \in TrackRow BY <1>1 DEF TracksTyped
      <4> QED BY <1>1, <4>1 DEF TracksTyped, TrackRow
    <3>2. Len(tracks) \in Nat BY <1>1 DEF TracksTyped
    <3> QED BY <1>2, <2>1, <3>1, <3>2 DEF GoesOn
  <2>3. PICK j \in 1..Len(new) : i = Len(tracks) + j /\ tracks'[i] = new[j] BY <2>1, <2>2 DEF Begins
  <2>4. new[j].on = ~muted BY <1>1, <2>1, <2>3
  <2>5. muted' = muted /\ muted \in BOOLEAN BY <1>2 DEF Base, FlagsTyped
  <2> QED BY <2>3, <2>4, <2>5
<1> QED BY <1>3, <1>4 DEF Obeys

LEMMA OnVoiceStateObeys ==
  ASSUME Base, Obeys, NEW others, OnVoiceState(others)
  PROVE  Obeys'
<1>1. InCall /\ UNCHANGED <<chan, local, flags, tracks>> BY DEF OnVoiceState
<1>2. UNCHANGED <<muted, sound>> /\ InCall' BY <1>1 DEF flags, InCall
<1>3. Owned(local, {"mic"})' = Owned(local, {"mic"}) BY <1>1 DEF Owned
<1>4. ASSUME NEW p \in DOMAIN pcs', NEW t \in Hears(p)', tracks'[t].kind = "mic" /\ tracks'[t].live
      PROVE  t \in Owned(local, {"mic"})'
  <2>1. p \in others BY OnVoiceStateBase
  <2>2. CASE p \in DOMAIN pcs
    <3>1. pcs'[p].aud = pcs[p].aud BY <2>1, <2>2, OnVoiceStateBase DEF Sends
    <3>2. t \in Hears(p) BY <3>1 DEF Hears
    <3> QED BY <1>1, <1>3, <1>4, <2>2, <3>2 DEF Obeys
  <2>3. CASE p \notin DOMAIN pcs
    <3>1. pcs'[p].aud = CreatePC.aud BY <2>1, <2>3, OnVoiceStateBase DEF Sends
    <3>2. PICK k \in DOMAIN CreatePC.aud : CreatePC.aud[k] = t BY <3>1 DEF Hears, Range
    <3>3. t \in Owned(local, {"mic"}) \/ (t = sound /\ sound # 0) BY <3>2, CreatedIs DEF Base
    <3>4. sound # 0 => tracks[sound].kind = "sound" BY DEF Base, TracksTyped
    <3> QED BY <1>1, <1>3, <1>4, <3>3, <3>4
  <2> QED BY <2>2, <2>3
<1>5. \A i \in Owned(local, {"mic"})' : tracks'[i].on = ~muted'
  <2>1. muted' = muted /\ muted \in BOOLEAN /\ tracks' = tracks BY <1>1, <1>2 DEF Base, FlagsTyped
  <2> QED BY <1>3, <2>1 DEF Obeys
<1> QED BY <1>2, <1>4, <1>5 DEF Obeys

LEMMA AnswersObey ==
  ASSUME Base, Obeys, NEW x \in waits,
         \/ FirstGets(x)
         \/ \E ok \in BOOLEAN : RestoreGets(x, ok) \/ SwitchGets(x, ok)
         \/ \E got \in {"cancel", "picture", "sound"} : DisplayGets(x, got)
  PROVE  Obeys'
<1> DEFINE n == Len(tracks)
<1>1. TracksTyped /\ n \in Nat /\ n + 1 \in Nat /\ n + 2 \in Nat BY DEF Base, TracksTyped
<1>2. ASSUME pcs' = pcs PROVE DOMAIN pcs' = DOMAIN pcs /\ \A p \in DOMAIN pcs : Hears(p)' = Hears(p)
  BY <1>2 DEF Hears
<1>3. CASE FirstGets(x)
  <2> DEFINE new == FirstAdds
  <2>1. /\ Grown({}, new) /\ Len(new) = 2 /\ new[1].kind = "mic" /\ new[1].on = ~muted /\ new[1].live = TRUE /\ new[1].in = local
        /\ new[2].kind = "camera" /\ new[2].live = TRUE /\ new[2].in = local
        /\ local = 0 => pcs' = pcs
        /\ local # 0 =>
              /\ DOMAIN pcs' = DOMAIN pcs
              /\ \A p \in DOMAIN pcs : Sends(pcs'[p], Replaced(pcs[p].aud, n + 1), Attached(pcs[p].vid, n + 2))
    BY <1>3, FirstGetsBase
  <2> HIDE DEF new
  <2>2. \A j \in 1..Len(new) : j = 1 \/ j = 2 BY <2>1
  <2>3. Adds(new) /\ \A j \in 1..Len(new) : new[j].kind = "mic" => new[j].on = ~muted
    BY <2>1, <2>2 DEF Adds, Grown
  <2>4. DOMAIN pcs' = DOMAIN pcs /\ \A p \in DOMAIN pcs : \A t \in Hears(p)' : t \in Hears(p) \/ (local # 0 /\ t = n + 1)
    <3>1. local # 0 => \A p \in DOMAIN pcs : pcs'[p].aud = Replaced(pcs[p].aud, n + 1) BY <2>1 DEF Sends
    <3>2. local # 0 => \A p \in DOMAIN pcs : \A t \in Hears(p)' : t \in Hears(p) \/ t = n + 1
      BY <1>1, <2>1, <3>1, HearsLater
    <3> QED BY <1>2, <2>1, <3>2
  <2>5. n + 1 \in (n + 1)..Len(tracks') BY <1>1, <2>1 DEF Grown
  <2>6. UNCHANGED <<chan, local, muted>> BY <1>3 DEF FirstGets
  <2> QED BY <2>1, <2>3, <2>4, <2>5, <2>6, SilentGrows
<1>4. ASSUME NEW ok \in BOOLEAN, RestoreGets(x, ok) PROVE Obeys'
  <2> DEFINE new == RestoreAdds(ok)
  <2>1. /\ Grown({}, new) /\ Adds(new) /\ (~(ok /\ local # 0) => pcs' = pcs)
        /\ ok /\ local # 0 =>
              /\ DOMAIN pcs' = DOMAIN pcs
              /\ \A p \in DOMAIN pcs : Sends(pcs'[p], Replaced(pcs[p].aud, n + 1), pcs[p].vid)
    BY <1>4, RestoreGetsBase
  <2>2. (ok => Len(new) = 1) /\ \A j \in 1..Len(new) : new[j].kind = "mic" => new[j].on = ~muted
    <3> DEFINE m == Track("mic", ~muted, local)
    <3>1. m.on = ~muted
      <4>1. local \in Nat BY DEF Base, TracksTyped
      <4> QED BY <4>1, MicIs
    <3>2. new = IF ok THEN <<m>> ELSE <<>> BY DEF RestoreAdds
    <3> HIDE DEF m, new
    <3>3. CASE ok
      <4>1. new = <<m>> BY <3>2, <3>3
      <4>2. Len(new) = 1 /\ \A j \in 1..Len(new) : new[j] = m BY <4>1
      <4> QED BY <3>1, <4>2
    <3>4. CASE ~ok
      <4>1. new = <<>> BY <3>2, <3>4
      <4>2. \A j \in 1..Len(new) : FALSE BY <4>1
      <4> QED BY <3>4, <4>2
    <3> QED BY <3>3, <3>4
  <2> HIDE DEF new
  <2>3. /\ DOMAIN pcs' = DOMAIN pcs
        /\ \A p \in DOMAIN pcs : \A t \in Hears(p)' : t \in Hears(p) \/ (ok /\ local # 0 /\ t = n + 1)
    <3>1. ok /\ local # 0 => \A p \in DOMAIN pcs : pcs'[p].aud = Replaced(pcs[p].aud, n + 1) BY <2>1 DEF Sends
    <3>2. ok /\ local # 0 => \A p \in DOMAIN pcs : \A t \in Hears(p)' : t \in Hears(p) \/ t = n + 1
      BY <1>1, <2>1, <3>1, HearsLater
    <3> QED BY <1>2, <2>1, <3>2
  <2>4. ok => n + 1 \in (n + 1)..Len(tracks')
    <3>1. Len(tracks') = n + Len(new) BY <2>1 DEF Grown
    <3>2. ok => Len(tracks') = n + 1 BY <2>2, <3>1
    <3>3. n + 1 \in (n + 1)..(n + 1) BY <1>1
    <3> QED BY <3>2, <3>3
  <2>5. UNCHANGED <<chan, local, muted>> BY <1>4 DEF RestoreGets, flags
  <2> QED BY <2>1, <2>2, <2>3, <2>4, <2>5, SilentGrows
<1>5. ASSUME NEW ok \in BOOLEAN, SwitchGets(x, ok) PROVE Obeys'
  <2> DEFINE new == SwitchAdds(ok)
             S == IF ok /\ local # 0 THEN Old ELSE {}
  <2>1. /\ Grown(S, new) /\ Adds(new) /\ (~(ok /\ local # 0) => pcs' = pcs)
        /\ ok /\ local # 0 =>
              /\ DOMAIN pcs' = DOMAIN pcs
              /\ \A p \in DOMAIN pcs : Sends(pcs'[p], Unsounded(pcs[p].aud), Replaced(pcs[p].vid, n + 1))
    BY <1>5, SwitchGetsBase
  <2>2. \A j \in 1..Len(new) : new[j].kind = "camera"
    <3> DEFINE c == Track("camera", TRUE, local)
    <3>1. c.kind = "camera" BY DEF Track
    <3>2. new = IF ok THEN <<c>> ELSE <<>> BY DEF SwitchAdds
    <3> HIDE DEF c, new
    <3>3. CASE ok
      <4>1. new = <<c>> BY <3>2, <3>3
      <4> QED BY <3>1, <4>1
    <3>4. CASE ~ok
      <4>1. new = <<>> BY <3>2, <3>4
      <4> QED BY <4>1
    <3> QED BY <3>3, <3>4
  <2> HIDE DEF new, S
  <2>3. DOMAIN pcs' = DOMAIN pcs /\ \A p \in DOMAIN pcs : \A t \in Hears(p)' : t \in Hears(p) \/ t = 0
    <3>1. ok /\ local # 0 => \A p \in DOMAIN pcs : pcs'[p].aud = Unsounded(pcs[p].aud) BY <2>1 DEF Sends
    <3>2. ok /\ local # 0 => \A p \in DOMAIN pcs : \A t \in Hears(p)' : t \in Hears(p) \/ t = 0
      BY <1>1, <2>1, <3>1, HearsLater
    <3> QED BY <1>2, <2>1, <3>2
  <2>4. \A p \in DOMAIN pcs : \A t \in Hears(p)' : t \in Hears(p) BY <2>3 DEF Hears
  <2>5. UNCHANGED <<chan, local, muted>> BY <1>5 DEF SwitchGets
  <2> QED BY <2>1, <2>2, <2>3, <2>4, <2>5, SilentGrows
<1>6. ASSUME NEW got \in {"cancel", "picture", "sound"}, DisplayGets(x, got) PROVE Obeys'
  <2> DEFINE new == DisplayAdds(got)
             S == DisplayEnds(got)
  <2>1. /\ Grown(S, new) /\ Adds(new)
        /\ Len(new) = CASE got = "cancel" -> 0 [] got = "picture" -> 1 [] got = "sound" -> 2
        /\ (got # "cancel" => new[1].kind = "screen") /\ (got = "sound" => new[2].kind = "sound")
    BY <1>6, DisplayRows
  <2> HIDE DEF new
  <2>2. \A j \in 1..Len(new) : new[j].kind # "mic"
    <3>1. \A j \in 1..Len(new) : (j = 1 /\ got # "cancel") \/ (j = 2 /\ got = "sound") BY <2>1
    <3> QED BY <2>1, <3>1
  <2>3. /\ DOMAIN pcs' = DOMAIN pcs
        /\ \A p \in DOMAIN pcs : \A t \in Hears(p)' : t \in Hears(p) \/ (Shown(got) /\ got = "sound" /\ t = n + 2)
    <3>1. CASE ~Shown(got)
      <4>1. pcs' = pcs BY <1>6, <3>1, DisplayGetsBase
      <4> QED BY <1>2, <4>1
    <3>2. CASE Shown(got) /\ got = "sound"
      <4>1. /\ DOMAIN pcs' = DOMAIN pcs
            /\ \A p \in DOMAIN pcs : pcs'[p].aud = Append(Unsounded(pcs[p].aud), n + 2)
        BY <1>6, <3>2, DisplayGetsBase DEF Sends
      <4> QED BY <1>1, <3>2, <4>1, HearsLater
    <3>3. CASE Shown(got) /\ got # "sound"
      <4>1. /\ DOMAIN pcs' = DOMAIN pcs
            /\ \A p \in DOMAIN pcs : pcs'[p].aud = pcs[p].aud
        BY <1>6, <3>3, DisplayGetsBase DEF Sends
      <4> QED BY <4>1 DEF Hears
    <3> QED BY <3>1, <3>2, <3>3
  <2>4. got = "sound" => n + 2 \in (n + 1)..Len(tracks') BY <1>1, <2>1 DEF Grown
  <2>5. UNCHANGED <<chan, local, muted>> BY <1>6 DEF DisplayGets
  <2> HIDE DEF S
  <2> QED BY <2>1, <2>2, <2>3, <2>4, <2>5, SilentGrows DEF Shown
<1> QED BY <1>3, <1>4, <1>5, <1>6

LEMMA ShareOffObeys ==
  ASSUME Base, Obeys, NEW E, ShareOff(E), UNCHANGED <<chan, gen, local, muted, listen, waits>>
  PROVE  Obeys'
<1>1. /\ Grown(Old \cup E, <<>>) /\ DOMAIN pcs' = DOMAIN pcs
      /\ \A p \in DOMAIN pcs : pcs'[p].aud = Unsounded(pcs[p].aud)
  BY ShareOffBase DEF Sends
<1>2. 0 \in Nat /\ TracksTyped BY DEF Base
<1>3. \A p \in DOMAIN pcs : \A t \in Hears(p)' : t \in Hears(p) \/ t = 0 BY <1>1, <1>2, HearsLater
<1>4. \A p \in DOMAIN pcs : \A t \in Hears(p)' : t \in Hears(p) BY <1>3 DEF Hears
<1>5. Adds(<<>>) /\ \A j \in 1..Len(<<>>) : FALSE BY <1>2, AddsFew
<1> QED BY <1>1, <1>4, <1>5, SilentGrows

LEMMA SharesObey ==
  ASSUME Base, Obeys, ShareClick \/ \E i \in DOMAIN tracks : ScreenEnds(i)
  PROVE  Obeys'
<1>1. CASE ShareClick
  <2>1. UNCHANGED <<chan, gen, local, muted, listen>> BY <1>1, ShareClickBase
  <2>2. CASE ShareOff({}) /\ UNCHANGED waits BY <2>1, <2>2, ShareOffObeys
  <2>3. CASE UNCHANGED <<tracks, pcs>> BY <2>1, <2>3, ObeysStays DEF InCall
  <2> QED BY <1>1, <2>2, <2>3, ShareClickBase
<1>2. ASSUME NEW i \in DOMAIN tracks, ScreenEnds(i) PROVE Obeys'
  <2>1. UNCHANGED <<chan, gen, local, muted, listen, waits>> BY <1>2, ScreenEndsBase
  <2>2. CASE ShareOff({i}) BY <2>1, <2>2, ShareOffObeys
  <2>3. CASE Grown({i}, <<>>) /\ UNCHANGED pcs
    <3>1. Adds(<<>>) /\ \A j \in 1..Len(<<>>) : FALSE BY AddsFew DEF Base
    <3>2. DOMAIN pcs' = DOMAIN pcs /\ \A p \in DOMAIN pcs : Hears(p)' = Hears(p) BY <2>3 DEF Hears
    <3> QED BY <2>1, <2>3, <3>1, <3>2, SilentGrows
  <2> QED BY <1>2, <2>2, <2>3, ScreenEndsBase
<1> QED BY <1>1, <1>2

LEMMA CaptureSilent ==
  ASSUME Base, Silent, Capture
  PROVE  Silent'
<1> SUFFICES ASSUME Spared({"joins"})' PROVE Obeys'
  BY DEF Silent
<1>1. Obeys BY RacedGrows DEF Silent, Spared
<1>2. ASSUME NEW op, NEW to, NEW video, HangUp(Wait(op, to, video)) PROVE Obeys'
  <2>1. pcs' = <<>> /\ UNCHANGED <<local, flags, tracks>> BY <1>2 DEF HangUp
  <2> QED BY <1>1, <2>1, ObeysStays DEF flags
<1>3. CASE Leave BY <1>2, <1>3 DEF Leave
<1>4. ASSUME NEW on \in BOOLEAN, SetCameraEnabled(on) PROVE Obeys' BY <1>1, <1>4, CameraObeys
<1>5. CASE CameraClick
  <2>1. SetCameraEnabled(screen \/ ~camera) BY <1>5 DEF CameraClick
  <2>2. (screen \/ ~camera) \in BOOLEAN BY Zenon
  <2> QED BY <1>4, <2>1, <2>2
<1>6. CASE VideoFull BY <1>4, <1>6 DEF VideoFull
<1>7. CASE ShareClick BY <1>1, <1>7, SharesObey
<1>8. ASSUME MonitorStarts \/ MonitorEnds \/ \E p \in DOMAIN pcs : Negotiated(p) \/ \E r \in Reports : MonitorSample(p, r)
      PROVE  Obeys'
  <2>1. Reshapes BY <1>8, Reshapers
  <2> QED BY <1>1, <2>1, ObeysStays DEF Reshapes, Sends, flags, InCall
<1>9. ASSUME NEW c \in Chan, NEW video \in BOOLEAN, JoinVoiceChannel(c, video) PROVE Obeys'
  <2>1. CASE InCall BY <1>2, <1>9, <2>1 DEF JoinVoiceChannel
  <2>2. CASE ~InCall
    <3>1. UNCHANGED <<chan, local, muted, tracks, pcs>> BY <1>9, <2>2 DEF JoinVoiceChannel, net
    <3> QED BY <1>1, <3>1, ObeysStays DEF InCall
  <2> QED BY <2>1, <2>2
<1>10. ASSUME NEW m \in BOOLEAN, SetVoiceMuted(m) PROVE Obeys' BY <1>1, <1>10, MuteObeys
<1>11. ASSUME NEW i \in DOMAIN tracks, ScreenEnds(i) PROVE Obeys' BY <1>1, <1>11, SharesObey
<1>12. ASSUME NEW S \in SUBSET Peer, OnVoiceState(S) PROVE Obeys' BY <1>1, <1>12, OnVoiceStateObeys
<1>13. ASSUME NEW x \in waits, ToneEnds(x) PROVE Obeys' BY <1>1, <1>13, ToneEndsObeys
<1>14. ASSUME NEW x \in waits, FirstFails(x) PROVE Obeys'
  <2>1. UNCHANGED <<chan, local, flags, tracks, pcs>> BY <1>14, FirstFailsBase
  <2> QED BY <1>1, <2>1, ObeysStays DEF flags, InCall
<1>15. ASSUME NEW x \in waits, NEW got \in {"both", "mic", "none"}, JoinGets(x, got) PROVE Obeys'
  <2>1. ~InCall BY <1>15 DEF JoinGets, Races, Spared
  <2> QED BY <1>1, <1>15, <2>1, JoinGetsObeys
<1>16. ASSUME NEW x \in waits,
              \/ FirstGets(x)
              \/ \E ok \in BOOLEAN : RestoreGets(x, ok) \/ SwitchGets(x, ok)
              \/ \E got \in {"cancel", "picture", "sound"} : DisplayGets(x, got)
       PROVE  Obeys'
  BY <1>1, <1>16, AnswersObey
<1> QED BY <1>3, <1>5, <1>6, <1>7, <1>8, <1>9, <1>10, <1>11, <1>12, <1>13, <1>14, <1>15, <1>16 DEF Capture

-----------------------------------------------------------------------------
(* No device is left capturing.                                            *)

Ours(i) == (i = sound \/ (tracks[i].in = local /\ local # 0)) /\ (InCall \/ \E x \in Waiting(Tones) : x.gen = gen)
Doomed(i) == tracks[i].in # 0 /\ \E x \in Waiting(Tones) : x.gen # gen /\ x.stream = tracks[i].in
AllHeld == \A i \in 1..Len(tracks) : tracks[i].live => Ours(i) \/ Doomed(i)

LEMMA HeldIs ==
  ASSUME TracksTyped
  PROVE  CaptureHeld <=> (Spared({"joins", "late", "overlap", "rejoin"}) => AllHeld)
  BY DEF TracksTyped, CaptureHeld, AllHeld, Ours, Doomed, Tones

LEMMA HeldGrows ==
  ASSUME Base, AllHeld, NEW S, NEW new, Grown(S, new), Adds(new), UNCHANGED <<chan, gen, local>>,
         Waiting(Tones)' = Waiting(Tones), sound' = sound \/ sound = 0 \/ sound \in S,
         \A j \in 1..Len(new) : local # 0 /\ (new[j].kind = "sound" => sound' = Len(tracks) + j)
  PROVE  AllHeld'
<1>1. TracksTyped BY DEF Base
<1>2. InCall' = InCall BY DEF InCall
<1>3. SUFFICES ASSUME NEW i \in 1..Len(tracks'), tracks'[i].live PROVE Ours(i)' \/ Doomed(i)'
  BY DEF AllHeld
<1>4. GoesOn(S, i) \/ Ends(S, i) \/ Begins(new, i) BY <1>1, GrownRow
<1>5. CASE GoesOn(S, i)
  <2>1. i \in 1..Len(tracks) /\ i \notin S /\ tracks'[i] = tracks[i] BY <1>5 DEF GoesOn
  <2>2. Ours(i) \/ Doomed(i) BY <1>3, <2>1 DEF AllHeld
  <2>3. i = sound => i = sound' BY <2>1
  <2> QED BY <1>2, <2>1, <2>2, <2>3 DEF Ours, Doomed
<1>6. CASE Begins(new, i)
  <2>1. PICK j \in 1..Len(new) : i = Len(tracks) + j /\ tracks'[i] = new[j] BY <1>6 DEF Begins
  <2>2. InCall \/ \E x \in Waiting(Tones) : x.gen = gen BY DEF Base, OneTone
  <2>3. local # 0 /\ (new[j].kind = "sound" => sound' = i) BY <2>1
  <2>4. new[j].kind # "sound" => new[j].in = local BY DEF Adds
  <2> QED BY <1>2, <2>1, <2>2, <2>3, <2>4 DEF Ours
<1> QED BY <1>3, <1>4, <1>5, <1>6 DEF Ends

LEMMA HeldStays ==
  ASSUME Base, AllHeld, UNCHANGED <<chan, gen, local, sound, tracks>>, Waiting(Tones)' = Waiting(Tones)
  PROVE  AllHeld'
  BY DEF AllHeld, Ours, Doomed, InCall

LEMMA HeldSwitches ==
  ASSUME Base, AllHeld, UNCHANGED <<chan, gen, local, sound, waits>>, NEW S, NEW on \in BOOLEAN, Switched(S, on)
  PROVE  AllHeld'
<1>1. /\ Len(tracks') = Len(tracks)
      /\ \A i \in 1..Len(tracks) : tracks'[i].live = tracks[i].live /\ tracks'[i].in = tracks[i].in
  BY SwitchedRows DEF Base, Switched
<1> QED BY <1>1 DEF AllHeld, Ours, Doomed, InCall, Waiting

LEMMA HangUpHeld ==
  ASSUME Base, AllHeld, NEW op \in Tones, NEW to, NEW video, HangUp(Wait(op, to, video))
  PROVE  AllHeld'
<1> DEFINE x == Wait(op, to, video)
<1>1. x.op = op /\ x.gen = gen BY DEF Wait
<1> HIDE DEF x
<1>2. waits' = waits \cup {x} /\ UNCHANGED <<gen, local, sound, tracks>> BY DEF HangUp, flags, x
<1>3. x \in Waiting(Tones)' /\ Waiting(Tones) \subseteq Waiting(Tones)' BY <1>1, <1>2 DEF Waiting
<1> QED BY <1>1, <1>2, <1>3 DEF AllHeld, Ours, Doomed

LEMMA ToneEndsHeld ==
  ASSUME Base, AllHeld, NEW x \in waits, ToneEnds(x)
  PROVE  AllHeld'
<1>1. Grown(StoppedBy(x), <<>>) /\ TracksTyped BY ToneEndsRows DEF Base
<1>2. x \in Waiting(Tones) /\ Waiting(Tones)' = Waiting(Tones) \ {x} BY ToneEndsWaits
<1>3. SUFFICES ASSUME NEW i \in 1..Len(tracks'), tracks'[i].live PROVE Ours(i)' \/ Doomed(i)'
  BY DEF AllHeld
<1>4. GoesOn(StoppedBy(x), i)
  <2>1. ~Begins(<<>>, i) BY DEF Begins
  <2> QED BY <1>1, <1>3, <2>1, GrownRow DEF Ends
<1>5. i \in 1..Len(tracks) /\ i \notin StoppedBy(x) /\ tracks'[i] = tracks[i] BY <1>4 DEF GoesOn
<1>6. tracks[i].in # 0 => i \in Owned(tracks[i].in, {"mic"} \cup Video)
  <2>1. tracks[i].kind \in Kinds
    <3>1. tracks[i] \in TrackRow BY <1>1, <1>5 DEF TracksTyped
    <3> QED BY <3>1 DEF TrackRow
  <2>2. tracks[i].in # 0 => tracks[i].kind # "sound" BY <1>1, <1>5 DEF TracksTyped
  <2>3. i \in DOMAIN tracks BY <1>1, <1>5 DEF TracksTyped
  <2> QED BY <2>1, <2>2, <2>3 DEF Owned, Kinds, Video
<1>7. UNCHANGED <<chan, gen>> /\ InCall' = InCall BY DEF ToneEnds, InCall
<1>8. Ours(i) \/ Doomed(i) BY <1>3, <1>5 DEF AllHeld
<1>9. CASE Doomed(i)
  <2>1. PICK y \in Waiting(Tones) : y.gen # gen /\ y.stream = tracks[i].in /\ tracks[i].in # 0 BY <1>9 DEF Doomed
  <2>2. y # x
    <3>1. CASE x.gen = gen BY <2>1, <3>1
    <3>2. CASE x.gen # gen BY <1>5, <1>6, <2>1, <3>2 DEF StoppedBy
    <3> QED BY <3>1, <3>2
  <2> QED BY <1>2, <1>5, <1>7, <2>1, <2>2 DEF Doomed
<1>10. CASE Ours(i)
  <2>1. x.gen # gen
    <3> SUFFICES ASSUME x.gen = gen PROVE FALSE
      OBVIOUS
    <3>1. i # 0 BY <1>5
    <3> QED BY <1>5, <1>6, <1>10, <3>1 DEF Ours, StoppedBy
  <2>2. local' = local /\ sound' = sound BY <2>1 DEF ToneEnds
  <2>3. \A y \in Waiting(Tones) : y.gen = gen => y \in Waiting(Tones)' BY <1>2, <2>1
  <2> QED BY <1>5, <1>7, <1>10, <2>2, <2>3 DEF Ours
<1> QED BY <1>8, <1>9, <1>10

LEMMA JoinGetsHeld ==
  ASSUME Base, AllHeld, NEW x \in waits, NEW got \in {"both", "mic", "none"}, JoinGets(x, got), ~InCall, sound = 0
  PROVE  AllHeld'
<1> DEFINE s == Len(tracks) + 1
           new == Joined(got)
<1>1. /\ Grown({}, new) /\ TracksTyped /\ \A j \in 1..Len(new) : new[j].in = s
      /\ got = "none" => Len(new) = 0
  BY JoinGetsRows DEF Base
<1>2. /\ local' = (IF got = "none" THEN 0 ELSE s) /\ gen' = gen + 1 BY DEF JoinGets
<1>3. InCall' /\ Waiting(Tones)' = Waiting(Tones) BY JoinGetsBase
<1>4. s \in Nat /\ s # 0 /\ gen \in Nat BY <1>1 DEF TracksTyped, Base, FlagsTyped
<1> HIDE DEF new
<1>5. SUFFICES ASSUME NEW i \in 1..Len(tracks'), tracks'[i].live PROVE Ours(i)' \/ Doomed(i)'
  BY DEF AllHeld
<1>6. GoesOn({}, i) \/ Begins(new, i) BY <1>1, GrownRow DEF Ends
<1>7. CASE Begins(new, i)
  <2>1. PICK j \in 1..Len(new) : tracks'[i] = new[j] BY <1>7 DEF Begins
  <2>2. got # "none" BY <1>1, <2>1
  <2> QED BY <1>1, <1>2, <1>3, <1>4, <2>1, <2>2 DEF Ours
<1>8. CASE GoesOn({}, i)
  <2>1. i \in 1..Len(tracks) /\ tracks'[i] = tracks[i] BY <1>8 DEF GoesOn
  <2>2. Ours(i) \/ Doomed(i) BY <1>5, <2>1 DEF AllHeld
  <2>3. \A y \in Waiting(Tones) : y.gen \in 0..gen /\ y.gen # gen'
    BY <1>2, <1>4 DEF Base, WaitsTyped, WellWait, Waiting
  <2>4. Doomed(i) => Doomed(i)' BY <1>3, <2>1, <2>3 DEF Doomed
  <2>5. Ours(i) => Doomed(i)'
    <3> SUFFICES ASSUME Ours(i) PROVE Doomed(i)'
      OBVIOUS
    <3>1. tracks[i].in = local /\ local # 0 BY <2>1 DEF Ours
    <3>2. PICK y \in Waiting(Tones) : y.gen = gen BY DEF Ours
    <3>3. y.stream = local BY <3>2 DEF Base, OneTone
    <3> QED BY <1>3, <2>1, <2>3, <3>1, <3>2, <3>3 DEF Doomed
  <2> QED BY <2>2, <2>4, <2>5
<1> QED BY <1>6, <1>7, <1>8

LEMMA ShareOffHeld ==
  ASSUME Base, AllHeld, NEW E, ShareOff(E), UNCHANGED <<chan, gen, local, muted, listen, waits>>
  PROVE  AllHeld'
<1>1. Grown(Old \cup E, <<>>) BY ShareOffBase
<1>2. Adds(<<>>) /\ \A j \in 1..Len(<<>>) : FALSE BY AddsFew DEF Base
<1>3. sound = 0 \/ sound \in Old \cup E BY DEF Old
<1>4. Waiting(Tones)' = Waiting(Tones) BY DEF Waiting
<1> QED BY <1>1, <1>2, <1>3, <1>4, HeldGrows

\* An answer that the current stream asked for.
LEMMA AnswersHeld ==
  ASSUME Base, AllHeld, Spared({"late"})', NEW x \in waits,
         \/ FirstGets(x)
         \/ \E ok \in BOOLEAN : RestoreGets(x, ok) \/ SwitchGets(x, ok)
         \/ \E got \in {"cancel", "picture", "sound"} : DisplayGets(x, got)
  PROVE  AllHeld'
<1>1. TracksTyped BY DEF Base
<1>2. x.op \in Devices => x.stream # 0 BY DEF Base, WaitsTyped, WellWait
<1>3. ASSUME x.op \in Devices, Answered(x) \subseteq raced' PROVE local # 0 BY <1>2, <1>3 DEF Answered, Spared
<1>4. ASSUME x.op \in Devices, waits' = waits \ {x} PROVE Waiting(Tones)' = Waiting(Tones)
  BY <1>4 DEF Waiting, Tones, Devices
<1>5. CASE FirstGets(x)
  <2>1. x.op \in Devices /\ waits' = waits \ {x} /\ UNCHANGED <<chan, gen, local, sound>> /\ Answered(x) \subseteq raced'
    BY <1>5 DEF FirstGets, Devices, Races
  <2> DEFINE new == FirstAdds
  <2>2. /\ Grown({}, new) /\ Len(new) = 2 /\ new[1].kind = "mic" /\ new[1].live = TRUE /\ new[1].in = local
        /\ new[2].kind = "camera" /\ new[2].live = TRUE /\ new[2].in = local
    BY <1>5, FirstGetsBase
  <2> HIDE DEF new
  <2>3. \A j \in 1..Len(new) : j = 1 \/ j = 2 BY <2>2
  <2>4. Adds(new) BY <2>2, <2>3 DEF Adds, Grown
  <2>5. \A j \in 1..Len(new) : local # 0 /\ new[j].kind # "sound" BY <1>3, <2>1, <2>2, <2>3
  <2> QED BY <1>4, <2>1, <2>2, <2>4, <2>5, HeldGrows
<1>6. ASSUME NEW ok \in BOOLEAN, RestoreGets(x, ok) PROVE AllHeld'
  <2>1. x.op \in Devices /\ waits' = waits \ {x} /\ UNCHANGED <<chan, gen, local, sound>> /\ Answered(x) \subseteq raced'
    BY <1>6 DEF RestoreGets, Devices, Races, flags
  <2> DEFINE new == RestoreAdds(ok)
  <2>2. Grown({}, new) /\ Adds(new) BY <1>6, RestoreGetsBase
  <2>3. \A j \in 1..Len(new) : new[j].kind # "sound"
    <3> DEFINE m == Track("mic", ~muted, local)
    <3>1. m.kind = "mic" BY DEF Track
    <3>2. new = <<m>> \/ new = <<>> BY DEF RestoreAdds
    <3> HIDE DEF m, new
    <3>3. CASE new = <<m>> BY <3>1, <3>3
    <3>4. CASE new = <<>> BY <3>4
    <3> QED BY <3>2, <3>3, <3>4
  <2> HIDE DEF new
  <2>4. local # 0 BY <1>3, <2>1
  <2> QED BY <1>4, <2>1, <2>2, <2>3, <2>4, HeldGrows
<1>7. ASSUME NEW ok \in BOOLEAN, SwitchGets(x, ok) PROVE AllHeld'
  <2>1. x.op \in Devices /\ waits' = waits \ {x} /\ UNCHANGED <<chan, gen, local>> /\ (ok => Answered(x) \subseteq raced')
    BY <1>7 DEF SwitchGets, Devices, Races
  <2> DEFINE new == SwitchAdds(ok)
             S == IF ok /\ local # 0 THEN Old ELSE {}
  <2>2. Grown(S, new) /\ Adds(new) BY <1>7, SwitchGetsBase
  <2>3. \A j \in 1..Len(new) : ok /\ new[j].kind # "sound"
    <3> DEFINE c == Track("camera", TRUE, local)
    <3>1. c.kind = "camera" BY DEF Track
    <3>2. new = IF ok THEN <<c>> ELSE <<>> BY DEF SwitchAdds
    <3> HIDE DEF c, new
    <3>3. CASE ok
      <4>1. new = <<c>> BY <3>2, <3>3
      <4> QED BY <3>1, <3>3, <4>1
    <3>4. CASE ~ok
      <4>1. new = <<>> BY <3>2, <3>4
      <4> QED BY <4>1
    <3> QED BY <3>3, <3>4
  <2>4. sound' = sound \/ sound = 0 \/ sound \in S BY <1>7 DEF SwitchGets, Old
  <2> HIDE DEF new, S
  <2>5. ok => local # 0 BY <1>3, <2>1
  <2> QED BY <1>4, <2>1, <2>2, <2>3, <2>4, <2>5, HeldGrows
<1>8. ASSUME NEW got \in {"cancel", "picture", "sound"}, DisplayGets(x, got) PROVE AllHeld'
  <2>1. /\ x.op \in Devices /\ waits' = waits \ {x} /\ UNCHANGED <<chan, gen, local>>
        /\ got # "cancel" => Answered(x) \subseteq raced'
    BY <1>8 DEF DisplayGets, Devices, Races
  <2> DEFINE new == DisplayAdds(got)
             S == DisplayEnds(got)
  <2>2. /\ Grown(S, new) /\ Adds(new)
        /\ Len(new) = CASE got = "cancel" -> 0 [] got = "picture" -> 1 [] got = "sound" -> 2
        /\ (got # "cancel" => new[1].kind = "screen") /\ (got = "sound" => new[2].kind = "sound")
    BY <1>8, DisplayRows
  <2>3. Shown(got) \/ got = "cancel" BY <1>3, <2>1 DEF Shown
  <2>4. sound' = IF got = "sound" THEN Len(tracks) + 2 ELSE sound
    <3>1. Len(tracks) \in Nat BY <1>1 DEF TracksTyped
    <3>2. CASE got = "sound"
      <4>1. sound' = (Len(tracks) + 1) + 1 BY <1>8, <2>3, <3>2 DEF DisplayGets, Shown
      <4> QED BY <3>1, <3>2, <4>1
    <3>3. CASE got # "sound" BY <1>8, <3>3 DEF DisplayGets
    <3> QED BY <3>2, <3>3
  <2>5. got = "sound" => sound = 0 \/ sound \in S BY <2>3 DEF DisplayEnds
  <2> HIDE DEF new, S
  <2>6. \A j \in 1..Len(new) : local # 0 /\ (new[j].kind = "sound" => sound' = Len(tracks) + j)
    <3>1. \A j \in 1..Len(new) : (j = 1 /\ got # "cancel") \/ (j = 2 /\ got = "sound") BY <2>2
    <3> QED BY <2>2, <2>3, <2>4, <3>1 DEF Shown
  <2> QED BY <1>4, <2>1, <2>2, <2>4, <2>5, <2>6, HeldGrows
<1> QED BY <1>5, <1>6, <1>7, <1>8

LEMMA CaptureKeepsHeld ==
  ASSUME Base, CaptureHeld, Capture
  PROVE  CaptureHeld'
<1> DEFINE K == {"joins", "late", "overlap", "rejoin"}
<1>1. Base' /\ TracksTyped /\ TracksTyped' BY CaptureBase DEF Base
<1>2. TracksTyped' => (CaptureHeld' <=> (Spared(K)' => AllHeld')) BY HeldIs, PTL
<1> SUFFICES ASSUME Spared(K)' PROVE AllHeld'
  BY <1>1, <1>2
<1>3. AllHeld BY <1>1, RacedGrows, HeldIs DEF Spared
<1>4. ASSUME NEW op \in Tones, NEW to, NEW video, HangUp(Wait(op, to, video)) PROVE AllHeld'
  BY <1>3, <1>4, HangUpHeld
<1>5. CASE Leave BY <1>4, <1>5 DEF Leave, Tones
<1>6. ASSUME NEW on \in BOOLEAN, SetCameraEnabled(on) PROVE AllHeld'
  <2>1. UNCHANGED <<chan, gen, local, sound>> BY <1>6, CameraCases
  <2>2. ASSUME NEW op \in Devices, waits' = waits \cup {Wait(op, None, FALSE)} PROVE Waiting(Tones)' = Waiting(Tones)
    <3> DEFINE y == Wait(op, None, FALSE)
    <3>1. y.op = op BY DEF Wait
    <3> HIDE DEF y
    <3> QED BY <2>2, <3>1 DEF y, Waiting, Tones, Devices
  <2>3. CASE waits' = waits \cup {Wait("switch", None, FALSE)} /\ UNCHANGED tracks
    BY <1>3, <2>1, <2>2, <2>3, HeldStays DEF Devices
  <2>4. CASE Grown({FirstOf(Owned(local, {"mic"}))} \ {0}, <<>>) /\ waits' = waits \cup {Wait("first", None, FALSE)}
    <3>1. Adds(<<>>) /\ \A j \in 1..Len(<<>>) : FALSE BY <1>1, AddsFew
    <3>2. Waiting(Tones)' = Waiting(Tones) BY <2>2, <2>4 DEF Devices
    <3> QED BY <1>3, <2>1, <2>4, <3>1, <3>2, HeldGrows
  <2>5. CASE Switched(Owned(local, Video), on) /\ UNCHANGED waits BY <1>3, <2>1, <2>5, HeldSwitches
  <2>6. CASE UNCHANGED <<waits, tracks>> BY <1>3, <2>1, <2>6, HeldStays DEF Waiting
  <2> QED BY <1>6, <2>3, <2>4, <2>5, <2>6, CameraCases
<1>7. CASE CameraClick
  <2>1. SetCameraEnabled(screen \/ ~camera) BY <1>7 DEF CameraClick
  <2>2. (screen \/ ~camera) \in BOOLEAN BY Zenon
  <2> QED BY <1>6, <2>1, <2>2
<1>8. CASE VideoFull BY <1>6, <1>8 DEF VideoFull
<1>9. CASE ShareClick
  <2>1. UNCHANGED <<chan, gen, local, muted, listen>> BY <1>9, ShareClickBase
  <2>2. CASE ShareOff({}) /\ UNCHANGED waits BY <1>3, <2>1, <2>2, ShareOffHeld
  <2>3. CASE waits' = waits \cup {Wait("display", None, FALSE)} /\ UNCHANGED <<tracks, sound>>
    <3> DEFINE y == Wait("display", None, FALSE)
    <3>1. y.op = "display" BY DEF Wait
    <3> HIDE DEF y
    <3>2. Waiting(Tones)' = Waiting(Tones) BY <2>3, <3>1 DEF y, Waiting, Tones
    <3> QED BY <1>3, <2>1, <2>3, <3>2, HeldStays
  <2> QED BY <1>9, <2>2, <2>3, ShareClickBase
<1>10. ASSUME MonitorStarts \/ MonitorEnds \/ \E p \in DOMAIN pcs : Negotiated(p) \/ \E r \in Reports : MonitorSample(p, r)
       PROVE  AllHeld'
  <2>1. Reshapes BY <1>10, Reshapers
  <2> QED BY <1>3, <2>1, HeldStays DEF Reshapes, flags, Waiting
<1>11. ASSUME NEW c \in Chan, NEW video \in BOOLEAN, JoinVoiceChannel(c, video) PROVE AllHeld'
  <2>1. CASE InCall BY <1>4, <1>11, <2>1 DEF JoinVoiceChannel, Tones
  <2>2. CASE ~InCall
    <3> DEFINE y == Wait("join", c, video)
    <3>1. y.op = "join" BY DEF Wait
    <3> HIDE DEF y
    <3>2. UNCHANGED <<chan, gen, local, sound, tracks>> /\ waits' = waits \cup {y}
      BY <1>11, <2>2 DEF JoinVoiceChannel, y
    <3>3. Waiting(Tones)' = Waiting(Tones) BY <3>1, <3>2 DEF Waiting, Tones
    <3> QED BY <1>3, <3>2, <3>3, HeldStays
  <2> QED BY <2>1, <2>2
<1>12. ASSUME NEW m \in BOOLEAN, SetVoiceMuted(m) PROVE AllHeld'
  <2> DEFINE z == ~m
  <2>1. z \in BOOLEAN BY Zenon
  <2>2. Switched(Owned(local, {"mic"}), z) BY <1>12, MuteBase
  <2>3. UNCHANGED <<chan, gen, local, sound, waits>> BY <1>12 DEF SetVoiceMuted
  <2> HIDE DEF z
  <2> QED BY <1>3, <2>1, <2>2, <2>3, HeldSwitches
<1>13. ASSUME NEW i \in DOMAIN tracks, ScreenEnds(i) PROVE AllHeld'
  <2>1. UNCHANGED <<chan, gen, local, muted, listen, waits>> BY <1>13, ScreenEndsBase
  <2>2. CASE ShareOff({i}) BY <1>3, <2>1, <2>2, ShareOffHeld
  <2>3. CASE Grown({i}, <<>>) /\ UNCHANGED sound
    <3>1. Adds(<<>>) /\ \A j \in 1..Len(<<>>) : FALSE BY <1>1, AddsFew
    <3>2. Waiting(Tones)' = Waiting(Tones) BY <2>1 DEF Waiting
    <3> QED BY <1>3, <2>1, <2>3, <3>1, <3>2, HeldGrows
  <2> QED BY <1>13, <2>2, <2>3, ScreenEndsBase
<1>14. ASSUME NEW S \in SUBSET Peer, OnVoiceState(S) PROVE AllHeld'
  <2>1. UNCHANGED <<chan, gen, local, flags, tracks, waits>> BY <1>14 DEF OnVoiceState
  <2> QED BY <1>3, <2>1, HeldStays DEF flags, Waiting
<1>15. ASSUME NEW x \in waits, ToneEnds(x) PROVE AllHeld' BY <1>3, <1>15, ToneEndsHeld
<1>16. ASSUME NEW x \in waits, FirstFails(x) PROVE AllHeld'
  <2>1. UNCHANGED <<chan, gen, local, flags, tracks>> /\ Waiting(Tones)' = Waiting(Tones) BY <1>16, FirstFailsBase
  <2> QED BY <1>3, <2>1, HeldStays DEF flags
<1>17. ASSUME NEW x \in waits, NEW got \in {"both", "mic", "none"}, JoinGets(x, got) PROVE AllHeld'
  <2>1. ~InCall /\ sound = 0 BY <1>17 DEF JoinGets, Races, Spared
  <2> QED BY <1>3, <1>17, <2>1, JoinGetsHeld
<1>18. ASSUME NEW x \in waits,
              \/ FirstGets(x)
              \/ \E ok \in BOOLEAN : RestoreGets(x, ok) \/ SwitchGets(x, ok)
              \/ \E got \in {"cancel", "picture", "sound"} : DisplayGets(x, got)
       PROVE  AllHeld'
  <2>1. Spared({"late"})' BY DEF Spared
  <2> QED BY <1>3, <1>18, <2>1, AnswersHeld
<1> QED BY <1>5, <1>7, <1>8, <1>9, <1>10, <1>11, <1>12, <1>13, <1>14, <1>15, <1>16, <1>17, <1>18 DEF Capture

-----------------------------------------------------------------------------
(* What the stream holds: its microphones, its pictures, and the screens    *)
(* among those.                                                             *)

Mics == Owned(local, {"mic"})
Views == Owned(local, Video)
Screens == Owned(local, {"screen"})

LEMMA StreamOf ==
  ASSUME TracksTyped
  PROVE  /\ Mics \subseteq 1..Len(tracks) /\ Views \subseteq 1..Len(tracks) /\ Screens \subseteq Views
         /\ \A i \in Mics : tracks[i].kind = "mic" /\ tracks[i].live = TRUE
         /\ \A i \in Views : tracks[i].kind \in Video /\ tracks[i].live = TRUE
         /\ local = 0 => Mics = {} /\ Views = {}
         /\ sound # 0 => tracks[sound].kind = "sound" /\ sound \in 1..Len(tracks)
         /\ Len(tracks) \in Nat /\ local \in Nat /\ sound \in Nat
<1>1. DOMAIN tracks = 1..Len(tracks) /\ Len(tracks) \in Nat BY DEF TracksTyped
<1>2. \A i \in 1..Len(tracks) : tracks[i] \in TrackRow /\ (tracks[i].in # 0 => tracks[i].live) BY DEF TracksTyped
<1>3. \A i \in 1..Len(tracks) : tracks[i].live \in BOOLEAN BY <1>2 DEF TrackRow
<1> QED BY <1>1, <1>2, <1>3 DEF TracksTyped, Mics, Views, Screens, Owned, Video

LEMMA MicsApart ==
  ASSUME TracksTyped, NEW i \in Mics
  PROVE  i \notin Views /\ i # sound /\ tracks[i].kind = "mic"
<1>1. i \in 1..Len(tracks) /\ tracks[i].kind = "mic" BY StreamOf
<1>2. i \in Views => tracks[i].kind \in Video BY StreamOf
<1>3. i = sound => tracks[i].kind = "sound"
  <2>1. Len(tracks) \in Nat /\ (sound # 0 => tracks[sound].kind = "sound") BY StreamOf
  <2> QED BY <1>1, <2>1
<1> QED BY <1>1, <1>2, <1>3 DEF Video

\* Rows keep their kind, and while they are the stream's their switch.
LEMMA GrownKeeps ==
  ASSUME TracksTyped, NEW S, NEW new, Grown(S, new)
  PROVE  \A i \in 1..Len(tracks) : tracks'[i].kind = tracks[i].kind /\ tracks'[i].on = tracks[i].on
<1>1. \A i \in 1..Len(tracks) : tracks[i] \in TrackRow BY DEF TracksTyped
<1> QED BY <1>1, EndedRow DEF Grown

Among(new, K) == {k \in 1..Len(new) : new[k].in = local /\ new[k].kind \in K}
Later(S) == {Len(tracks) + j : j \in S}

LEMMA StreamGrows ==
  ASSUME TracksTyped, NEW S, NEW new, Grown(S, new), local' = local, local # 0
  PROVE  /\ Mics' = (Mics \ S) \cup Later(Among(new, {"mic"}))
         /\ Views' = (Views \ S) \cup Later(Among(new, Video))
         /\ Screens' = (Screens \ S) \cup Later(Among(new, {"screen"}))
<1>1. ASSUME NEW K, NEW i
      PROVE  i \in Owned(local, K)' <=> i \in (Owned(local, K) \ S) \cup Later(Among(new, K))
  <2>1. i \in Later(Among(new, K)) <=> \E j \in 1..Len(new) : i = Len(tracks) + j /\ new[j].in = local /\ new[j].kind \in K
    BY DEF Later, Among
  <2>2. i \in Owned(local, K)' <=>
          \/ i \in Owned(local, K) \ S
          \/ local # 0 /\ \E j \in 1..Len(new) : i = Len(tracks) + j /\ new[j].in = local /\ new[j].kind \in K
    BY GrownOwned
  <2> QED BY <2>1, <2>2
<1>2. ASSUME NEW K PROVE Owned(local, K)' = (Owned(local, K) \ S) \cup Later(Among(new, K)) BY <1>1
<1>3. Mics' = (Mics \ S) \cup Later(Among(new, {"mic"})) BY <1>2 DEF Mics
<1>4. Views' = (Views \ S) \cup Later(Among(new, Video)) BY <1>2 DEF Views
<1>5. Screens' = (Screens \ S) \cup Later(Among(new, {"screen"})) BY <1>2 DEF Screens
<1> QED BY <1>3, <1>4, <1>5

\* The picture of a stream that has one at most is the first.
Single(S) == \A i, j \in S : i = j

LEMMA OneFirst ==
  ASSUME NEW S \in SUBSET (Nat \ {0}), Single(S)
  PROVE  S = {FirstOf(S)} \ {0} /\ (S = {} <=> FirstOf(S) = 0)
<1>1. CASE S = {} BY <1>1, FirstOfFew
<1>2. CASE S # {}
  <2>1. PICK v \in S : S = {v} BY <1>2 DEF Single
  <2>2. FirstOf(S) = v BY <2>1, FirstOfFew
  <2> QED BY <2>1, <2>2
<1> QED BY <1>1, <1>2

\* What the devices' answers do to the stream they were asked for.
LEMMA FirstGetsStream ==
  ASSUME Base, NEW x \in waits, FirstGets(x), local # 0
  PROVE  /\ Mics' = Mics \cup {Len(tracks) + 1} /\ Views' = Views \cup {Len(tracks) + 2} /\ Screens' = Screens
         /\ tracks'[Len(tracks) + 2].on = TRUE /\ tracks'[Len(tracks) + 1].kind = "mic" /\ Len(tracks') = Len(tracks) + 2
<1>1. TracksTyped /\ local' = local BY DEF Base, FirstGets
<1> DEFINE new == FirstAdds
<1>2. /\ Grown({}, new) /\ Len(new) = 2
      /\ new[1].kind = "mic" /\ new[1].in = local
      /\ new[2].kind = "camera" /\ new[2].on = TRUE /\ new[2].in = local
  BY FirstGetsBase
<1> HIDE DEF new
<1>3. /\ Mics' = (Mics \ {}) \cup Later(Among(new, {"mic"}))
      /\ Views' = (Views \ {}) \cup Later(Among(new, Video))
      /\ Screens' = (Screens \ {}) \cup Later(Among(new, {"screen"}))
  BY <1>1, <1>2, StreamGrows
<1>4. /\ Among(new, {"mic"}) = {1}
      /\ Among(new, Video) = {2}
      /\ Among(new, {"screen"}) = {}
  BY <1>2 DEF Among, Video
<1>5. Mics' = Mics \cup {Len(tracks) + 1} /\ Views' = Views \cup {Len(tracks) + 2} /\ Screens' = Screens
  BY <1>3, <1>4 DEF Later
<1>6. tracks'[Len(tracks) + 2] = new[2] /\ tracks'[Len(tracks) + 1] = new[1] /\ Len(tracks') = Len(tracks) + 2
  BY <1>2 DEF Grown
<1> QED BY <1>2, <1>5, <1>6

LEMMA RestoreGetsStream ==
  ASSUME Base, NEW x \in waits, RestoreGets(x, TRUE), local # 0
  PROVE  /\ Mics' = Mics \cup {Len(tracks) + 1} /\ Views' = Views /\ Screens' = Screens
         /\ tracks'[Len(tracks) + 1].kind = "mic" /\ Len(tracks') = Len(tracks) + 1
<1>1. TracksTyped /\ local' = local BY DEF Base, RestoreGets
<1> DEFINE new == RestoreAdds(TRUE)
<1>2. Grown({}, new) BY RestoreGetsBase
<1>3. Len(new) = 1 /\ new[1].kind = "mic" /\ new[1].in = local
  <2> DEFINE m == Track("mic", ~muted, local)
  <2>1. m.kind = "mic" /\ m.in = local BY DEF Track
  <2>2. new = <<m>> BY DEF RestoreAdds
  <2> HIDE DEF m, new
  <2> QED BY <2>1, <2>2
<1> HIDE DEF new
<1>4. /\ Mics' = (Mics \ {}) \cup Later(Among(new, {"mic"}))
      /\ Views' = (Views \ {}) \cup Later(Among(new, Video))
      /\ Screens' = (Screens \ {}) \cup Later(Among(new, {"screen"}))
  BY <1>1, <1>2, StreamGrows
<1>5. /\ Among(new, {"mic"}) = {1}
      /\ Among(new, Video) = {}
      /\ Among(new, {"screen"}) = {}
  BY <1>3 DEF Among, Video
<1>6. Mics' = Mics \cup {Len(tracks) + 1} /\ Views' = Views /\ Screens' = Screens BY <1>4, <1>5 DEF Later
<1>7. tracks'[Len(tracks) + 1] = new[1] /\ Len(tracks') = Len(tracks) + 1 BY <1>2, <1>3 DEF Grown
<1> QED BY <1>3, <1>6, <1>7

LEMMA SwitchGetsStream ==
  ASSUME Base, NEW x \in waits, SwitchGets(x, TRUE), local # 0, Single(Views)
  PROVE  /\ Mics' = Mics /\ Views' = {Len(tracks) + 1} /\ Screens' = {}
         /\ tracks'[Len(tracks) + 1].on = TRUE /\ Len(tracks') = Len(tracks) + 1
<1>1. TracksTyped /\ local' = local BY DEF Base, SwitchGets
<1> DEFINE new == SwitchAdds(TRUE)
<1> DEFINE S == Old
<1>2. Grown(S, new) BY SwitchGetsBase
<1>3. Len(new) = 1 /\ new[1].kind = "camera" /\ new[1].in = local /\ new[1].on = TRUE
  <2> DEFINE m == Track("camera", TRUE, local)
  <2>1. m.kind = "camera" /\ m.in = local /\ m.on = TRUE BY DEF Track
  <2>2. new = <<m>> BY DEF SwitchAdds
  <2> HIDE DEF m, new
  <2> QED BY <2>1, <2>2
<1> HIDE DEF new, S
<1>4. /\ Mics' = (Mics \ S) \cup Later(Among(new, {"mic"}))
      /\ Views' = (Views \ S) \cup Later(Among(new, Video))
      /\ Screens' = (Screens \ S) \cup Later(Among(new, {"screen"}))
  BY <1>1, <1>2, StreamGrows
<1>5. /\ Among(new, {"mic"}) = {}
      /\ Among(new, Video) = {1}
      /\ Among(new, {"screen"}) = {}
  BY <1>3 DEF Among, Video
<1>6. Mics \ S = Mics /\ Views \ S = {} /\ Screens \ S = {}
  <2>a. Views \in SUBSET (Nat \ {0}) BY <1>1, StreamOf
  <2>1. Views = {FirstOf(Views)} \ {0} BY <2>a, OneFirst
  <2>2. \A i \in Mics : i \notin Views /\ i # sound BY <1>1, MicsApart
  <2>3. S = {FirstOf(Views), sound} \ {0} BY DEF Old, Views, S
  <2>4. 0 \notin Views /\ Screens \subseteq Views /\ 0 \notin Mics BY <1>1, StreamOf
  <2> QED BY <2>1, <2>2, <2>3, <2>4
<1>7. Mics' = Mics /\ Views' = {Len(tracks) + 1} /\ Screens' = {} BY <1>4, <1>5, <1>6 DEF Later
<1>8. tracks'[Len(tracks) + 1] = new[1] /\ Len(tracks') = Len(tracks) + 1 BY <1>2, <1>3 DEF Grown
<1> QED BY <1>3, <1>7, <1>8

LEMMA ShareOffStream ==
  ASSUME Base, NEW E, ShareOff(E), UNCHANGED <<chan, gen, local, muted, listen, waits>>, local # 0, Single(Views),
         \A i \in E : i \in 1..Len(tracks) /\ tracks[i].kind = "screen"
  PROVE  Mics' = Mics /\ Views' = {} /\ Screens' = {} /\ Len(tracks') = Len(tracks)
<1>1. TracksTyped BY DEF Base
<1>2. Grown(Old \cup E, <<>>) BY ShareOffBase
<1>3. /\ Mics' = (Mics \ (Old \cup E)) \cup Later(Among(<<>>, {"mic"}))
      /\ Views' = (Views \ (Old \cup E)) \cup Later(Among(<<>>, Video))
      /\ Screens' = (Screens \ (Old \cup E)) \cup Later(Among(<<>>, {"screen"}))
  BY <1>1, <1>2, StreamGrows
<1>4. 1..Len(<<>>) = {} OBVIOUS
<1>5. Mics \ (Old \cup E) = Mics /\ Views \ (Old \cup E) = {} /\ Screens \ (Old \cup E) = {}
  <2>a. Views \in SUBSET (Nat \ {0}) BY <1>1, StreamOf
  <2>1. Views = {FirstOf(Views)} \ {0} BY <2>a, OneFirst
  <2>2. \A i \in Mics : i \notin Views /\ i # sound /\ tracks[i].kind = "mic" BY <1>1, MicsApart
  <2>5. \A i \in Mics : i \notin E BY <2>2
  <2>3. Old = {FirstOf(Views), sound} \ {0} BY DEF Old, Views
  <2>4. 0 \notin Views /\ Screens \subseteq Views /\ 0 \notin Mics BY <1>1, StreamOf
  <2> QED BY <2>1, <2>2, <2>3, <2>4, <2>5
<1>6. Len(tracks') = Len(tracks) BY <1>1, <1>2 DEF Grown, TracksTyped
<1> QED BY <1>3, <1>4, <1>5, <1>6 DEF Among, Later

LEMMA DisplayGetsStream ==
  ASSUME Base, NEW x \in waits, NEW got \in {"picture", "sound"}, DisplayGets(x, got), local # 0, Single(Views)
  PROVE  /\ Mics' = Mics /\ Views' = {Len(tracks) + 1} /\ Screens' = {Len(tracks) + 1}
         /\ tracks'[Len(tracks) + 1].on = TRUE /\ Len(tracks) < Len(tracks') /\ Len(tracks') \in Nat
<1>1. TracksTyped /\ local' = local BY DEF Base, DisplayGets
<1> DEFINE new == DisplayAdds(got)
           S == DisplayEnds(got)
<1>2. /\ Grown(S, new) /\ Adds(new) /\ Len(new) = (IF got = "picture" THEN 1 ELSE 2)
      /\ new[1].kind = "screen" /\ new[1].on = TRUE /\ (got = "sound" => new[2].kind = "sound")
  BY DisplayRows
<1>3. S = ({FirstOf(Views)} \cup IF got = "sound" THEN {sound} ELSE {}) \ {0} BY DEF DisplayEnds, Shown, Views
<1> HIDE DEF new, S
<1>4. /\ Mics' = (Mics \ S) \cup Later(Among(new, {"mic"}))
      /\ Views' = (Views \ S) \cup Later(Among(new, Video))
      /\ Screens' = (Screens \ S) \cup Later(Among(new, {"screen"}))
  BY <1>1, <1>2, StreamGrows
<1>5. /\ Among(new, {"mic"}) = {}
      /\ Among(new, Video) = {1}
      /\ Among(new, {"screen"}) = {1}
  <2>1. \A k \in 1..Len(new) : k = 1 \/ (k = 2 /\ got = "sound") BY <1>2
  <2>2. 1 \in 1..Len(new) /\ new[1].in = local BY <1>2 DEF Adds
  <2>3. \A k \in 1..Len(new) : k = 1 \/ new[k].kind = "sound" BY <1>2, <2>1
  <2> QED BY <1>2, <2>2, <2>3 DEF Among, Video
<1>6. Mics \ S = Mics /\ Views \ S = {} /\ Screens \ S = {}
  <2>a. Views \in SUBSET (Nat \ {0}) BY <1>1, StreamOf
  <2>1. Views = {FirstOf(Views)} \ {0} BY <2>a, OneFirst
  <2>2. \A i \in Mics : i \notin Views /\ i # sound BY <1>1, MicsApart
  <2>4. 0 \notin Views /\ Screens \subseteq Views /\ 0 \notin Mics BY <1>1, StreamOf
  <2> QED BY <1>3, <2>1, <2>2, <2>4
<1>7. Mics' = Mics /\ Views' = {Len(tracks) + 1} /\ Screens' = {Len(tracks) + 1} BY <1>4, <1>5, <1>6 DEF Later
<1>8. tracks'[Len(tracks) + 1] = new[1] /\ Len(tracks) < Len(tracks') /\ Len(tracks') \in Nat
  BY <1>1, <1>2 DEF Grown, TracksTyped
<1> QED BY <1>2, <1>7, <1>8

-----------------------------------------------------------------------------
(* What the peers are sent.                                                 *)

\* One device is awaited at a time. The stream has one microphone and one picture
\* at most; it lacks the microphone while both are asked for anew and only then.
Awaits(ops) == {x \in Waiting(ops) : x.stream = local}
Entire ==
  /\ Single(Waiting(Devices))
  /\ Capturing =>
       /\ Single(Mics) /\ Single(Views) /\ (screen => Views # {})
       /\ Mics = {} => Awaits({"first", "restore"}) # {}
       /\ Awaits({"first", "restore"}) # {} => Mics = {} /\ Views = {}
       /\ Awaits({"switch"}) # {} => screen
Whole == Spared({"joins", "rejoin", "late", "overlap", "deaf"}) => Entire

LEMMA StreamStays ==
  ASSUME UNCHANGED <<local, tracks>>
  PROVE  Mics' = Mics /\ Views' = Views /\ Screens' = Screens
  BY DEF Mics, Views, Screens, Owned

LEMMA EntireStays ==
  ASSUME Entire, UNCHANGED local, screen' = screen, Mics' = Mics, Views' = Views, Capturing' => Capturing,
         Waiting(Devices)' = Waiting(Devices)
  PROVE  Entire'
<1>1. ASSUME NEW ops \in SUBSET Devices PROVE Awaits(ops)' = Awaits(ops)
  <2>1. Awaits(ops) = {x \in Waiting(Devices) : x.op \in ops /\ x.stream = local} BY DEF Awaits, Waiting
  <2>2. Awaits(ops)' = {x \in Waiting(Devices)' : x.op \in ops /\ x.stream = local'} BY DEF Awaits, Waiting
  <2> QED BY <2>1, <2>2
<1>2. Awaits({"first", "restore"})' = Awaits({"first", "restore"}) /\ Awaits({"switch"})' = Awaits({"switch"})
  BY <1>1 DEF Devices
<1> QED BY <1>2 DEF Entire, Single

\* The one device answers.
LEMMA EntireAnswered ==
  ASSUME Entire, NEW x \in waits, x.op \in Devices, waits' = waits \ {x}
  PROVE  /\ Waiting(Devices) = {x} /\ Waiting(Devices)' = {}
         /\ (Capturing' => Single(Mics') /\ Single(Views') /\ (screen' => Views' # {}) /\ Mics' # {}) => Entire'
<1>1. x \in Waiting(Devices) BY DEF Waiting
<1>2. Waiting(Devices) = {x} BY <1>1 DEF Entire, Single
<1>3. Waiting(Devices)' = {} BY <1>2 DEF Waiting
<1>4. Awaits({"first", "restore"})' = {} /\ Awaits({"switch"})' = {} BY <1>3 DEF Awaits, Waiting, Devices
<1> QED BY <1>2, <1>3, <1>4 DEF Entire, Single

LEMMA ToneEndsStream ==
  ASSUME Base, NEW x \in waits, ToneEnds(x), InCall
  PROVE  /\ x.gen # gen /\ UNCHANGED <<chan, local, sound>> /\ screen' = screen
         /\ Mics' = Mics /\ Views' = Views /\ Screens' = Screens
<1>1. x \in Waiting(Tones) BY ToneEndsWaits
<1>2. x.gen # gen /\ (local # 0 => x.stream # local) BY <1>1 DEF Base, OneTone
<1>3. UNCHANGED <<chan, local, sound>> /\ screen' = screen
  <2>1. screen \in BOOLEAN /\ screen' = (screen /\ ~(x.gen = gen)) BY DEF ToneEnds, Base, FlagsTyped
  <2>2. screen' = screen BY <1>2, <2>1
  <2>3. chan' = chan /\ local' = (IF x.gen = gen THEN 0 ELSE local) /\ sound' = (IF x.gen = gen THEN 0 ELSE sound)
    BY DEF ToneEnds
  <2> QED BY <1>2, <2>2, <2>3
<1>4. CASE local = 0 BY <1>2, <1>3, <1>4 DEF Mics, Views, Screens, Owned
<1>5. CASE local # 0
  <2> DEFINE S == StoppedBy(x)
             new == <<>>
  <2>1. Grown(S, new) /\ TracksTyped BY ToneEndsRows DEF Base
  <2>2. S = Owned(x.stream, {"mic"} \cup Video) BY <1>2 DEF StoppedBy
  <2>3. \A i \in S : i \notin Mics /\ i \notin Views /\ i \notin Screens
    BY <1>2, <1>5, <2>2 DEF Mics, Views, Screens, Owned
  <2>4. Among(new, {"mic"}) = {} /\ Among(new, Video) = {} /\ Among(new, {"screen"}) = {} BY DEF Among
  <2> HIDE DEF S, new
  <2>5. /\ Mics' = (Mics \ S) \cup Later(Among(new, {"mic"}))
        /\ Views' = (Views \ S) \cup Later(Among(new, Video))
        /\ Screens' = (Screens \ S) \cup Later(Among(new, {"screen"}))
    BY <1>3, <1>5, <2>1, StreamGrows
  <2>6. Mics \ S = Mics /\ Views \ S = Views /\ Screens \ S = Screens BY <2>3
  <2>7. Later({}) = {} BY DEF Later
  <2> QED BY <1>2, <1>3, <2>4, <2>5, <2>6, <2>7
<1> QED BY <1>2, <1>3, <1>4, <1>5

\* A join's stream is the new one, with a microphone and perhaps a camera.
LEMMA JoinGetsStream ==
  ASSUME Base, NEW x \in waits, NEW got \in {"both", "mic", "none"}, JoinGets(x, got)
  PROVE  LET s == Len(tracks) + 1
         IN  /\ local' = (IF got = "none" THEN 0 ELSE s) /\ s \in Nat \ {0}
             /\ Mics' = (IF got = "none" THEN {} ELSE {s}) /\ Views' = (IF got = "both" THEN {s + 1} ELSE {}) /\ Screens' = {}
             /\ got = "both" => tracks'[s + 1].on = TRUE
<1> DEFINE s == Len(tracks) + 1
           new == Joined(got)
<1>1. TracksTyped /\ Len(tracks) \in Nat /\ s \in Nat \ {0} BY DEF Base, TracksTyped
<1>2. /\ Grown({}, new)
      /\ \A j \in 1..Len(new) :
           /\ new[j].in = s
           /\ \/ j = 1 /\ new[j].kind = "mic"
              \/ j = 2 /\ got = "both" /\ new[j].kind = "camera" /\ new[j].on = TRUE
      /\ Len(new) = CASE got = "both" -> 2 [] got = "mic" -> 1 [] got = "none" -> 0
  BY JoinGetsRows
<1>3. local' = (IF got = "none" THEN 0 ELSE s) BY DEF JoinGets
<1> HIDE DEF new
<1>4. \A i \in 1..Len(tracks) : tracks'[i].in # s
  <2>1. \A i \in 1..Len(tracks) : tracks[i].in <= Len(tracks) /\ tracks[i].in \in Nat
    <3>1. \A i \in 1..Len(tracks) : tracks[i] \in TrackRow BY <1>1 DEF TracksTyped
    <3> QED BY <1>1, <3>1 DEF TracksTyped, TrackRow
  <2>2. \A i \in 1..Len(tracks) : tracks'[i] = tracks[i] BY <1>2 DEF Grown
  <2> QED BY <1>1, <2>1, <2>2
<1>5. DOMAIN tracks' = 1..(Len(tracks) + Len(new)) /\ \A j \in 1..Len(new) : tracks'[Len(tracks) + j] = new[j]
  BY <1>2 DEF Grown
<1>6. ASSUME NEW K, NEW i, got # "none"
      PROVE  i \in Owned(local, K)' <=> \E j \in 1..Len(new) : i = Len(tracks) + j /\ new[j].kind \in K
  <2>1. i \in Owned(local, K)' <=> i \in 1..(Len(tracks) + Len(new)) /\ tracks'[i].in = s /\ tracks'[i].kind \in K
    BY <1>1, <1>3, <1>5, <1>6 DEF Owned
  <2>2. Len(new) \in Nat BY <1>2
  <2>3. i \in 1..(Len(tracks) + Len(new)) => i \in 1..Len(tracks) \/ \E j \in 1..Len(new) : i = Len(tracks) + j
    <3> SUFFICES ASSUME i \in 1..(Len(tracks) + Len(new)), i \notin 1..Len(tracks)
                 PROVE  \E j \in 1..Len(new) : i = Len(tracks) + j
      OBVIOUS
    <3> DEFINE j == i - Len(tracks)
    <3>1. j \in 1..Len(new) /\ i = Len(tracks) + j BY <1>1, <2>2
    <3> QED BY <3>1
  <2>4. \A j \in 1..Len(new) : Len(tracks) + j \in 1..(Len(tracks) + Len(new)) BY <1>1, <2>2
  <2> QED BY <1>2, <1>4, <1>5, <2>1, <2>3, <2>4
<1>7. CASE got = "none"
  BY <1>1, <1>3, <1>7 DEF Mics, Views, Screens, Owned
<1>8. CASE got = "mic"
  <2>1. Len(new) = 1 /\ new[1].kind = "mic" BY <1>2, <1>8
  <2>2. \A j \in 1..Len(new) : j = 1 BY <2>1
  <2>3. 1 \in 1..Len(new) BY <2>1
  <2>4. \A i : i \in Mics' <=> i = s BY <1>6, <1>8, <2>1, <2>2, <2>3 DEF Mics
  <2>5. \A i : i \notin Views' /\ i \notin Screens' BY <1>6, <1>8, <2>1, <2>2 DEF Views, Screens, Video
  <2> QED BY <1>1, <1>3, <1>8, <2>4, <2>5
<1>9. CASE got = "both"
  <2>1. Len(new) = 2 BY <1>2, <1>9
  <2>2. 1 \in 1..Len(new) /\ 2 \in 1..Len(new) /\ \A j \in 1..Len(new) : j = 1 \/ j = 2 BY <2>1
  <2>3. new[1].kind = "mic" /\ new[2].kind = "camera" /\ new[2].on = TRUE BY <1>2, <2>2
  <2>4. \A i : i \in Mics' <=> i = s BY <1>6, <1>9, <2>2, <2>3 DEF Mics
  <2>5. s + 1 = Len(tracks) + 2 BY <1>1
  <2>6. \A i : (i \in Views' <=> i = s + 1) /\ i \notin Screens'
    BY <1>6, <1>9, <2>2, <2>3, <2>5 DEF Views, Screens, Video
  <2>7. tracks'[s + 1].on = TRUE BY <1>5, <2>2, <2>3, <2>5
  <2> QED BY <1>1, <1>3, <1>9, <2>4, <2>6, <2>7
<1> QED BY <1>7, <1>8, <1>9

\* A toggle begins to wait; nothing else does.
LEMMA CameraEntire ==
  ASSUME Base, Entire, NEW on \in BOOLEAN, SetCameraEnabled(on), ~Overlaps
  PROVE  Entire'
<1>1. TracksTyped /\ Capturing /\ UNCHANGED <<chan, local, screen>> /\ local # 0
  BY CameraCases DEF Base, Capturing
<1>2. Waiting(Devices) = {} BY DEF Overlaps, Devices
<1>3. Single(Mics) /\ Single(Views) /\ (screen => Views # {}) /\ Mics # {}
  <2>1. Awaits({"first", "restore"}) = {} BY <1>2 DEF Awaits, Waiting, Devices
  <2> QED BY <1>1, <2>1 DEF Entire
<1>4. CASE /\ on /\ screen /\ waits' = waits \cup {Wait("switch", None, FALSE)}
           /\ UNCHANGED <<tracks, camera, posture>>
  <2> DEFINE w == Wait("switch", None, FALSE)
  <2>1. w.op = "switch" /\ w.stream = local BY DEF Wait
  <2>2. waits' = waits \cup {w} BY <1>4
  <2> HIDE DEF w
  <2>3. Waiting(Devices)' = {w} /\ Awaits({"first", "restore"})' = {}
    BY <1>2, <2>1, <2>2 DEF Waiting, Devices, Awaits
  <2>4. Mics' = Mics /\ Views' = Views BY <1>1, <1>4, StreamStays
  <2> QED BY <1>1, <1>3, <1>4, <2>3, <2>4 DEF Entire, Single
<1>5. CASE /\ on /\ ~screen /\ Owned(local, Video) = {}
           /\ Grown({FirstOf(Owned(local, {"mic"}))} \ {0}, <<>>)
           /\ waits' = waits \cup {Wait("first", None, FALSE)}
           /\ UNCHANGED <<camera, posture>>
  <2> DEFINE w == Wait("first", None, FALSE)
             S == {FirstOf(Mics)} \ {0}
             new == <<>>
  <2>1. w.op = "first" /\ w.stream = local BY DEF Wait
  <2>2. waits' = waits \cup {w} BY <1>5
  <2>3. Grown(S, new) /\ Views = {} BY <1>5 DEF Mics, Views
  <2>4. Mics = S
    <3>1. Mics \in SUBSET (Nat \ {0}) BY <1>1, StreamOf
    <3> QED BY <1>3, <3>1, OneFirst
  <2>5. Among(new, {"mic"}) = {} /\ Among(new, Video) = {} BY DEF Among
  <2> HIDE DEF w, S, new
  <2>6. Mics' = (Mics \ S) \cup Later(Among(new, {"mic"})) /\ Views' = (Views \ S) \cup Later(Among(new, Video))
    BY <1>1, <2>3, StreamGrows
  <2>7. Mics' = {} /\ Views' = {} BY <2>3, <2>4, <2>5, <2>6 DEF Later
  <2>8. Waiting(Devices)' = {w} /\ w \in Awaits({"first", "restore"})' /\ Awaits({"switch"})' = {}
    BY <1>1, <1>2, <2>1, <2>2 DEF Waiting, Devices, Awaits
  <2>9. ~screen' BY <1>1, <1>5
  <2> QED BY <2>7, <2>8, <2>9 DEF Entire, Single
<1>6. ASSUME Mics' = Mics, Views' = Views, waits' = waits PROVE Entire'
  <2>1. Waiting(Devices)' = Waiting(Devices) BY <1>6 DEF Waiting
  <2> QED BY <1>1, <1>6, <2>1, EntireStays
<1>7. CASE /\ Owned(local, Video) # {} /\ ~(on /\ screen)
           /\ Switched(Owned(local, Video), on) /\ camera' = on
           /\ posture' = Announce(muted, on, screen, listen) /\ UNCHANGED waits
  <2>1. Mics' = Mics /\ Views' = Views BY <1>1, <1>7, SwitchedOwned DEF Mics, Views
  <2> QED BY <1>6, <1>7, <2>1
<1>8. CASE /\ ~on /\ Owned(local, Video) = {}
           /\ posture' = Announce(muted, camera, screen, listen) /\ UNCHANGED <<waits, tracks, camera>>
  BY <1>1, <1>6, <1>8, StreamStays
<1> QED BY <1>4, <1>5, <1>7, <1>8, CameraCases

LEMMA ShareOffEntire ==
  ASSUME Base, Entire, NEW E, ShareOff(E), UNCHANGED <<chan, gen, local, muted, listen, waits>>, Capturing, ~Overlaps,
         \A i \in E : i \in 1..Len(tracks) /\ tracks[i].kind = "screen"
  PROVE  Entire'
<1>1. local # 0 /\ Single(Mics) /\ Single(Views) BY DEF Capturing, Entire
<1>2. Waiting(Devices) = {} /\ Waiting(Devices)' = {} BY DEF Overlaps, Devices, Waiting
<1>3. Awaits({"first", "restore"}) = {} /\ Awaits({"first", "restore"})' = {} /\ Awaits({"switch"})' = {}
  BY <1>2 DEF Awaits, Waiting, Devices
<1>4. Mics' = Mics /\ Views' = {} BY <1>1, ShareOffStream
<1>5. ~screen' BY DEF ShareOff
<1> QED BY <1>1, <1>2, <1>3, <1>4, <1>5 DEF Entire, Single

\* An answer to the current stream.
LEMMA AnswersCurrent ==
  ASSUME Base, NEW x \in waits, x.op \in Devices, Spared({"late"})', Answered(x) \subseteq raced'
  PROVE  x.stream = local /\ local # 0
<1>1. x.stream # 0 BY DEF Base, WaitsTyped, WellWait
<1> QED BY <1>1 DEF Answered, Spared

LEMMA AnswersEntire ==
  ASSUME Base, Entire, Spared({"late", "deaf"})', NEW x \in waits,
         \/ FirstGets(x)
         \/ \E ok \in BOOLEAN : RestoreGets(x, ok) \/ SwitchGets(x, ok)
         \/ \E got \in {"cancel", "picture", "sound"} : DisplayGets(x, got)
  PROVE  Entire'
<1> DEFINE L == Len(tracks)
<1>1. TracksTyped /\ Spared({"late"})' BY DEF Base, Spared
<1>2. CASE FirstGets(x)
  <2>1. x.op = "first" /\ x.op \in Devices /\ waits' = waits \ {x} /\ UNCHANGED <<chan, local>> /\ screen' = screen /\ Answered(x) \subseteq raced'
    BY <1>2 DEF FirstGets, Devices, Races
  <2>2. x.stream = local /\ local # 0 BY <1>1, <2>1, AnswersCurrent
  <2>3. Capturing => Mics = {} /\ Views = {}
    <3>1. x \in Awaits({"first", "restore"}) BY <2>1, <2>2 DEF Awaits, Waiting
    <3> QED BY <3>1 DEF Entire
  <2>4. Mics' = Mics \cup {L + 1} /\ Views' = Views \cup {L + 2} BY <1>2, <2>2, FirstGetsStream
  <2>5. Capturing' => Capturing BY <2>1 DEF Capturing, InCall
  <2> QED BY <2>1, <2>3, <2>4, <2>5, EntireAnswered DEF Single
<1>3. ASSUME NEW ok \in BOOLEAN, RestoreGets(x, ok) PROVE Entire'
  <2>1. x.op = "restore" /\ x.op \in Devices /\ waits' = waits \ {x} /\ UNCHANGED <<chan, local>> /\ screen' = screen /\ Answered(x) \subseteq raced'
    BY <1>3 DEF RestoreGets, Devices, Races, flags
  <2>2. x.stream = local /\ local # 0 BY <1>1, <2>1, AnswersCurrent
  <2>3. ok = TRUE BY <1>3 DEF RestoreGets, Races, Spared
  <2>4. Capturing => Mics = {} /\ Views = {} /\ ~screen
    <3>1. x \in Awaits({"first", "restore"}) BY <2>1, <2>2 DEF Awaits, Waiting
    <3> QED BY <3>1 DEF Entire
  <2>5. Mics' = Mics \cup {L + 1} /\ Views' = Views BY <1>3, <2>2, <2>3, RestoreGetsStream
  <2>6. Capturing' => Capturing BY <2>1 DEF Capturing, InCall
  <2> QED BY <2>1, <2>4, <2>5, <2>6, EntireAnswered DEF Single
<1>4. ASSUME x.op \in Devices, x.op \notin {"first", "restore"}, waits' = waits \ {x}, UNCHANGED <<chan, local>>, Mics' = Mics,
             Capturing => Single(Views') /\ (screen' => Views' # {})
      PROVE  Entire'
  <2>1. Capturing' => Capturing BY <1>4 DEF Capturing, InCall
  <2>2. Waiting(Devices) = {x} BY <1>4, EntireAnswered
  <2>3. Awaits({"first", "restore"}) = {} BY <1>4, <2>2 DEF Awaits, Waiting, Devices
  <2>4. Capturing => Mics # {} /\ Single(Mics) BY <2>3 DEF Entire
  <2> QED BY <1>4, <2>1, <2>4, EntireAnswered
<1>5. ASSUME x.op \in Devices, x.op \notin {"first", "restore"}, waits' = waits \ {x}, UNCHANGED <<chan, local, tracks>>, screen' = screen
      PROVE  Entire'
  <2>1. Mics' = Mics /\ Views' = Views BY <1>5, StreamStays
  <2> QED BY <1>4, <1>5, <2>1 DEF Entire
<1>6. ASSUME NEW ok \in BOOLEAN, SwitchGets(x, ok) PROVE Entire'
  <2>1. x.op = "switch" /\ x.op \in Devices /\ waits' = waits \ {x} /\ UNCHANGED <<chan, local>>
    BY <1>6 DEF SwitchGets, Devices
  <2>2. CASE ~ok BY <1>5, <1>6, <2>1, <2>2 DEF SwitchGets
  <2>3. CASE ok
    <3>1. ok = TRUE /\ Answered(x) \subseteq raced' BY <1>6, <2>3 DEF SwitchGets, Races
    <3>2. x.stream = local /\ local # 0 BY <1>1, <2>1, <3>1, AnswersCurrent
    <3>3. ~screen' BY <1>6, <2>3, <3>2 DEF SwitchGets
    <3>4. CASE Single(Views)
      <4>1. Mics' = Mics /\ Views' = {L + 1} BY <1>6, <3>1, <3>2, <3>4, SwitchGetsStream
      <4> QED BY <1>4, <2>1, <4>1 DEF Single
    <3>5. CASE ~Single(Views)
      <4>1. ~Capturing BY <3>5 DEF Entire
      <4>2. ~Capturing' BY <2>1, <4>1 DEF Capturing, InCall
      <4> QED BY <2>1, <4>2, EntireAnswered
    <3> QED BY <3>4, <3>5
  <2> QED BY <2>2, <2>3
<1>7. ASSUME NEW got \in {"cancel", "picture", "sound"}, DisplayGets(x, got) PROVE Entire'
  <2>1. x.op = "display" /\ x.op \in Devices /\ waits' = waits \ {x} /\ UNCHANGED <<chan, local>>
    BY <1>7 DEF DisplayGets, Devices
  <2>2. CASE got = "cancel" BY <1>5, <1>7, <2>1, <2>2 DEF DisplayGets
  <2>3. CASE got # "cancel"
    <3>1. got \in {"picture", "sound"} /\ Answered(x) \subseteq raced' BY <1>7, <2>3 DEF DisplayGets, Races
    <3>2. x.stream = local /\ local # 0 BY <1>1, <2>1, <3>1, AnswersCurrent
    <3>4. CASE Single(Views)
      <4>1. Mics' = Mics /\ Views' = {L + 1} BY <1>7, <3>1, <3>2, <3>4, DisplayGetsStream
      <4> QED BY <1>4, <2>1, <4>1 DEF Single
    <3>5. CASE ~Single(Views)
      <4>1. ~Capturing BY <3>5 DEF Entire
      <4>2. ~Capturing' BY <2>1, <4>1 DEF Capturing, InCall
      <4> QED BY <2>1, <4>2, EntireAnswered
    <3> QED BY <3>4, <3>5
  <2> QED BY <2>2, <2>3
<1> QED BY <1>2, <1>3, <1>6, <1>7

LEMMA CaptureWhole ==
  ASSUME Base, Whole, Capture
  PROVE  Whole'
<1> DEFINE K == {"joins", "rejoin", "late", "overlap", "deaf"}
<1> SUFFICES ASSUME Spared(K)' PROVE Entire'
  BY DEF Whole
<1>1. Entire /\ TracksTyped BY RacedGrows DEF Whole, Spared, Base
<1>2. ASSUME ~Capturing', Waiting(Devices)' = Waiting(Devices) PROVE Entire'
  BY <1>1, <1>2 DEF Entire, Single
<1>3. ASSUME NEW op \in Ops \ Devices, NEW to, NEW video, waits' = waits \cup {Wait(op, to, video)}
      PROVE  Waiting(Devices)' = Waiting(Devices)
  <2> DEFINE y == Wait(op, to, video)
  <2>1. y.op = op BY DEF Wait
  <2> HIDE DEF y
  <2> QED BY <1>3, <2>1 DEF y, Waiting
<1>4. ASSUME NEW op \in Tones, NEW to, NEW video, HangUp(Wait(op, to, video)) PROVE Entire'
  <2>1. op \in Ops \ Devices BY DEF Ops, Tones, Devices
  <2>2. chan' = None /\ waits' = waits \cup {Wait(op, to, video)} BY <1>4 DEF HangUp
  <2> QED BY <1>2, <1>3, <2>1, <2>2 DEF Capturing, InCall
<1>5. CASE Leave BY <1>4, <1>5 DEF Leave, Tones
<1>6. ASSUME RacesIf(Overlaps, "overlap") PROVE ~Overlaps BY <1>6 DEF RacesIf, Races, Spared
<1>7. CASE CameraClick
  <2>1. SetCameraEnabled(screen \/ ~camera) /\ ~Overlaps BY <1>6, <1>7 DEF CameraClick
  <2>2. (screen \/ ~camera) \in BOOLEAN BY Zenon
  <2> QED BY <1>1, <2>1, <2>2, CameraEntire
<1>8. CASE VideoFull
  <2>1. SetCameraEnabled(FALSE) /\ ~Overlaps BY <1>6, <1>8 DEF VideoFull
  <2> QED BY <1>1, <2>1, CameraEntire
<1>9. CASE ShareClick
  <2>1. UNCHANGED <<chan, gen, local, muted, listen>> /\ Capturing BY <1>9, ShareClickBase
  <2>2. ~Overlaps BY <1>6, <1>9 DEF ShareClick
  <2>3. CASE ShareOff({}) /\ UNCHANGED waits BY <1>1, <2>1, <2>2, <2>3, ShareOffEntire
  <2>4. CASE waits' = waits \cup {Wait("display", None, FALSE)} /\ UNCHANGED <<tracks, screen>>
    <3> DEFINE y == Wait("display", None, FALSE)
    <3>1. y.op = "display" BY DEF Wait
    <3> HIDE DEF y
    <3>2. Waiting(Devices) = {} BY <2>2 DEF Overlaps, Devices
    <3>3. Waiting(Devices)' = {y} BY <2>4, <3>1, <3>2 DEF y, Waiting, Devices
    <3>4. /\ Awaits({"first", "restore"}) = {} /\ Awaits({"first", "restore"})' = {} /\ Awaits({"switch"})' = {}
      BY <3>1, <3>2, <3>3 DEF Awaits, Waiting, Devices
    <3>5. Mics' = Mics /\ Views' = Views /\ screen' = screen BY <2>1, <2>4, StreamStays
    <3> QED BY <1>1, <2>1, <3>3, <3>4, <3>5 DEF Entire, Single
  <2> QED BY <1>9, <2>3, <2>4, ShareClickBase
<1>10. ASSUME UNCHANGED <<chan, local, tracks>>, screen' = screen, Waiting(Devices)' = Waiting(Devices) PROVE Entire'
  <2>1. Mics' = Mics /\ Views' = Views BY <1>10, StreamStays
  <2>2. Capturing' => Capturing BY <1>10 DEF Capturing, InCall
  <2> QED BY <1>1, <1>10, <2>1, <2>2, EntireStays
<1>11. ASSUME MonitorStarts \/ MonitorEnds \/ \E p \in DOMAIN pcs : Negotiated(p) \/ \E r \in Reports : MonitorSample(p, r)
       PROVE  Entire'
  <2>1. Reshapes BY <1>11, Reshapers
  <2> QED BY <1>10, <2>1 DEF Reshapes, flags, Waiting
<1>12. ASSUME NEW c \in Chan, NEW video \in BOOLEAN, JoinVoiceChannel(c, video) PROVE Entire'
  <2>1. CASE InCall BY <1>4, <1>12, <2>1 DEF JoinVoiceChannel, Tones
  <2>2. CASE ~InCall
    <3>1. "join" \in Ops \ Devices BY DEF Ops, Devices
    <3>2. chan' = chan /\ waits' = waits \cup {Wait("join", c, video)} BY <1>12, <2>2 DEF JoinVoiceChannel
    <3> QED BY <1>2, <1>3, <2>2, <3>1, <3>2 DEF Capturing, InCall
  <2> QED BY <2>1, <2>2
<1>13. ASSUME NEW m \in BOOLEAN, SetVoiceMuted(m) PROVE Entire'
  <2> DEFINE z == ~m
  <2>1. z \in BOOLEAN BY Zenon
  <2>2. Switched(Owned(local, {"mic"}), z) BY <1>13, MuteBase
  <2>3. UNCHANGED <<chan, local, waits>> /\ screen' = screen BY <1>13 DEF SetVoiceMuted
  <2> HIDE DEF z
  <2>4. Mics' = Mics /\ Views' = Views BY <1>1, <2>1, <2>2, <2>3, SwitchedOwned DEF Mics, Views
  <2>5. Waiting(Devices)' = Waiting(Devices) /\ (Capturing' => Capturing) BY <2>3 DEF Waiting, Capturing, InCall
  <2> QED BY <1>1, <2>3, <2>4, <2>5, EntireStays
<1>14. ASSUME NEW i \in DOMAIN tracks, ScreenEnds(i) PROVE Entire'
  <2>1. UNCHANGED <<chan, gen, local, muted, listen, waits>> /\ tracks[i].kind = "screen" BY <1>14, ScreenEndsBase
  <2>2. ~Overlaps BY <1>6, <1>14 DEF ScreenEnds
  <2>3. CASE Capturing /\ ShareOff({i})
    <3>1. \A j \in {i} : j \in 1..Len(tracks) /\ tracks[j].kind = "screen" BY <1>1, <2>1 DEF TracksTyped
    <3> QED BY <1>1, <2>1, <2>2, <2>3, <3>1, ShareOffEntire
  <2>4. CASE ~Capturing
    <3>1. ~Capturing' /\ Waiting(Devices)' = Waiting(Devices) BY <2>1, <2>4 DEF Capturing, InCall, Waiting
    <3> QED BY <1>2, <3>1
  <2> QED BY <1>14, <2>3, <2>4, ScreenEndsBase
<1>15. ASSUME NEW S \in SUBSET Peer, OnVoiceState(S) PROVE Entire'
  <2>1. UNCHANGED <<chan, gen, local, flags, tracks, waits>> BY <1>15 DEF OnVoiceState
  <2> QED BY <1>10, <2>1 DEF flags, Waiting
<1>16. ASSUME NEW x \in waits, ToneEnds(x) PROVE Entire'
  <2>1. Waiting(Devices)' = Waiting(Devices) /\ chan' = chan BY <1>16, ToneEndsWaits DEF ToneEnds
  <2>2. CASE ~InCall BY <1>2, <2>1, <2>2 DEF Capturing, InCall
  <2>3. CASE InCall
    <3>1. UNCHANGED local /\ screen' = screen /\ Mics' = Mics /\ Views' = Views BY <1>16, <2>3, ToneEndsStream
    <3>2. Capturing' => Capturing BY <2>1, <3>1 DEF Capturing, InCall
    <3> QED BY <1>1, <2>1, <3>1, <3>2, EntireStays
  <2> QED BY <2>2, <2>3
<1>17. ASSUME NEW x \in waits, FirstFails(x) PROVE Entire'
  <2>1. UNCHANGED <<chan, local, tracks>> /\ screen' = screen BY <1>17, FirstFailsBase DEF flags
  <2>2. PICK y : y.op = "restore" /\ y.stream = x.stream /\ waits' = (waits \ {x}) \cup {y} /\ x.op = "first"
    BY <1>17, FirstFailsBase
  <2>3. x \in Waiting(Devices) BY <2>2 DEF Waiting, Devices
  <2>4. Waiting(Devices) = {x} BY <1>1, <2>3 DEF Entire, Single
  <2>5. Waiting(Devices)' = {y} BY <2>2, <2>4 DEF Waiting, Devices
  <2>6. Mics' = Mics /\ Views' = Views BY <2>1, StreamStays
  <2>7. Awaits({"switch"})' = {} BY <2>2, <2>5 DEF Awaits, Waiting, Devices
  <2>8. Awaits({"first", "restore"}) # {} <=> x.stream = local BY <2>2, <2>4 DEF Awaits, Waiting, Devices
  <2>9. Awaits({"first", "restore"})' # {} <=> x.stream = local BY <2>1, <2>2, <2>5 DEF Awaits, Waiting, Devices
  <2>10. Capturing' => Capturing BY <2>1 DEF Capturing, InCall
  <2> QED BY <1>1, <2>1, <2>5, <2>6, <2>7, <2>8, <2>9, <2>10 DEF Entire, Single
<1>18. ASSUME NEW x \in waits, NEW got \in {"both", "mic", "none"}, JoinGets(x, got) PROVE Entire'
  <2>1. ~screen /\ screen' = screen /\ x.op = "join" /\ waits' = waits \ {x} BY <1>18 DEF JoinGets, Races, Spared
  <2>2. Waiting(Devices)' = Waiting(Devices) BY <2>1 DEF Waiting, Devices
  <2> DEFINE s == Len(tracks) + 1
  <2>3. local' \in {0, s} /\ s \in Nat \ {0} /\ (local' # 0 => Mics' = {s}) /\ Single(Views')
    <3>1. /\ local' = (IF got = "none" THEN 0 ELSE s) /\ s \in Nat \ {0}
          /\ Mics' = (IF got = "none" THEN {} ELSE {s}) /\ Views' = (IF got = "both" THEN {s + 1} ELSE {})
      BY <1>18, JoinGetsStream
    <3> HIDE DEF s
    <3> QED BY <3>1 DEF Single
  <2>4. Awaits({"first", "restore"})' = {} \/ local' = 0
    <3>1. \A y \in waits : y.stream \in 0..Len(tracks) BY DEF Base, WaitsTyped, WellWait
    <3>2. Len(tracks) \in Nat BY <1>1, StreamOf
    <3>3. \A y \in waits : y.stream # s BY <3>1, <3>2
    <3> HIDE DEF s
    <3> QED BY <2>1, <2>3, <3>3 DEF Awaits, Waiting
  <2>5. Awaits({"switch"})' = {} \/ local' = 0
    <3>1. \A y \in waits : y.stream \in 0..Len(tracks) BY DEF Base, WaitsTyped, WellWait
    <3>2. Len(tracks) \in Nat BY <1>1, StreamOf
    <3>3. \A y \in waits : y.stream # s BY <3>1, <3>2
    <3> HIDE DEF s
    <3> QED BY <2>1, <2>3, <3>3 DEF Awaits, Waiting
  <2> HIDE DEF s
  <2>6. Capturing' => local' # 0 BY DEF Capturing
  <2> QED BY <1>1, <2>1, <2>2, <2>3, <2>4, <2>5, <2>6 DEF Entire, Single
<1>19. ASSUME NEW x \in waits,
              \/ FirstGets(x)
              \/ \E ok \in BOOLEAN : RestoreGets(x, ok) \/ SwitchGets(x, ok)
              \/ \E got \in {"cancel", "picture", "sound"} : DisplayGets(x, got)
       PROVE  Entire'
  <2>1. Spared({"late", "deaf"})' BY DEF Spared
  <2> QED BY <1>1, <1>19, <2>1, AnswersEntire
<1> QED BY <1>5, <1>7, <1>8, <1>9, <1>11, <1>12, <1>13, <1>14, <1>15, <1>16, <1>17, <1>18, <1>19 DEF Capture

\* A connection's senders: the microphone first, the screen's sound on one of
\* the others, and the picture on one of the video senders.
SendsMic(aud, trs, mics) ==
  Len(aud) > 0 /\ aud[1] # 0 /\ trs[aud[1]].kind = "mic" /\ (mics # {} => aud[1] \in mics)
SendsSound(aud, snd) ==
  /\ \A i \in DOMAIN aud \ {1} : aud[i] \in {0, snd}
  /\ snd # 0 => \E i \in DOMAIN aud : aud[i] = snd
SendsVideo(vid, views) ==
  /\ \A i \in DOMAIN vid : vid[i] # 0 => vid[i] \in views
  /\ \A v \in views : \E i \in DOMAIN vid : vid[i] = v
  /\ \A i, j \in DOMAIN vid : vid[i] # 0 /\ vid[j] # 0 => i = j
AllSent ==
  Capturing => \A p \in DOMAIN pcs : /\ SendsMic(pcs[p].aud, tracks, Mics) /\ SendsSound(pcs[p].aud, sound)
                                     /\ SendsVideo(pcs[p].vid, Views)
Sent == Spared({"joins", "rejoin", "late", "overlap", "deaf", "newcomer"}) => AllSent

LEMMA MicTaken ==
  ASSUME NEW n \in Nat, NEW aud \in Seq(0..n), NEW snd \in Nat, NEW t \in Nat \ {0},
         Len(aud) > 0, aud[1] # 0, aud[1] # snd, SendsSound(aud, snd)
  PROVE  LET new == Replaced(aud, t) IN Len(new) > 0 /\ new[1] = t /\ SendsSound(new, snd)
<1> DEFINE new == Replaced(aud, t)
<1>1. 1 \in DOMAIN aud /\ \A i \in DOMAIN aud : 1 <= i OBVIOUS
<1>2. new = [aud EXCEPT ![1] = t] BY <1>1, ReplacedIs
<1>3. DOMAIN new = DOMAIN aud /\ new[1] = t /\ \A i \in DOMAIN aud \ {1} : new[i] = aud[i] BY <1>1, <1>2
<1>4. new \in Seq(0..n \cup {t}) BY ReplacedIs
<1> HIDE DEF new
<1>5. Len(new) > 0 BY <1>1, <1>3, <1>4
<1>6. SendsSound(new, snd)
  <2>1. \A i \in DOMAIN aud : aud[i] = snd => i # 1 OBVIOUS
  <2> QED BY <1>3, <2>1 DEF SendsSound
<1> QED BY <1>3, <1>5, <1>6 DEF new

LEMMA SoundTaken ==
  ASSUME NEW n \in Nat, NEW aud \in Seq(0..n), Len(aud) > 0, aud[1] # sound, SendsSound(aud, sound), NEW t \in Nat
  PROVE  /\ Len(Unsounded(aud)) > 0 /\ Unsounded(aud)[1] = aud[1] /\ SendsSound(Unsounded(aud), 0)
         /\ Len(Append(Unsounded(aud), t)) > 0 /\ Append(Unsounded(aud), t)[1] = aud[1]
         /\ SendsSound(Append(Unsounded(aud), t), t)
<1> DEFINE less == Unsounded(aud)
           more == Append(less, t)
<1>1. DOMAIN less = DOMAIN aud /\ \A i \in DOMAIN aud : less[i] = IF aud[i] = sound THEN 0 ELSE aud[i] BY DEF Unsounded
<1>2. less \in Seq(0..n)
  <2>1. 0 \in 0..n OBVIOUS
  <2> QED BY <2>1, ListsTyped
<1> HIDE DEF less
<1>3. 1 \in DOMAIN aud OBVIOUS
<1>4. Len(less) > 0 /\ less[1] = aud[1] BY <1>1, <1>2, <1>3
<1>5. \A i \in DOMAIN less \ {1} : less[i] = 0 BY <1>1 DEF SendsSound
<1>6. SendsSound(less, 0) BY <1>5 DEF SendsSound
<1>7. /\ DOMAIN more = 1..(Len(less) + 1) /\ Len(more) = Len(less) + 1
      /\ \A i \in 1..Len(less) : more[i] = less[i]
      /\ more[Len(less) + 1] = t
  BY <1>2
<1>8. DOMAIN less = 1..Len(less) /\ Len(less) \in Nat BY <1>2
<1> HIDE DEF more
<1>9. \A i \in DOMAIN more \ {1} : more[i] \in {0, t} BY <1>5, <1>7, <1>8
<1>10. SendsSound(more, t) BY <1>7, <1>8, <1>9 DEF SendsSound
<1>11. Len(more) > 0 /\ more[1] = aud[1] BY <1>4, <1>7, <1>8
<1> QED BY <1>4, <1>6, <1>10, <1>11 DEF less, more

LEMMA PictureTaken ==
  ASSUME NEW n \in Nat, NEW vid \in Seq(0..n), NEW v \in Nat \ {0}, SendsVideo(vid, {v}), NEW t \in Nat
  PROVE  SendsVideo(Replaced(vid, t), {t} \ {0})
<1> DEFINE new == Replaced(vid, t)
<1>1. PICK k \in DOMAIN vid : vid[k] = v BY DEF SendsVideo
<1>2. \A i \in DOMAIN vid : vid[i] # 0 => i = k BY <1>1 DEF SendsVideo
<1>3. vid[k] # 0 /\ \A i \in DOMAIN vid : vid[i] # 0 => k <= i
  <2>1. k \in Nat BY <1>1
  <2> QED BY <1>1, <1>2, <2>1
<1>4. new = [vid EXCEPT ![k] = t] BY <1>1, <1>3, ReplacedIs
<1>5. DOMAIN new = DOMAIN vid /\ new[k] = t /\ \A i \in DOMAIN vid \ {k} : new[i] = 0 BY <1>1, <1>2, <1>4
<1> HIDE DEF new
<1>6. SendsVideo(new, {t} \ {0}) BY <1>1, <1>5 DEF SendsVideo
<1> QED BY <1>6 DEF new

LEMMA PictureAdded ==
  ASSUME NEW n \in Nat, NEW vid \in Seq(0..n), SendsVideo(vid, {}), NEW t \in Nat \ {0}
  PROVE  SendsVideo(Attached(vid, t), {t})
<1> DEFINE I == {i \in 1..Len(vid) : vid[i] = 0}
           new == Attached(vid, t)
<1>1. new = IF I = {} THEN Append(vid, t) ELSE IF Min(I) = 0 THEN Append(vid, t) ELSE [vid EXCEPT ![Min(I)] = t]
  BY DEF Attached, SelectInSeq, ReplaceAt
<1>2. I \subseteq Nat /\ 0 \notin I /\ (I # {} => Min(I) \in I)
  <2>1. I \subseteq Nat /\ 0 \notin I OBVIOUS
  <2> HIDE DEF I
  <2> QED BY <2>1, LeastOf
<1>3. \A i \in DOMAIN vid : vid[i] = 0 BY DEF SendsVideo
<1>4. ASSUME NEW k \in DOMAIN new, new[k] = t, \A i \in DOMAIN new \ {k} : new[i] = 0 PROVE SendsVideo(new, {t})
  BY <1>4 DEF SendsVideo
<1>5. CASE I = {}
  <2>1. new = Append(vid, t) /\ DOMAIN vid = {} BY <1>1, <1>3, <1>5
  <2>2. 1 \in DOMAIN new /\ new[1] = t /\ DOMAIN new \ {1} = {} BY <2>1
  <2> QED BY <1>4, <2>2
<1>6. CASE I # {}
  <2> DEFINE k == Min(I)
  <2>1. k \in DOMAIN vid /\ k # 0 BY <1>2, <1>6
  <2>2. new = [vid EXCEPT ![k] = t] BY <1>1, <1>6, <2>1
  <2> HIDE DEF k
  <2>3. k \in DOMAIN new /\ new[k] = t /\ \A i \in DOMAIN new \ {k} : new[i] = 0 BY <1>3, <2>1, <2>2
  <2> HIDE DEF new
  <2>4. SendsVideo(new, {t}) BY <1>4, <2>3
  <2> QED BY <2>4 DEF new
<1> QED BY <1>5, <1>6

LEMMA SentStays ==
  ASSUME Base, AllSent, sound' = sound, Mics' = Mics \/ Mics' = {}, Views' = Views, Capturing' => Capturing,
         \A i \in 1..Len(tracks) : tracks'[i].kind = tracks[i].kind,
         \A p \in DOMAIN pcs' : p \in DOMAIN pcs /\ pcs'[p].aud = pcs[p].aud /\ pcs'[p].vid = pcs[p].vid
  PROVE  AllSent'
<1> SUFFICES ASSUME Capturing', NEW p \in DOMAIN pcs'
             PROVE  /\ SendsMic(pcs'[p].aud, tracks', Mics') /\ SendsSound(pcs'[p].aud, sound')
                    /\ SendsVideo(pcs'[p].vid, Views')
  BY DEF AllSent
<1> DEFINE aud == pcs[p].aud
<1>1. /\ SendsMic(aud, tracks, Mics) /\ SendsSound(aud, sound)
      /\ SendsVideo(pcs[p].vid, Views)
  BY DEF AllSent
<1>2. aud \in Seq(0..Len(tracks)) BY DEF Base, PcsTyped, Carries
<1>3. Len(tracks) \in Nat BY StreamOf DEF Base
<1> HIDE DEF aud
<1>4. aud[1] \in 1..Len(tracks) BY <1>1, <1>2, <1>3 DEF SendsMic
<1>5. SendsMic(aud, tracks', Mics') BY <1>1, <1>4 DEF SendsMic
<1> QED BY <1>1, <1>5 DEF aud

LEMMA PcSends ==
  ASSUME Base, AllSent, Capturing, NEW p \in DOMAIN pcs
  PROVE  LET pc == pcs[p]
             L == Len(tracks)
         IN  /\ pc.aud \in Seq(0..L) /\ pc.vid \in Seq(0..L) /\ L \in Nat /\ sound \in Nat
             /\ SendsMic(pc.aud, tracks, Mics) /\ SendsSound(pc.aud, sound) /\ SendsVideo(pc.vid, Views)
             /\ Len(pc.aud) > 0 /\ pc.aud[1] \in 1..L /\ tracks[pc.aud[1]].kind = "mic"
             /\ pc.aud[1] # 0 /\ pc.aud[1] # sound
<1> DEFINE aud == pcs[p].aud
           L == Len(tracks)
<1>1. /\ SendsMic(aud, tracks, Mics) /\ SendsSound(aud, sound)
      /\ SendsVideo(pcs[p].vid, Views)
  BY DEF AllSent
<1>2. aud \in Seq(0..L) /\ pcs[p].vid \in Seq(0..L) BY DEF Base, PcsTyped, Carries
<1>3. L \in Nat /\ sound \in Nat /\ (sound # 0 => tracks[sound].kind = "sound") BY StreamOf DEF Base
<1> HIDE DEF aud, L
<1>4. Len(aud) > 0 /\ aud[1] # 0 /\ tracks[aud[1]].kind = "mic" BY <1>1 DEF SendsMic
<1>5. aud[1] \in 1..L BY <1>2, <1>3, <1>4
<1>6. aud[1] # sound BY <1>3, <1>4
<1> QED BY <1>1, <1>2, <1>3, <1>4, <1>5, <1>6 DEF aud, L

LEMMA FirstGetsSent ==
  ASSUME Base, Entire, AllSent, Spared({"late"})', NEW x \in waits, FirstGets(x)
  PROVE  AllSent'
<1> DEFINE L == Len(tracks)
<1>1. x.op = "first" /\ x.op \in Devices /\ UNCHANGED <<chan, local, sound>> /\ Answered(x) \subseteq raced'
  BY DEF FirstGets, Devices, Races
<1>2. x.stream = local /\ local # 0 BY <1>1, AnswersCurrent
<1>3. x \in Awaits({"first", "restore"}) BY <1>1, <1>2 DEF Awaits, Waiting
<1>4. /\ Mics' = Mics \cup {L + 1} /\ Views' = Views \cup {L + 2} /\ tracks'[L + 1].kind = "mic"
  BY <1>2, FirstGetsStream
<1>5. /\ DOMAIN pcs' = DOMAIN pcs
      /\ \A p \in DOMAIN pcs : Sends(pcs'[p], Replaced(pcs[p].aud, L + 1), Attached(pcs[p].vid, L + 2))
  BY <1>2, FirstGetsBase
<1> SUFFICES ASSUME Capturing', NEW p \in DOMAIN pcs'
             PROVE  /\ SendsMic(pcs'[p].aud, tracks', Mics') /\ SendsSound(pcs'[p].aud, sound')
                    /\ SendsVideo(pcs'[p].vid, Views')
  BY DEF AllSent
<1>6. Capturing /\ p \in DOMAIN pcs BY <1>1, <1>5 DEF Capturing, InCall
<1>7. Mics' = {L + 1} /\ Views' = {L + 2} /\ Views = {} BY <1>3, <1>4, <1>6 DEF Entire
<1> DEFINE aud == pcs[p].aud
           vid == pcs[p].vid
<1>8. /\ aud \in Seq(0..L) /\ vid \in Seq(0..L) /\ L \in Nat /\ sound \in Nat
      /\ SendsSound(aud, sound) /\ SendsVideo(vid, Views)
      /\ Len(aud) > 0 /\ aud[1] # 0 /\ aud[1] # sound
  BY <1>6, PcSends
<1>9. pcs'[p].aud = Replaced(aud, L + 1) /\ pcs'[p].vid = Attached(vid, L + 2) BY <1>5, <1>6 DEF Sends
<1>10. L + 1 \in Nat \ {0} /\ L + 2 \in Nat \ {0} BY <1>8
<1> HIDE DEF aud, vid, L
<1>11. /\ Len(Replaced(aud, L + 1)) > 0 /\ Replaced(aud, L + 1)[1] = L + 1
       /\ SendsSound(Replaced(aud, L + 1), sound)
  BY <1>8, <1>10, MicTaken
<1>12. SendsVideo(Attached(vid, L + 2), {L + 2}) BY <1>7, <1>8, <1>10, PictureAdded
<1>13. SendsMic(pcs'[p].aud, tracks', Mics') BY <1>4, <1>7, <1>9, <1>10, <1>11 DEF SendsMic
<1> QED BY <1>1, <1>7, <1>9, <1>11, <1>12, <1>13

LEMMA RestoreGetsSent ==
  ASSUME Base, Entire, AllSent, Spared({"late", "deaf"})', NEW x \in waits, NEW ok \in BOOLEAN, RestoreGets(x, ok)
  PROVE  AllSent'
<1> DEFINE L == Len(tracks)
<1>1. x.op = "restore" /\ x.op \in Devices /\ UNCHANGED <<chan, local, sound>> /\ Answered(x) \subseteq raced' /\ ok = TRUE
  BY DEF RestoreGets, Devices, Races, Spared, flags
<1>2. x.stream = local /\ local # 0
  <2>1. Spared({"late"})' BY DEF Spared
  <2> QED BY <1>1, <2>1, AnswersCurrent
<1>3. x \in Awaits({"first", "restore"}) BY <1>1, <1>2 DEF Awaits, Waiting
<1>4. Mics' = Mics \cup {L + 1} /\ Views' = Views /\ tracks'[L + 1].kind = "mic"
  BY <1>1, <1>2, RestoreGetsStream
<1>5. /\ DOMAIN pcs' = DOMAIN pcs
      /\ \A p \in DOMAIN pcs : Sends(pcs'[p], Replaced(pcs[p].aud, L + 1), pcs[p].vid)
  BY <1>1, <1>2, RestoreGetsBase
<1> SUFFICES ASSUME Capturing', NEW p \in DOMAIN pcs'
             PROVE  /\ SendsMic(pcs'[p].aud, tracks', Mics') /\ SendsSound(pcs'[p].aud, sound')
                    /\ SendsVideo(pcs'[p].vid, Views')
  BY DEF AllSent
<1>6. Capturing /\ p \in DOMAIN pcs BY <1>1, <1>5 DEF Capturing, InCall
<1>7. Mics' = {L + 1} BY <1>3, <1>4, <1>6 DEF Entire
<1> DEFINE aud == pcs[p].aud
           vid == pcs[p].vid
<1>8. /\ aud \in Seq(0..L) /\ L \in Nat /\ sound \in Nat
      /\ SendsSound(aud, sound) /\ SendsVideo(vid, Views)
      /\ Len(aud) > 0 /\ aud[1] # 0 /\ aud[1] # sound
  BY <1>6, PcSends
<1>9. pcs'[p].aud = Replaced(aud, L + 1) /\ pcs'[p].vid = vid BY <1>5, <1>6 DEF Sends
<1>10. L + 1 \in Nat \ {0} BY <1>8
<1> HIDE DEF aud, vid, L
<1>11. /\ Len(Replaced(aud, L + 1)) > 0 /\ Replaced(aud, L + 1)[1] = L + 1
       /\ SendsSound(Replaced(aud, L + 1), sound)
  BY <1>8, <1>10, MicTaken
<1>13. SendsMic(pcs'[p].aud, tracks', Mics') BY <1>4, <1>7, <1>9, <1>10, <1>11 DEF SendsMic
<1> QED BY <1>1, <1>4, <1>8, <1>9, <1>11, <1>13

\* The picture alone changes, and the screen's sound with it.
LEMMA MicStays ==
  ASSUME Base, AllSent, Capturing, NEW p \in DOMAIN pcs, Mics' = Mics,
         \A i \in 1..Len(tracks) : tracks'[i].kind = tracks[i].kind,
         pcs'[p].aud = Unsounded(pcs[p].aud)
  PROVE  SendsMic(pcs'[p].aud, tracks', Mics') /\ SendsSound(pcs'[p].aud, 0)
<1> DEFINE aud == pcs[p].aud
<1>1. /\ aud \in Seq(0..Len(tracks)) /\ Len(tracks) \in Nat
      /\ SendsMic(aud, tracks, Mics) /\ SendsSound(aud, sound)
      /\ Len(aud) > 0 /\ aud[1] \in 1..Len(tracks) /\ aud[1] # sound
  BY PcSends
<1> HIDE DEF aud
<1>2. Len(Unsounded(aud)) > 0 /\ Unsounded(aud)[1] = aud[1] /\ SendsSound(Unsounded(aud), 0)
  BY <1>1, SoundTaken
<1>3. SendsMic(Unsounded(aud), tracks', Mics') BY <1>1, <1>2 DEF SendsMic
<1> QED BY <1>2, <1>3 DEF aud

LEMMA SwitchGetsSent ==
  ASSUME Base, Entire, AllSent, Spared({"late"})', NEW x \in waits, NEW ok \in BOOLEAN, SwitchGets(x, ok)
  PROVE  AllSent'
<1> DEFINE L == Len(tracks)
<1>1. x.op = "switch" /\ x.op \in Devices /\ UNCHANGED <<chan, local>> BY DEF SwitchGets, Devices
<1>2. Capturing' => Capturing BY <1>1 DEF Capturing, InCall
<1>3. CASE ~ok
  <2>1. UNCHANGED <<tracks, pcs, sound>> BY <1>3 DEF SwitchGets
  <2>2. Mics' = Mics /\ Views' = Views BY <1>1, <2>1, StreamStays
  <2> QED BY <1>2, <2>1, <2>2, SentStays
<1>4. CASE ok
  <2>1. ok = TRUE /\ Answered(x) \subseteq raced' BY <1>4 DEF SwitchGets, Races
  <2>2. x.stream = local /\ local # 0 BY <1>1, <2>1, AnswersCurrent
  <2>3. sound' = 0 BY <1>4, <2>2 DEF SwitchGets
  <2>4. /\ DOMAIN pcs' = DOMAIN pcs
        /\ \A p \in DOMAIN pcs : Sends(pcs'[p], Unsounded(pcs[p].aud), Replaced(pcs[p].vid, L + 1))
    BY <2>1, <2>2, SwitchGetsBase
  <2>5. \A i \in 1..L : tracks'[i].kind = tracks[i].kind
    <3>1. Grown(Old, SwitchAdds(ok)) /\ TracksTyped BY <2>1, <2>2, SwitchGetsBase DEF Base
    <3> QED BY <3>1, GrownKeeps
  <2> SUFFICES ASSUME Capturing', NEW p \in DOMAIN pcs'
               PROVE  /\ SendsMic(pcs'[p].aud, tracks', Mics') /\ SendsSound(pcs'[p].aud, sound')
                      /\ SendsVideo(pcs'[p].vid, Views')
    BY DEF AllSent
  <2>6. Capturing /\ p \in DOMAIN pcs BY <1>2, <2>4
  <2>7. Views # {} /\ Single(Views)
    <3>1. x \in Awaits({"switch"}) BY <1>1, <2>2 DEF Awaits, Waiting
    <3> QED BY <2>6, <3>1 DEF Entire
  <2>8. Mics' = Mics /\ Views' = {L + 1} BY <2>1, <2>2, <2>7, SwitchGetsStream
  <2>9. pcs'[p].aud = Unsounded(pcs[p].aud) /\ pcs'[p].vid = Replaced(pcs[p].vid, L + 1) BY <2>4, <2>6 DEF Sends
  <2>10. SendsMic(pcs'[p].aud, tracks', Mics') /\ SendsSound(pcs'[p].aud, sound')
    BY <2>3, <2>5, <2>6, <2>8, <2>9, MicStays
  <2>11. SendsVideo(pcs'[p].vid, Views')
    <3> DEFINE vid == pcs[p].vid
    <3>1. vid \in Seq(0..L) /\ L \in Nat /\ SendsVideo(vid, Views) BY <2>6, PcSends
    <3>2. PICK v \in Views : Views = {v} BY <2>7 DEF Single
    <3>3. v \in Nat \ {0} BY StreamOf DEF Base
    <3>4. L + 1 \in Nat /\ L + 1 # 0 BY <3>1
    <3>5. pcs'[p].vid = Replaced(vid, L + 1) BY <2>9
    <3> HIDE DEF vid, L
    <3>6. SendsVideo(Replaced(vid, L + 1), {L + 1} \ {0}) BY <3>1, <3>2, <3>3, <3>4, PictureTaken
    <3>7. {L + 1} \ {0} = {L + 1} BY <3>4
    <3> QED BY <2>8, <3>5, <3>6, <3>7
  <2> QED BY <2>10, <2>11
<1> QED BY <1>3, <1>4

LEMMA ShareOffSent ==
  ASSUME Base, Entire, AllSent, NEW E, ShareOff(E), UNCHANGED <<chan, gen, local, muted, listen, waits>>, Capturing,
         \A i \in E : i \in 1..Len(tracks) /\ tracks[i].kind = "screen"
  PROVE  AllSent'
<1>1. sound' = 0 BY DEF ShareOff
<1>2. local # 0 /\ Single(Views) BY DEF Capturing, Entire
<1>3. Mics' = Mics /\ Views' = {} BY <1>2, ShareOffStream
<1>4. /\ DOMAIN pcs' = DOMAIN pcs /\ Grown(Old \cup E, <<>>)
      /\ \A p \in DOMAIN pcs : Sends(pcs'[p], Unsounded(pcs[p].aud), Replaced(pcs[p].vid, 0))
  BY ShareOffBase
<1>5. \A i \in 1..Len(tracks) : tracks'[i].kind = tracks[i].kind BY <1>4, GrownKeeps DEF Base
<1> SUFFICES ASSUME NEW p \in DOMAIN pcs'
             PROVE  /\ SendsMic(pcs'[p].aud, tracks', Mics') /\ SendsSound(pcs'[p].aud, sound')
                    /\ SendsVideo(pcs'[p].vid, Views')
  BY DEF AllSent
<1>6. pcs'[p].aud = Unsounded(pcs[p].aud) /\ pcs'[p].vid = Replaced(pcs[p].vid, 0) /\ p \in DOMAIN pcs
  BY <1>4 DEF Sends
<1>7. SendsMic(pcs'[p].aud, tracks', Mics') /\ SendsSound(pcs'[p].aud, sound')
  BY <1>1, <1>3, <1>5, <1>6, MicStays
<1>8. SendsVideo(pcs'[p].vid, Views')
  <2> DEFINE vid == pcs[p].vid
             L == Len(tracks)
  <2>1. vid \in Seq(0..L) /\ L \in Nat /\ SendsVideo(vid, Views) BY <1>6, PcSends
  <2>2. pcs'[p].vid = Replaced(vid, 0) /\ {0} \ {0} = {} BY <1>6
  <2> HIDE DEF vid, L
  <2>3. CASE Views = {}
    <3>1. \A i \in DOMAIN vid : vid[i] = 0 BY <2>1, <2>3 DEF SendsVideo
    <3>2. Replaced(vid, 0) = vid BY <2>1, <3>1, ReplacedIs
    <3> QED BY <1>3, <2>1, <2>2, <2>3, <3>2
  <2>4. CASE Views # {}
    <3>1. PICK v \in Views : Views = {v} BY <1>2, <2>4 DEF Single
    <3>2. v \in Nat \ {0} BY StreamOf DEF Base
    <3>3. SendsVideo(Replaced(vid, 0), {0} \ {0}) BY <2>1, <3>1, <3>2, PictureTaken
    <3> QED BY <1>3, <2>2, <3>3
  <2> QED BY <2>3, <2>4
<1> QED BY <1>7, <1>8

LEMMA DisplayGetsSent ==
  ASSUME Base, Entire, AllSent, Spared({"late"})', NEW x \in waits, NEW got \in {"cancel", "picture", "sound"},
         DisplayGets(x, got)
  PROVE  AllSent'
<1> DEFINE L == Len(tracks)
<1>1. x.op = "display" /\ x.op \in Devices /\ UNCHANGED <<chan, local>> BY DEF DisplayGets, Devices
<1>2. Capturing' => Capturing BY <1>1 DEF Capturing, InCall
<1>3. CASE got = "cancel"
  <2>1. UNCHANGED <<tracks, pcs, sound>> BY <1>3 DEF DisplayGets
  <2>2. Mics' = Mics /\ Views' = Views BY <1>1, <2>1, StreamStays
  <2> QED BY <1>2, <2>1, <2>2, SentStays
<1>4. CASE got # "cancel"
  <2>1. got \in {"picture", "sound"} /\ Answered(x) \subseteq raced' BY <1>4 DEF DisplayGets, Races
  <2>2. x.stream = local /\ local # 0 BY <1>1, <2>1, AnswersCurrent
  <2>3. sound' = (IF got = "sound" THEN L + 2 ELSE sound)
    <3>1. L + 1 + 1 = L + 2 BY StreamOf DEF Base
    <3> QED BY <1>4, <2>2, <3>1 DEF DisplayGets
  <2>4. /\ DOMAIN pcs' = DOMAIN pcs
        /\ \A p \in DOMAIN pcs :
             Sends(pcs'[p], IF got = "sound" THEN Append(Unsounded(pcs[p].aud), L + 2) ELSE pcs[p].aud,
                            IF FirstOf(Views) # 0 THEN Replaced(pcs[p].vid, L + 1) ELSE Attached(pcs[p].vid, L + 1))
    BY <1>4, <2>2, DisplayGetsBase DEF Shown, Views
  <2>5. \A i \in 1..L : tracks'[i].kind = tracks[i].kind
    <3>1. Grown(DisplayEnds(got), DisplayAdds(got)) /\ TracksTyped BY DisplayRows DEF Base
    <3> QED BY <3>1, GrownKeeps
  <2> SUFFICES ASSUME Capturing', NEW p \in DOMAIN pcs'
               PROVE  /\ SendsMic(pcs'[p].aud, tracks', Mics') /\ SendsSound(pcs'[p].aud, sound')
                      /\ SendsVideo(pcs'[p].vid, Views')
    BY DEF AllSent
  <2>6. Capturing /\ p \in DOMAIN pcs BY <1>2, <2>4
  <2>7. Single(Views) /\ Views \in SUBSET (Nat \ {0}) BY <2>6, StreamOf DEF Entire, Base
  <2>8. Mics' = Mics /\ Views' = {L + 1} BY <2>1, <2>2, <2>7, DisplayGetsStream
  <2> DEFINE aud == pcs[p].aud
             vid == pcs[p].vid
  <2>9. /\ aud \in Seq(0..L) /\ vid \in Seq(0..L) /\ L \in Nat /\ sound \in Nat
        /\ SendsMic(aud, tracks, Mics) /\ SendsSound(aud, sound) /\ SendsVideo(vid, Views)
        /\ Len(aud) > 0 /\ aud[1] \in 1..L /\ aud[1] # sound
    BY <2>6, PcSends
  <2>10. /\ pcs'[p].aud = (IF got = "sound" THEN Append(Unsounded(aud), L + 2) ELSE aud)
         /\ pcs'[p].vid = (IF FirstOf(Views) # 0 THEN Replaced(vid, L + 1) ELSE Attached(vid, L + 1))
    BY <2>4, <2>6 DEF Sends
  <2>11. L + 1 \in Nat /\ L + 1 # 0 /\ L + 2 \in Nat BY <2>9
  <2> HIDE DEF aud, vid, L
  <2>12. SendsMic(pcs'[p].aud, tracks', Mics') /\ SendsSound(pcs'[p].aud, sound')
    <3>1. CASE got = "sound"
      <4>1. /\ Len(Append(Unsounded(aud), L + 2)) > 0 /\ Append(Unsounded(aud), L + 2)[1] = aud[1]
            /\ SendsSound(Append(Unsounded(aud), L + 2), L + 2)
        BY <2>9, <2>11, SoundTaken
      <4>2. SendsMic(Append(Unsounded(aud), L + 2), tracks', Mics') BY <2>5, <2>8, <2>9, <4>1 DEF SendsMic
      <4> QED BY <2>3, <2>10, <3>1, <4>1, <4>2
    <3>2. CASE got # "sound"
      <4>1. SendsMic(aud, tracks', Mics') BY <2>5, <2>8, <2>9 DEF SendsMic
      <4> QED BY <2>3, <2>9, <2>10, <3>2, <4>1
    <3> QED BY <3>1, <3>2
  <2>13. SendsVideo(pcs'[p].vid, Views')
    <3>1. CASE Views = {}
      <4>1. FirstOf(Views) = 0 BY <2>7, <3>1, OneFirst
      <4>2. SendsVideo(Attached(vid, L + 1), {L + 1}) BY <2>9, <2>11, <3>1, PictureAdded
      <4> QED BY <2>8, <2>10, <4>1, <4>2
    <3>2. CASE Views # {}
      <4>1. FirstOf(Views) # 0 BY <2>7, <3>2, OneFirst
      <4>2. PICK v \in Views : Views = {v} BY <2>7, <3>2 DEF Single
      <4>3. v \in Nat \ {0} BY <2>7
      <4>4. SendsVideo(Replaced(vid, L + 1), {L + 1} \ {0}) BY <2>9, <2>11, <4>2, <4>3, PictureTaken
      <4>5. {L + 1} \ {0} = {L + 1} BY <2>11
      <4> QED BY <2>8, <2>10, <4>1, <4>4, <4>5
    <3> QED BY <3>1, <3>2
  <2> QED BY <2>12, <2>13
<1> QED BY <1>3, <1>4

\* A peer who arrives is sent what the stream then has.
LEMMA OnVoiceStateSent ==
  ASSUME Base, Entire, AllSent, Spared({"newcomer"})', NEW others, OnVoiceState(others)
  PROVE  AllSent'
<1>1. UNCHANGED <<chan, local, sound, tracks>> BY DEF OnVoiceState, flags
<1>2. Mics' = Mics /\ Views' = Views /\ TracksTyped BY <1>1, StreamStays DEF Base
<1>3. /\ DOMAIN pcs' = others
      /\ \A p \in others \cap DOMAIN pcs : Sends(pcs'[p], pcs[p].aud, pcs[p].vid)
      /\ \A p \in others \ DOMAIN pcs : Sends(pcs'[p], CreatePC.aud, CreatePC.vid)
  BY OnVoiceStateBase
<1> SUFFICES ASSUME Capturing', NEW p \in DOMAIN pcs'
             PROVE  /\ SendsMic(pcs'[p].aud, tracks', Mics') /\ SendsSound(pcs'[p].aud, sound')
                    /\ SendsVideo(pcs'[p].vid, Views')
  BY DEF AllSent
<1>4. Capturing BY <1>1 DEF Capturing, InCall
<1>5. CASE p \in DOMAIN pcs
  <2>1. pcs'[p].aud = pcs[p].aud /\ pcs'[p].vid = pcs[p].vid BY <1>3, <1>5 DEF Sends
  <2>2. SendsMic(pcs[p].aud, tracks, Mics) /\ SendsSound(pcs[p].aud, sound) /\ SendsVideo(pcs[p].vid, Views)
    BY <1>4, <1>5 DEF AllSent
  <2> QED BY <1>1, <1>2, <2>1, <2>2
<1>6. CASE p \notin DOMAIN pcs
  <2>1. pcs'[p].aud = CreatePC.aud /\ pcs'[p].vid = CreatePC.vid BY <1>3, <1>6 DEF Sends
  <2>2. Waiting({"first", "restore"}) = {}
    <3>1. others \ DOMAIN pcs # {} BY <1>3, <1>6
    <3> QED BY <3>1 DEF OnVoiceState, RacesIf, Races, Spared
  <2>3. Mics # {} /\ Single(Mics) /\ Single(Views) BY <1>4, <2>2 DEF Entire, Awaits
  <2>4. /\ Mics \subseteq 1..Len(tracks) /\ Views \subseteq 1..Len(tracks)
        /\ \A i \in Mics : tracks[i].kind = "mic" /\ i # sound
    BY <1>2, StreamOf, MicsApart
  <2>5. PICK m \in Mics : Mics = {m} BY <2>3 DEF Single
  <2>6. CreatePC.aud = (IF sound # 0 THEN <<m, sound>> ELSE <<m>>)
    BY <1>2, <1>4, <2>4, <2>5, CreatedIs DEF Mics, Capturing
  <2>7. SendsMic(CreatePC.aud, tracks, Mics) /\ SendsSound(CreatePC.aud, sound)
    <3> DEFINE aud == CreatePC.aud
    <3>1. aud = (IF sound # 0 THEN <<m, sound>> ELSE <<m>>) BY <2>6
    <3> HIDE DEF aud
    <3>2. m # 0 /\ tracks[m].kind = "mic" BY <2>4, <2>5
    <3>3. ASSUME sound # 0 PROVE SendsMic(aud, tracks, Mics) /\ SendsSound(aud, sound)
      <4>1. Len(aud) = 2 /\ aud[1] = m /\ aud[2] = sound /\ DOMAIN aud = {1, 2} BY <3>1, <3>3
      <4> QED BY <2>5, <3>2, <3>3, <4>1 DEF SendsMic, SendsSound
    <3>4. ASSUME sound = 0 PROVE SendsMic(aud, tracks, Mics) /\ SendsSound(aud, sound)
      <4>1. Len(aud) = 1 /\ aud[1] = m /\ DOMAIN aud = {1} BY <3>1, <3>4
      <4> QED BY <2>5, <3>2, <3>4, <4>1 DEF SendsMic, SendsSound
    <3>5. SendsMic(aud, tracks, Mics) /\ SendsSound(aud, sound) BY <3>3, <3>4
    <3> QED BY <3>5 DEF aud
  <2>8. SendsVideo(CreatePC.vid, Views)
    <3> DEFINE vid == CreatePC.vid
    <3>1. CASE Views = {}
      <4>1. vid = <<>> BY <1>2, <3>1, CreatedIs DEF Views
      <4> HIDE DEF vid
      <4>2. DOMAIN vid = {} BY <4>1
      <4>3. SendsVideo(vid, Views) BY <3>1, <4>2 DEF SendsVideo
      <4> QED BY <4>3 DEF vid
    <3>2. CASE Views # {}
      <4>1. PICK v \in Views : Views = {v} BY <2>3, <3>2 DEF Single
      <4>2. vid = <<v>> BY <1>2, <2>4, <4>1, CreatedIs DEF Views
      <4> HIDE DEF vid
      <4>3. DOMAIN vid = {1} /\ vid[1] = v BY <4>2
      <4>4. SendsVideo(vid, Views) BY <4>1, <4>3 DEF SendsVideo
      <4> QED BY <4>4 DEF vid
    <3> QED BY <3>1, <3>2
  <2> QED BY <1>1, <1>2, <2>1, <2>7, <2>8
<1> QED BY <1>5, <1>6

LEMMA CameraSent ==
  ASSUME Base, Entire, AllSent, NEW on \in BOOLEAN, SetCameraEnabled(on)
  PROVE  AllSent'
<1>1. TracksTyped /\ Capturing /\ UNCHANGED <<chan, local, sound, pcs>> BY CameraCases DEF Base, net
<1>2. local # 0 BY <1>1 DEF Capturing
<1>3. ASSUME Mics' = Mics \/ Mics' = {}, Views' = Views, \A i \in 1..Len(tracks) : tracks'[i].kind = tracks[i].kind
      PROVE  AllSent'
  BY <1>1, <1>3, SentStays
<1>4. ASSUME UNCHANGED tracks PROVE AllSent'
  <2>1. Mics' = Mics /\ Views' = Views BY <1>1, <1>4, StreamStays
  <2> QED BY <1>3, <1>4, <2>1
<1>5. CASE Owned(local, Video) = {} /\ Grown({FirstOf(Owned(local, {"mic"}))} \ {0}, <<>>)
  <2> DEFINE S == {FirstOf(Mics)} \ {0}
             new == <<>>
  <2>1. Grown(S, new) /\ Views = {} BY <1>5 DEF Mics, Views
  <2>2. Mics = S
    <3>1. Mics \in SUBSET (Nat \ {0}) BY <1>1, StreamOf
    <3> QED BY <1>1, <3>1, OneFirst DEF Entire
  <2>3. Among(new, {"mic"}) = {} /\ Among(new, Video) = {} BY DEF Among
  <2> HIDE DEF S, new
  <2>4. Mics' = (Mics \ S) \cup Later(Among(new, {"mic"})) /\ Views' = (Views \ S) \cup Later(Among(new, Video))
    BY <1>1, <1>2, <2>1, StreamGrows
  <2>5. Mics' = {} /\ Views' = Views BY <2>1, <2>2, <2>3, <2>4 DEF Later
  <2>6. \A i \in 1..Len(tracks) : tracks'[i].kind = tracks[i].kind BY <1>1, <2>1, GrownKeeps
  <2> QED BY <1>3, <2>5, <2>6
<1>6. CASE Switched(Owned(local, Video), on)
  <2>1. Mics' = Mics /\ Views' = Views BY <1>1, <1>6, SwitchedOwned DEF Mics, Views
  <2>2. \A i \in 1..Len(tracks) : tracks'[i].kind = tracks[i].kind BY <1>1, <1>6, SwitchedRows
  <2> QED BY <1>3, <2>1, <2>2
<1> QED BY <1>4, <1>5, <1>6, CameraCases

LEMMA CaptureSent ==
  ASSUME Base, Silent, Whole, Sent, Capture
  PROVE  Sent'
<1> DEFINE K == {"joins", "rejoin", "late", "overlap", "deaf", "newcomer"}
<1> SUFFICES ASSUME Spared(K)' PROVE AllSent'
  BY DEF Sent
<1>1. Entire /\ AllSent /\ Obeys /\ TracksTyped BY RacedGrows DEF Whole, Silent, Sent, Spared, Base
<1>2. ASSUME ~Capturing' PROVE AllSent' BY <1>2 DEF AllSent
<1>3. ASSUME UNCHANGED <<chan, local, sound, tracks>>,
             \A p \in DOMAIN pcs' : p \in DOMAIN pcs /\ pcs'[p].aud = pcs[p].aud /\ pcs'[p].vid = pcs[p].vid
      PROVE  AllSent'
  <2>1. Mics' = Mics /\ Views' = Views BY <1>3, StreamStays
  <2>2. Capturing' => Capturing BY <1>3 DEF Capturing, InCall
  <2> QED BY <1>1, <1>3, <2>1, <2>2, SentStays
<1>4. ASSUME NEW op, NEW to, NEW video, HangUp(Wait(op, to, video)) PROVE AllSent'
  BY <1>2, <1>4 DEF HangUp, Capturing, InCall
<1>5. CASE Leave BY <1>4, <1>5 DEF Leave
<1>6. ASSUME NEW on \in BOOLEAN, SetCameraEnabled(on) PROVE AllSent' BY <1>1, <1>6, CameraSent
<1>7. CASE CameraClick
  <2>1. SetCameraEnabled(screen \/ ~camera) BY <1>7 DEF CameraClick
  <2>2. (screen \/ ~camera) \in BOOLEAN BY Zenon
  <2> QED BY <1>6, <2>1, <2>2
<1>8. CASE VideoFull BY <1>6, <1>8 DEF VideoFull
<1>9. CASE ShareClick
  <2>1. UNCHANGED <<chan, gen, local, muted, listen>> /\ Capturing BY <1>9, ShareClickBase
  <2>2. CASE ShareOff({}) /\ UNCHANGED waits BY <1>1, <2>1, <2>2, ShareOffSent
  <2>3. CASE UNCHANGED <<tracks, pcs, sound>> BY <1>3, <2>1, <2>3
  <2> QED BY <1>9, <2>2, <2>3, ShareClickBase
<1>10. ASSUME MonitorStarts \/ MonitorEnds \/ \E p \in DOMAIN pcs : Negotiated(p) \/ \E r \in Reports : MonitorSample(p, r)
       PROVE  AllSent'
  <2>1. Reshapes BY <1>10, Reshapers
  <2> QED BY <1>3, <2>1 DEF Reshapes, Sends, flags
<1>11. ASSUME NEW c \in Chan, NEW video \in BOOLEAN, JoinVoiceChannel(c, video) PROVE AllSent'
  <2>1. CASE InCall BY <1>4, <1>11, <2>1 DEF JoinVoiceChannel
  <2>2. CASE ~InCall
    <3>1. chan' = chan BY <1>11, <2>2 DEF JoinVoiceChannel
    <3> QED BY <1>2, <2>2, <3>1 DEF Capturing, InCall
  <2> QED BY <2>1, <2>2
<1>12. ASSUME NEW m \in BOOLEAN, SetVoiceMuted(m) PROVE AllSent'
  <2> DEFINE z == ~m
  <2>1. z \in BOOLEAN BY Zenon
  <2>2. Switched(Owned(local, {"mic"}), z) BY <1>12, MuteBase
  <2>3. UNCHANGED <<chan, local, sound, pcs>> BY <1>12 DEF SetVoiceMuted, net
  <2> HIDE DEF z
  <2>4. Mics' = Mics /\ Views' = Views BY <1>1, <2>1, <2>2, <2>3, SwitchedOwned DEF Mics, Views
  <2>5. \A i \in 1..Len(tracks) : tracks'[i].kind = tracks[i].kind BY <1>1, <2>1, <2>2, SwitchedRows
  <2>6. Capturing' => Capturing BY <2>3 DEF Capturing, InCall
  <2> QED BY <1>1, <2>3, <2>4, <2>5, <2>6, SentStays
<1>13. ASSUME NEW i \in DOMAIN tracks, ScreenEnds(i) PROVE AllSent'
  <2>1. UNCHANGED <<chan, gen, local, muted, listen, waits>> /\ tracks[i].kind = "screen" BY <1>13, ScreenEndsBase
  <2>2. CASE Capturing /\ ShareOff({i})
    <3>1. \A j \in {i} : j \in 1..Len(tracks) /\ tracks[j].kind = "screen" BY <1>1, <2>1 DEF TracksTyped
    <3> QED BY <1>1, <2>1, <2>2, <3>1, ShareOffSent
  <2>3. CASE ~Capturing
    <3>1. ~Capturing' BY <2>1, <2>3 DEF Capturing, InCall
    <3> QED BY <1>2, <3>1
  <2> QED BY <1>13, <2>2, <2>3, ScreenEndsBase
<1>14. ASSUME NEW S \in SUBSET Peer, OnVoiceState(S) PROVE AllSent'
  <2>1. Spared({"newcomer"})' BY DEF Spared
  <2> QED BY <1>1, <1>14, <2>1, OnVoiceStateSent
<1>15. ASSUME NEW x \in waits, ToneEnds(x) PROVE AllSent'
  <2>1. chan' = chan /\ pcs' = pcs BY <1>15 DEF ToneEnds, net
  <2>2. CASE ~InCall BY <1>2, <2>1, <2>2 DEF Capturing, InCall
  <2>3. CASE InCall
    <3>1. UNCHANGED <<local, sound>> /\ Mics' = Mics /\ Views' = Views BY <1>15, <2>3, ToneEndsStream
    <3>2. Capturing' => Capturing BY <2>1, <3>1 DEF Capturing, InCall
    <3>3. \A i \in 1..Len(tracks) : tracks'[i].kind = tracks[i].kind
      <4>1. Grown(StoppedBy(x), <<>>) BY <1>15, ToneEndsRows
      <4> QED BY <1>1, <4>1, GrownKeeps
    <3> QED BY <1>1, <2>1, <3>1, <3>2, <3>3, SentStays
  <2> QED BY <2>2, <2>3
<1>16. ASSUME NEW x \in waits, FirstFails(x) PROVE AllSent'
  <2>1. UNCHANGED <<chan, local, flags, tracks, pcs>> BY <1>16, FirstFailsBase
  <2> QED BY <1>3, <2>1 DEF flags
<1>17. ASSUME NEW x \in waits, NEW got \in {"both", "mic", "none"}, JoinGets(x, got) PROVE AllSent'
  <2>1. ~InCall /\ pcs' = pcs BY <1>17 DEF JoinGets, Races, Spared
  <2>2. DOMAIN pcs' = {} BY <1>1, <2>1 DEF Obeys
  <2> QED BY <2>2 DEF AllSent
<1>18. ASSUME NEW x \in waits,
              \/ FirstGets(x)
              \/ \E ok \in BOOLEAN : RestoreGets(x, ok) \/ SwitchGets(x, ok)
              \/ \E got \in {"cancel", "picture", "sound"} : DisplayGets(x, got)
       PROVE  AllSent'
  <2>1. Spared({"late", "deaf"})' /\ Spared({"late"})' BY DEF Spared
  <2> QED BY <1>1, <1>18, <2>1, FirstGetsSent, RestoreGetsSent, SwitchGetsSent, DisplayGetsSent
<1> QED BY <1>5, <1>7, <1>8, <1>9, <1>10, <1>11, <1>12, <1>13, <1>14, <1>15, <1>16, <1>17, <1>18 DEF Capture

LEMMA SentIsStream ==
  ASSUME Base, Whole, Sent
  PROVE  PeersGetStream
<1> SUFFICES ASSUME waits = {}, Capturing, Spared({"joins", "rejoin", "late", "overlap", "deaf", "newcomer"}),
                    NEW p \in DOMAIN pcs
             PROVE  Hears(p) = Mics \cup ({sound} \ {0}) /\ Sees(p) = Views
  BY DEF PeersGetStream, Mics, Views
<1>1. Entire /\ AllSent BY DEF Whole, Sent, Spared
<1>2. Mics # {} /\ Single(Mics) BY <1>1 DEF Entire, Awaits, Waiting
<1> DEFINE aud == pcs[p].aud
           vid == pcs[p].vid
<1>3. /\ aud \in Seq(0..Len(tracks)) /\ vid \in Seq(0..Len(tracks))
      /\ SendsMic(aud, tracks, Mics) /\ SendsSound(aud, sound) /\ SendsVideo(vid, Views)
  BY <1>1, PcSends
<1>4. Hears(p) = {t \in Range(aud) : t # 0} /\ Sees(p) = {t \in Range(vid) : t # 0} BY DEF Hears, Sees
<1>5. Views \subseteq Nat \ {0} /\ Mics \subseteq Nat \ {0} BY StreamOf DEF Base
<1> HIDE DEF aud, vid
<1>6. Mics = {aud[1]} /\ 1 \in DOMAIN aud BY <1>2, <1>3 DEF SendsMic, Single
<1>7. \A t : t \in Hears(p) <=> t \in Mics \cup ({sound} \ {0})
  BY <1>3, <1>4, <1>5, <1>6 DEF SendsSound, Range
<1>8. \A t : t \in Sees(p) <=> t \in Views
  <2>1. \A t : t \in Sees(p) <=> t # 0 /\ \E i \in DOMAIN vid : vid[i] = t BY <1>4 DEF Range
  <2>2. \A i \in DOMAIN vid : vid[i] # 0 => vid[i] \in Views BY <1>3 DEF SendsVideo
  <2>3. \A v \in Views : v # 0 /\ \E i \in DOMAIN vid : vid[i] = v BY <1>3, <1>5 DEF SendsVideo
  <2> QED BY <2>1, <2>2, <2>3
<1> QED BY <1>7, <1>8

-----------------------------------------------------------------------------
(* What the server was told.                                               *)

\* One join at a time, and none in a call.
Joins == {"join", "leaving"}
Alone == (InCall => Waiting(Joins) = {}) /\ Single(Waiting(Joins))
JoinsAlone == Spared({"joins"}) => Alone

\* The last voice.mute and the flags it was made of say what the stream holds, and
\* a join that waits still asks for what the flags say.
ViewOn == \E i \in Views : tracks[i].on
Asked == \A x \in Waiting({"join"}) : x.video = camera /\ ~listen
Told == posture = [chan |-> chan, muted |-> muted \/ listen, video |-> camera, sharing |-> screen]
Shows == (listen <=> local = 0) /\ (camera <=> ViewOn) /\ (screen <=> Screens # {})
Telling == Asked /\ (InCall => Told /\ Shows)
Announced == Spared({"joins", "early", "rejoin", "late", "left", "overlap", "deaf"}) => Telling

LEMMA AloneStays ==
  ASSUME Alone, chan' = chan, Waiting(Joins)' = Waiting(Joins)
  PROVE  Alone'
  BY DEF Alone, Single, InCall

LEMMA AddsWait ==
  ASSUME NEW op, NEW to, NEW video, NEW ops, op \in ops, waits' = waits \cup {Wait(op, to, video)}
  PROVE  /\ Waiting(ops)' = Waiting(ops) \cup {Wait(op, to, video)}
         /\ Wait(op, to, video).op = op /\ Wait(op, to, video).video = video
<1> DEFINE y == Wait(op, to, video)
<1>1. y.op = op /\ y.video = video BY DEF Wait
<1>2. waits' = waits \cup {y} OBVIOUS
<1> HIDE DEF y
<1>3. Waiting(ops)' = Waiting(ops) \cup {y} BY <1>1, <1>2 DEF Waiting
<1> QED BY <1>1, <1>3 DEF y

LEMMA AddsOther ==
  ASSUME NEW op, NEW to, NEW video, NEW ops, op \notin ops, waits' = waits \cup {Wait(op, to, video)}
  PROVE  Waiting(ops)' = Waiting(ops)
<1> DEFINE y == Wait(op, to, video)
<1>1. y.op = op BY DEF Wait
<1>2. waits' = waits \cup {y} OBVIOUS
<1> HIDE DEF y
<1> QED BY <1>1, <1>2 DEF Waiting

\* Who waits to join, after an operation that neither joins nor leaves.
Toggles ==
  \/ CameraClick \/ VideoFull \/ ShareClick \/ \E m \in BOOLEAN : SetVoiceMuted(m)
  \/ \E i \in DOMAIN tracks : ScreenEnds(i)
  \/ MonitorStarts \/ MonitorEnds \/ \E p \in DOMAIN pcs : Negotiated(p) \/ \E r \in Reports : MonitorSample(p, r)
  \/ \E S \in SUBSET Peer : OnVoiceState(S)
Answers(x) ==
  \/ FirstGets(x)
  \/ \E ok \in BOOLEAN : RestoreGets(x, ok) \/ SwitchGets(x, ok)
  \/ \E got \in {"cancel", "picture", "sound"} : DisplayGets(x, got)

LEMMA JoinsWait ==
  ASSUME Base, Toggles \/ \E x \in waits : Answers(x) \/ FirstFails(x)
  PROVE  chan' = chan /\ Waiting(Joins)' = Waiting(Joins) /\ Waiting({"join"})' = Waiting({"join"})
<1>1. ASSUME UNCHANGED waits PROVE Waiting(Joins)' = Waiting(Joins) /\ Waiting({"join"})' = Waiting({"join"})
  BY <1>1 DEF Waiting
<1>2. ASSUME NEW op \in Devices, waits' = waits \cup {Wait(op, None, FALSE)}
      PROVE  Waiting(Joins)' = Waiting(Joins) /\ Waiting({"join"})' = Waiting({"join"})
  <2>1. op \notin Joins /\ op \notin {"join"} BY DEF Devices, Joins
  <2> QED BY <1>2, <2>1, AddsOther
<1>3. ASSUME NEW x \in waits, x.op \in Devices, waits' = waits \ {x}
      PROVE  Waiting(Joins)' = Waiting(Joins) /\ Waiting({"join"})' = Waiting({"join"})
  BY <1>3 DEF Waiting, Joins, Devices
<1>4. ASSUME NEW on \in BOOLEAN, SetCameraEnabled(on)
      PROVE  chan' = chan /\ Waiting(Joins)' = Waiting(Joins) /\ Waiting({"join"})' = Waiting({"join"})
  <2>1. chan' = chan BY <1>4, CameraCases
  <2>2. UNCHANGED waits \/ waits' = waits \cup {Wait("switch", None, FALSE)} \/ waits' = waits \cup {Wait("first", None, FALSE)}
    BY <1>4, CameraCases
  <2> QED BY <1>1, <1>2, <2>1, <2>2 DEF Devices
<1>5. CASE CameraClick
  <2>1. SetCameraEnabled(screen \/ ~camera) BY <1>5 DEF CameraClick
  <2>2. (screen \/ ~camera) \in BOOLEAN BY Zenon
  <2> QED BY <1>4, <2>1, <2>2
<1>6. CASE VideoFull BY <1>4, <1>6 DEF VideoFull
<1>7. CASE ShareClick
  <2>1. chan' = chan /\ (UNCHANGED waits \/ waits' = waits \cup {Wait("display", None, FALSE)}) BY <1>7, ShareClickBase
  <2> QED BY <1>1, <1>2, <2>1 DEF Devices
<1>8. ASSUME \/ \E m \in BOOLEAN : SetVoiceMuted(m)
             \/ \E i \in DOMAIN tracks : ScreenEnds(i)
             \/ \E S \in SUBSET Peer : OnVoiceState(S)
      PROVE  UNCHANGED <<chan, waits>>
  BY <1>8 DEF SetVoiceMuted, ScreenEnds, OnVoiceState
<1>9. ASSUME MonitorStarts \/ MonitorEnds \/ \E p \in DOMAIN pcs : Negotiated(p) \/ \E r \in Reports : MonitorSample(p, r)
      PROVE  UNCHANGED <<chan, waits>>
  BY <1>9, Reshapers DEF Reshapes
<1>10. ASSUME NEW x \in waits, Answers(x) PROVE chan' = chan /\ x.op \in Devices /\ waits' = waits \ {x}
  BY <1>10 DEF Answers, FirstGets, RestoreGets, SwitchGets, DisplayGets, Devices
<1>11. ASSUME NEW x \in waits, FirstFails(x)
       PROVE  chan' = chan /\ Waiting(Joins)' = Waiting(Joins) /\ Waiting({"join"})' = Waiting({"join"})
  <2>1. PICK y : y.op = "restore" /\ waits' = (waits \ {x}) \cup {y} /\ x.op = "first" BY <1>11, FirstFailsBase
  <2>2. chan' = chan BY <1>11, FirstFailsBase
  <2> QED BY <2>1, <2>2 DEF Waiting, Joins
<1> QED BY <1>1, <1>3, <1>5, <1>6, <1>7, <1>8, <1>9, <1>10, <1>11 DEF Toggles

LEMMA CaptureAlone ==
  ASSUME Base, JoinsAlone, Capture
  PROVE  JoinsAlone'
<1> SUFFICES ASSUME Spared({"joins"})' PROVE Alone'
  BY DEF JoinsAlone
<1>1. Alone BY RacedGrows DEF JoinsAlone, Spared
<1>2. CASE Toggles \/ \E x \in waits : Answers(x) \/ FirstFails(x) BY <1>1, <1>2, JoinsWait, AloneStays
<1>3. CASE Leave
  <2>1. chan' = None /\ waits' = waits \cup {Wait("tone", None, FALSE)} BY <1>3 DEF Leave, HangUp
  <2>a. "tone" \notin Joins BY DEF Joins
  <2>2. Waiting(Joins)' = Waiting(Joins) BY <2>a, <2>1, AddsOther
  <2> QED BY <1>1, <2>1, <2>2 DEF Alone, InCall, Single
<1>4. ASSUME NEW c \in Chan, NEW video \in BOOLEAN, JoinVoiceChannel(c, video) PROVE Alone'
  <2>1. CASE InCall
    <3>1. chan' = None /\ waits' = waits \cup {Wait("leaving", c, video)} BY <1>4, <2>1 DEF JoinVoiceChannel, HangUp
    <3>2. Waiting(Joins)' = Waiting(Joins) \cup {Wait("leaving", c, video)} BY <3>1, AddsWait DEF Joins
    <3> QED BY <1>1, <2>1, <3>1, <3>2 DEF Alone, InCall, Single
  <2>2. CASE ~InCall
    <3>1. chan' = chan /\ waits' = waits \cup {Wait("join", c, video)} BY <1>4, <2>2 DEF JoinVoiceChannel
    <3>2. Waiting(Joins)' = Waiting(Joins) \cup {Wait("join", c, video)} BY <3>1, AddsWait DEF Joins
    <3>3. Waiting(Joins) = {} BY <1>4, <2>2 DEF JoinVoiceChannel, RacesIf, Races, Spared, Joins
    <3> QED BY <2>2, <3>1, <3>2, <3>3 DEF Alone, InCall, Single
  <2> QED BY <2>1, <2>2
<1>5. ASSUME NEW x \in waits, ToneEnds(x) PROVE Alone'
  <2>1. chan' = chan /\ x.op \in Tones BY <1>5 DEF ToneEnds, Tones
  <2>2. CASE x.op = "leaving"
    <3>1. x \in Waiting(Joins) BY <2>2 DEF Waiting, Joins
    <3>2. Waiting(Joins) = {x} /\ ~InCall BY <1>1, <3>1 DEF Alone, Single
    <3> DEFINE y == [x EXCEPT !.op = "join"]
    <3>3. waits' = (waits \ {x}) \cup {y} BY <1>5, <2>2 DEF ToneEnds
    <3> HIDE DEF y
    <3>4. Waiting(Joins)' \subseteq {y} BY <3>2, <3>3 DEF Waiting
    <3> QED BY <2>1, <3>2, <3>4 DEF Alone, InCall, Single
  <2>3. CASE x.op = "tone"
    <3>1. waits' = waits \ {x} BY <1>5, <2>3 DEF ToneEnds
    <3>2. Waiting(Joins)' = Waiting(Joins) BY <2>3, <3>1 DEF Waiting, Joins
    <3> QED BY <1>1, <2>1, <3>2, AloneStays
  <2> QED BY <2>1, <2>2, <2>3 DEF Tones
<1>6. ASSUME NEW x \in waits, NEW got \in {"both", "mic", "none"}, JoinGets(x, got) PROVE Alone'
  <2>1. x.op = "join" /\ waits' = waits \ {x} BY <1>6 DEF JoinGets
  <2>2. x \in Waiting(Joins) BY <2>1 DEF Waiting, Joins
  <2>3. Waiting(Joins) = {x} BY <1>1, <2>2 DEF Alone, Single
  <2>4. Waiting(Joins)' = {} BY <2>1, <2>3 DEF Waiting
  <2> QED BY <2>4 DEF Alone, Single
<1> QED BY <1>2, <1>3, <1>4, <1>5, <1>6 DEF Capture, Toggles, Answers

LEMMA TellingStays ==
  ASSUME Base, Telling, UNCHANGED <<chan, local, posture>>, muted' = muted, listen' = listen, camera' = camera,
         screen' = screen, Views' = Views, Screens' = Screens, \A i \in Views : tracks'[i].on = tracks[i].on,
         Waiting({"join"})' = Waiting({"join"})
  PROVE  Telling'
<1>1. ViewOn' <=> ViewOn BY DEF ViewOn
<1>2. Asked' BY DEF Telling, Asked
<1>3. InCall => Told' /\ Shows' BY <1>1 DEF Telling, Told, Shows
<1> QED BY <1>2, <1>3 DEF Telling, InCall

LEMMA ToldAnew ==
  ASSUME InCall, UNCHANGED <<chan, local>>, Telling, listen' = listen, Waiting({"join"})' = {},
         posture' = Announce(muted', camera', screen', listen), camera' <=> ViewOn', screen' <=> Screens' # {}
  PROVE  Telling'
<1>1. Asked' BY DEF Asked
<1>2. Told' BY DEF Told, Announce
<1>3. Shows' BY DEF Telling, Shows
<1> QED BY <1>1, <1>2, <1>3 DEF Telling

LEMMA CameraTold ==
  ASSUME Base, Entire, Telling, NEW on \in BOOLEAN, SetCameraEnabled(on), ~Overlaps, Alone,
         Waiting({"join"})' = Waiting({"join"})
  PROVE  Telling'
<1>1. /\ TracksTyped /\ Capturing /\ InCall /\ local # 0
      /\ UNCHANGED <<chan, local, muted, screen, listen>>
  BY CameraCases DEF Base, Capturing
<1>2. Waiting({"join"})' = {} BY <1>1 DEF Alone, Waiting, Joins
<1>3. CASE UNCHANGED <<tracks, camera, posture>>
  <2>1. Views' = Views /\ Screens' = Screens BY <1>1, <1>3, StreamStays
  <2> QED BY <1>1, <1>3, <2>1, TellingStays
<1>4. CASE /\ Owned(local, Video) = {}
           /\ Grown({FirstOf(Owned(local, {"mic"}))} \ {0}, <<>>) /\ UNCHANGED <<camera, posture>>
  <2> DEFINE S == {FirstOf(Mics)} \ {0}
             new == <<>>
  <2>1. Grown(S, new) /\ Views = {} BY <1>4 DEF Mics, Views
  <2>2. Among(new, Video) = {} /\ Among(new, {"screen"}) = {} BY DEF Among
  <2> HIDE DEF S, new
  <2>3. Views' = (Views \ S) \cup Later(Among(new, Video)) /\ Screens' = (Screens \ S) \cup Later(Among(new, {"screen"}))
    BY <1>1, <2>1, StreamGrows
  <2>4. Screens = {} BY <1>1, <2>1, StreamOf
  <2>5. Views' = Views /\ Screens' = Screens BY <2>1, <2>2, <2>3, <2>4 DEF Later
  <2> QED BY <1>1, <1>4, <2>1, <2>5, TellingStays
<1>5. CASE /\ Owned(local, Video) # {} /\ Switched(Owned(local, Video), on) /\ camera' = on
           /\ posture' = Announce(muted, on, screen, listen)
  <2>1. Views' = Views /\ Screens' = Screens BY <1>1, <1>5, SwitchedOwned DEF Views, Screens
  <2>2. \A i \in Views : tracks'[i].on = on BY <1>1, <1>5, SwitchedRows, StreamOf DEF Views
  <2>3. Views # {} BY <1>5 DEF Views
  <2>4. camera' <=> ViewOn' BY <1>5, <2>1, <2>2, <2>3 DEF ViewOn
  <2>5. screen' <=> Screens' # {} BY <1>1, <2>1 DEF Telling, Shows
  <2>6. posture' = Announce(muted', camera', screen', listen) BY <1>1, <1>5
  <2> QED BY <1>1, <1>2, <2>4, <2>5, <2>6, ToldAnew
<1>6. CASE posture' = Announce(muted, camera, screen, listen) /\ UNCHANGED <<tracks, camera>>
  <2>1. Views' = Views /\ Screens' = Screens BY <1>1, <1>6, StreamStays
  <2>2. (camera <=> ViewOn) /\ (screen <=> Screens # {}) BY <1>1 DEF Telling, Shows
  <2>3. ViewOn' <=> ViewOn BY <1>6, <2>1 DEF ViewOn
  <2>4. posture' = Announce(muted', camera', screen', listen) BY <1>1, <1>6
  <2> QED BY <1>1, <1>2, <1>6, <2>1, <2>2, <2>3, <2>4, ToldAnew
<1> QED BY <1>3, <1>4, <1>5, <1>6, CameraCases

LEMMA ShareOffTold ==
  ASSUME Base, Entire, Telling, NEW E, ShareOff(E), UNCHANGED <<chan, gen, local, muted, listen, waits>>, Capturing, Alone,
         \A i \in E : i \in 1..Len(tracks) /\ tracks[i].kind = "screen"
  PROVE  Telling'
<1>1. local # 0 /\ InCall /\ Single(Views) BY DEF Capturing, Entire
<1>2. Waiting({"join"})' = {} BY <1>1 DEF Alone, Waiting, Joins
<1>3. Views' = {} /\ Screens' = {} BY <1>1, ShareOffStream
<1>4. screen' = FALSE /\ camera' = FALSE /\ posture' = Announce(muted, FALSE, FALSE, listen) BY DEF ShareOff
<1>5. posture' = Announce(muted', camera', screen', listen) BY <1>4
<1>6. ~ViewOn' BY <1>3 DEF ViewOn
<1> QED BY <1>1, <1>2, <1>3, <1>4, <1>5, <1>6, ToldAnew

LEMMA MuteTold ==
  ASSUME Base, Telling, Alone, NEW m \in BOOLEAN, SetVoiceMuted(m)
  PROVE  Telling'
<1> DEFINE z == ~m
<1>1. z \in BOOLEAN BY Zenon
<1>2. Switched(Owned(local, {"mic"}), z) /\ TracksTyped BY MuteBase DEF Base
<1>3. /\ UNCHANGED <<chan, local, camera, screen, listen, waits>> /\ muted' = m
      /\ posture' = Announce(m, camera, screen, listen)
  BY DEF SetVoiceMuted
<1> HIDE DEF z
<1>4. Views' = Views /\ Screens' = Screens BY <1>1, <1>2, <1>3, SwitchedOwned DEF Views, Screens
<1>5. \A i \in Views : i \in 1..Len(tracks) /\ i \notin Mics BY <1>2, StreamOf, MicsApart
<1>6. \A i \in Views : tracks'[i].on = tracks[i].on BY <1>1, <1>2, <1>5, SwitchedRows DEF Mics
<1>7. ViewOn' <=> ViewOn BY <1>4, <1>6 DEF ViewOn
<1>8. CASE InCall
  <2>1. Waiting({"join"})' = {} BY <1>3, <1>8 DEF Alone, Waiting, Joins
  <2>2. (camera <=> ViewOn) /\ (screen <=> Screens # {}) BY <1>8 DEF Telling, Shows
  <2>3. posture' = Announce(muted', camera', screen', listen) BY <1>3
  <2> QED BY <1>3, <1>4, <1>7, <1>8, <2>1, <2>2, <2>3, ToldAnew
<1>9. CASE ~InCall BY <1>3, <1>9 DEF Telling, Asked, InCall, Waiting
<1> QED BY <1>8, <1>9

\* An answer in the call of the stream that asked.
LEMMA AnswersInCall ==
  ASSUME Base, NEW x \in waits, x.op \in Devices, Spared({"late", "left"})', Answered(x) \subseteq raced'
  PROVE  x.stream = local /\ local # 0 /\ InCall
<1>1. x.stream # 0 BY DEF Base, WaitsTyped, WellWait
<1> QED BY <1>1 DEF Answered, Spared

LEMMA AnswersTold ==
  ASSUME Base, Entire, Telling, Alone, Spared({"late", "left", "deaf"})', NEW x \in waits, Answers(x)
  PROVE  Telling'
<1> DEFINE L == Len(tracks)
<1>1. TracksTyped /\ Spared({"late", "left"})' /\ L \in Nat BY StreamOf DEF Base, Spared
<1>2. UNCHANGED <<chan, local>> /\ muted' = muted /\ listen' = listen /\ x.op \in Devices
  BY DEF Answers, FirstGets, RestoreGets, SwitchGets, DisplayGets, flags, Devices
<1>3. Waiting({"join"})' = Waiting({"join"}) BY JoinsWait
<1>4. InCall => Waiting({"join"})' = {} BY <1>3 DEF Alone, Waiting, Joins
<1>5. Telling /\ InCall => (screen <=> Screens # {}) BY DEF Telling, Shows
<1>6. ASSUME UNCHANGED <<tracks, posture>>, camera' = camera, screen' = screen PROVE Telling'
  <2>1. Views' = Views /\ Screens' = Screens BY <1>2, <1>6, StreamStays
  <2> QED BY <1>2, <1>3, <1>6, <2>1, TellingStays
<1>7. CASE FirstGets(x)
  <2>1. Answered(x) \subseteq raced' BY <1>7 DEF FirstGets, Races
  <2>2. x.stream = local /\ local # 0 /\ InCall BY <1>1, <1>2, <2>1, AnswersInCall
  <2>3. camera' = TRUE /\ posture' = Announce(muted, TRUE, screen, listen) /\ screen' = screen
    BY <1>7, <2>2 DEF FirstGets
  <2>4. Views' = Views \cup {L + 2} /\ Screens' = Screens /\ tracks'[L + 2].on = TRUE BY <1>7, <2>2, FirstGetsStream
  <2>5. ViewOn' BY <2>4 DEF ViewOn
  <2>6. posture' = Announce(muted', camera', screen', listen) BY <1>2, <2>3
  <2>7. screen' <=> Screens' # {} BY <1>5, <2>2, <2>3, <2>4
  <2> QED BY <1>2, <1>4, <2>2, <2>3, <2>5, <2>6, <2>7, ToldAnew
<1>8. ASSUME NEW ok \in BOOLEAN, RestoreGets(x, ok) PROVE Telling'
  <2>1. ok = TRUE /\ Answered(x) \subseteq raced' BY <1>8 DEF RestoreGets, Races, Spared
  <2>2. x.stream = local /\ local # 0 /\ InCall BY <1>1, <1>2, <2>1, AnswersInCall
  <2>3. camera' = camera /\ posture' = posture /\ screen' = screen BY <1>8 DEF RestoreGets, flags
  <2>4. Views' = Views /\ Screens' = Screens BY <1>8, <2>1, <2>2, RestoreGetsStream
  <2>5. \A i \in Views : tracks'[i].on = tracks[i].on
    <3>1. Grown({}, RestoreAdds(ok)) BY <1>8, RestoreGetsBase
    <3> QED BY <1>1, <3>1, GrownKeeps, StreamOf
  <2> QED BY <1>2, <1>3, <2>3, <2>4, <2>5, TellingStays
<1>9. ASSUME NEW ok \in BOOLEAN, SwitchGets(x, ok) PROVE Telling'
  <2>1. CASE ~ok
    <3>1. UNCHANGED <<tracks, posture>> /\ camera' = camera /\ screen' = screen BY <1>9, <2>1 DEF SwitchGets
    <3> QED BY <1>6, <3>1
  <2>2. CASE ok
    <3>1. ok = TRUE /\ Answered(x) \subseteq raced' BY <1>9, <2>2 DEF SwitchGets, Races
    <3>2. x.stream = local /\ local # 0 /\ InCall BY <1>1, <1>2, <3>1, AnswersInCall
    <3>3. camera' = TRUE /\ screen' = FALSE /\ posture' = Announce(muted, TRUE, FALSE, listen)
      BY <1>9, <2>2, <3>2 DEF SwitchGets
    <3>4. Views' = {L + 1} /\ Screens' = {} /\ tracks'[L + 1].on = TRUE
      <4>1. Single(Views) BY <3>2 DEF Entire, Capturing
      <4> QED BY <1>9, <3>1, <3>2, <4>1, SwitchGetsStream
    <3>5. ViewOn' BY <3>4 DEF ViewOn
    <3>6. posture' = Announce(muted', camera', screen', listen) BY <1>2, <3>3
    <3> QED BY <1>2, <1>4, <3>2, <3>3, <3>4, <3>5, <3>6, ToldAnew
  <2> QED BY <2>1, <2>2
<1>10. ASSUME NEW got \in {"cancel", "picture", "sound"}, DisplayGets(x, got) PROVE Telling'
  <2>1. CASE got = "cancel"
    <3>1. UNCHANGED <<tracks, posture>> /\ camera' = camera /\ screen' = screen BY <1>10, <2>1 DEF DisplayGets
    <3> QED BY <1>6, <3>1
  <2>2. CASE got # "cancel"
    <3>1. got \in {"picture", "sound"} /\ Answered(x) \subseteq raced' BY <1>10, <2>2 DEF DisplayGets, Races
    <3>2. x.stream = local /\ local # 0 /\ InCall BY <1>1, <1>2, <3>1, AnswersInCall
    <3>3. camera' = TRUE /\ screen' = TRUE /\ posture' = Announce(muted, TRUE, TRUE, listen)
      BY <1>10, <2>2, <3>2 DEF DisplayGets
    <3>4. Views' = {L + 1} /\ Screens' = {L + 1} /\ tracks'[L + 1].on = TRUE
      <4>1. Single(Views) BY <3>2 DEF Entire, Capturing
      <4> QED BY <1>10, <3>1, <3>2, <4>1, DisplayGetsStream
    <3>5. ViewOn' BY <3>4 DEF ViewOn
    <3>6. posture' = Announce(muted', camera', screen', listen) BY <1>2, <3>3
    <3> QED BY <1>2, <1>4, <3>2, <3>3, <3>4, <3>5, <3>6, ToldAnew
  <2> QED BY <2>1, <2>2
<1> QED BY <1>7, <1>8, <1>9, <1>10 DEF Answers

LEMMA ToneEndsTold ==
  ASSUME Base, Telling, Alone, NEW x \in waits, ToneEnds(x), Spared({"early"})'
  PROVE  Telling'
<1>1. x.op \in Tones /\ chan' = chan /\ muted' = muted /\ posture' = posture BY DEF ToneEnds, Tones
<1>2. CASE InCall
  <2>1. x.gen # gen /\ local' = local /\ screen' = screen /\ Views' = Views /\ Screens' = Screens
    BY <1>2, ToneEndsStream
  <2>2. x.op = "tone"
    <3>1. x \notin Waiting(Joins) BY <1>2 DEF Alone
    <3> QED BY <1>1, <3>1 DEF Waiting, Joins, Tones
  <2>3. waits' = waits \ {x} BY <2>2 DEF ToneEnds
  <2>4. camera' = camera /\ listen' = listen
    <3>1. camera \in BOOLEAN /\ listen \in BOOLEAN BY DEF Base, FlagsTyped
    <3>2. ~(x.gen = gen) /\ ~(x.op = "leaving") BY <2>1, <2>2
    <3>3. camera' = (camera /\ ~(x.gen = gen)) /\ listen' = (listen /\ ~(x.gen = gen) /\ ~(x.op = "leaving"))
      BY <3>2 DEF ToneEnds
    <3> QED BY <3>1, <3>2, <3>3
  <2>5. Waiting({"join"})' = Waiting({"join"}) BY <2>2, <2>3 DEF Waiting
  <2>6. \A i \in Views : tracks'[i].on = tracks[i].on
    <3>1. Grown(StoppedBy(x), <<>>) /\ TracksTyped BY ToneEndsRows DEF Base
    <3> QED BY <3>1, GrownKeeps, StreamOf
  <2> QED BY <1>1, <2>1, <2>4, <2>5, <2>6, TellingStays
<1>3. CASE ~InCall
  <2>1. CASE x.op = "leaving"
    <3> DEFINE y == [x EXCEPT !.op = "join"]
    <3>1. y.video = x.video BY <2>1
    <3>2. waits' = (waits \ {x}) \cup {y} BY <2>1 DEF ToneEnds
    <3> HIDE DEF y
    <3>3. x \in Waiting(Joins) /\ \A w \in Waiting({"join"}) : w \in Waiting(Joins) BY <2>1 DEF Waiting, Joins
    <3>4. \A w \in Waiting({"join"}) : w = x BY <3>3 DEF Alone, Single
    <3>5. \A w \in Waiting({"join"})' : w = y BY <3>2, <3>4 DEF Waiting
    <3>6. camera' = x.video /\ ~listen' BY <2>1 DEF ToneEnds
    <3> QED BY <1>1, <1>3, <3>1, <3>5, <3>6 DEF Telling, Asked, InCall
  <2>2. CASE x.op = "tone"
    <3>1. waits' = waits \ {x} BY <2>2 DEF ToneEnds
    <3>2. Waiting({"join"})' = Waiting({"join"}) BY <2>2, <3>1 DEF Waiting
    <3>3. CASE x.gen = gen
      <4>1. Waiting({"join"}) = {} BY <3>3 DEF ToneEnds, Races, Spared
      <4> QED BY <1>1, <1>3, <3>2, <4>1 DEF Telling, Asked, InCall
    <3>4. CASE x.gen # gen
      <4>1. camera \in BOOLEAN /\ listen \in BOOLEAN BY DEF Base, FlagsTyped
      <4>2. ~(x.gen = gen) /\ ~(x.op = "leaving") BY <2>2, <3>4
      <4>3. camera' = (camera /\ ~(x.gen = gen)) /\ listen' = (listen /\ ~(x.gen = gen) /\ ~(x.op = "leaving"))
        BY <4>2 DEF ToneEnds
      <4>4. camera' = camera /\ listen' = listen BY <4>1, <4>2, <4>3
      <4> QED BY <1>1, <1>3, <3>2, <4>4 DEF Telling, Asked, InCall
    <3> QED BY <3>3, <3>4
  <2> QED BY <1>1, <2>1, <2>2 DEF Tones
<1> QED BY <1>2, <1>3

LEMMA JoinGetsTold ==
  ASSUME Base, Telling, Alone, NEW x \in waits, NEW got \in {"both", "mic", "none"}, JoinGets(x, got), ~screen
  PROVE  Telling'
<1> DEFINE s == Len(tracks) + 1
<1>1. /\ local' = (IF got = "none" THEN 0 ELSE s) /\ s \in Nat \ {0}
      /\ Views' = (IF got = "both" THEN {s + 1} ELSE {}) /\ Screens' = {}
      /\ got = "both" => tracks'[s + 1].on = TRUE
  BY JoinGetsStream
<1> HIDE DEF s
<1>2. x.op = "join" /\ waits' = waits \ {x} /\ (got = "both" => x.video) BY DEF JoinGets
<1>3. x \in Waiting(Joins) /\ x \in Waiting({"join"}) /\ \A w \in Waiting({"join"}) : w \in Waiting(Joins)
  BY <1>2 DEF Waiting, Joins
<1>4. \A w \in Waiting({"join"}) : w = x BY <1>3 DEF Alone, Single
<1>5. Waiting({"join"})' = {} BY <1>2, <1>4 DEF Waiting
<1>6. x.video = camera /\ ~listen BY <1>3 DEF Telling, Asked
<1>7. camera' <=> got = "both" BY <1>2, <1>6 DEF JoinGets, CameraGot
<1>8. listen' <=> got = "none" BY <1>6 DEF JoinGets
<1>9. camera' <=> ViewOn' BY <1>1, <1>7 DEF ViewOn
<1>10. listen' <=> local' = 0 BY <1>1, <1>8
<1>11. Told'
  <2>1. /\ posture' = [chan |-> x.to, muted |-> muted \/ listen', video |-> camera', sharing |-> screen]
        /\ chan' = x.to /\ muted' = muted /\ screen' = screen
    BY DEF JoinGets
  <2> QED BY <2>1 DEF Told
<1>12. ~screen' BY DEF JoinGets
<1> QED BY <1>1, <1>5, <1>9, <1>10, <1>11, <1>12 DEF Telling, Asked, Shows

LEMMA CaptureTold ==
  ASSUME Base, JoinsAlone, Whole, Announced, Capture
  PROVE  Announced'
<1> SUFFICES ASSUME Spared({"joins", "early", "rejoin", "late", "left", "overlap", "deaf"})' PROVE Telling'
  BY DEF Announced
<1>1. Telling /\ Entire /\ Alone /\ TracksTyped BY RacedGrows DEF Announced, Whole, JoinsAlone, Spared, Base
<1>2. ASSUME NEW op \in Tones, NEW to, NEW video, HangUp(Wait(op, to, video)) PROVE Telling'
  <2>1. chan' = None /\ UNCHANGED flags /\ waits' = waits \cup {Wait(op, to, video)} BY <1>2 DEF HangUp
  <2>2. op \notin {"join"} BY DEF Tones
  <2>3. Waiting({"join"})' = Waiting({"join"}) BY <2>1, <2>2, AddsOther
  <2> QED BY <1>1, <2>1, <2>3 DEF Telling, Asked, InCall, flags
<1>3. CASE Leave BY <1>2, <1>3 DEF Leave, Tones
<1>4. ASSUME RacesIf(Overlaps, "overlap") PROVE ~Overlaps BY <1>4 DEF RacesIf, Races, Spared
<1>5. Toggles => Waiting({"join"})' = Waiting({"join"}) BY JoinsWait
<1>6. CASE CameraClick
  <2>1. SetCameraEnabled(screen \/ ~camera) /\ ~Overlaps BY <1>4, <1>6 DEF CameraClick
  <2>2. (screen \/ ~camera) \in BOOLEAN BY Zenon
  <2>3. Waiting({"join"})' = Waiting({"join"}) BY <1>5, <1>6 DEF Toggles
  <2> QED BY <1>1, <2>1, <2>2, <2>3, CameraTold
<1>7. CASE VideoFull
  <2>1. SetCameraEnabled(FALSE) /\ ~Overlaps BY <1>4, <1>7 DEF VideoFull
  <2>2. Waiting({"join"})' = Waiting({"join"}) BY <1>5, <1>7 DEF Toggles
  <2> QED BY <1>1, <2>1, <2>2, CameraTold
<1>8. ASSUME UNCHANGED <<chan, flags, local, posture, tracks>>, Waiting({"join"})' = Waiting({"join"}) PROVE Telling'
  <2>1. Views' = Views /\ Screens' = Screens BY <1>8, StreamStays
  <2> QED BY <1>1, <1>8, <2>1, TellingStays DEF flags
<1>9. CASE ShareClick
  <2>1. UNCHANGED <<chan, gen, local, muted, listen>> /\ Capturing BY <1>9, ShareClickBase
  <2>2. CASE ShareOff({}) /\ UNCHANGED waits BY <1>1, <2>1, <2>2, ShareOffTold
  <2>3. CASE UNCHANGED <<tracks, screen, camera, sound, posture>> BY <1>5, <1>8, <1>9, <2>1, <2>3 DEF Toggles, flags
  <2> QED BY <1>9, <2>2, <2>3, ShareClickBase
<1>10. ASSUME MonitorStarts \/ MonitorEnds \/ \E p \in DOMAIN pcs : Negotiated(p) \/ \E r \in Reports : MonitorSample(p, r)
       PROVE  Telling'
  <2>1. Reshapes BY <1>10, Reshapers
  <2>2. Waiting({"join"})' = Waiting({"join"}) BY <1>5, <1>10 DEF Toggles
  <2>3. UNCHANGED posture BY <1>10 DEF MonitorStarts, MonitorEnds, Negotiated, MonitorSample
  <2> QED BY <1>8, <2>1, <2>2, <2>3 DEF Reshapes, flags
<1>11. ASSUME NEW c \in Chan, NEW video \in BOOLEAN, JoinVoiceChannel(c, video) PROVE Telling'
  <2>1. CASE InCall BY <1>2, <1>11, <2>1 DEF JoinVoiceChannel, Tones
  <2>2. CASE ~InCall
    <3>1. chan' = chan /\ camera' = video /\ listen' = FALSE /\ waits' = waits \cup {Wait("join", c, video)}
      BY <1>11, <2>2 DEF JoinVoiceChannel
    <3>2. Waiting({"join", "leaving"}) = {} BY <1>11, <2>2 DEF JoinVoiceChannel, RacesIf, Races, Spared
    <3>3. Waiting({"join"}) = {} BY <3>2 DEF Waiting
    <3>4. Waiting({"join"})' = Waiting({"join"}) \cup {Wait("join", c, video)} /\ Wait("join", c, video).video = video
      BY <3>1, AddsWait
    <3> QED BY <2>2, <3>1, <3>3, <3>4 DEF Telling, Asked, InCall
  <2> QED BY <2>1, <2>2
<1>12. ASSUME NEW m \in BOOLEAN, SetVoiceMuted(m) PROVE Telling' BY <1>1, <1>12, MuteTold
<1>13. ASSUME NEW i \in DOMAIN tracks, ScreenEnds(i) PROVE Telling'
  <2>1. UNCHANGED <<chan, gen, local, muted, listen, waits>> /\ tracks[i].kind = "screen" BY <1>13, ScreenEndsBase
  <2>2. CASE Capturing /\ ShareOff({i})
    <3>1. \A j \in {i} : j \in 1..Len(tracks) /\ tracks[j].kind = "screen" BY <1>1, <2>1 DEF TracksTyped
    <3> QED BY <1>1, <2>1, <2>2, <3>1, ShareOffTold
  <2>3. CASE ~Capturing /\ UNCHANGED <<screen, camera, posture>>
    <3>1. CASE InCall
      <4>1. local = 0 /\ local' = 0 BY <2>1, <2>3, <3>1 DEF Capturing
      <4>2. Views = {} /\ Views' = {} /\ Screens = {} /\ Screens' = {} BY <4>1 DEF Views, Screens, Owned
      <4>3. Waiting({"join"})' = Waiting({"join"}) BY <2>1 DEF Waiting
      <4> QED BY <1>1, <2>1, <2>3, <4>2, <4>3, TellingStays
    <3>2. CASE ~InCall BY <1>1, <2>1, <2>3, <3>2 DEF Telling, Asked, InCall, Waiting
    <3> QED BY <3>1, <3>2
  <2> QED BY <1>13, <2>2, <2>3, ScreenEndsBase
<1>14. ASSUME NEW S \in SUBSET Peer, OnVoiceState(S) PROVE Telling'
  <2>1. UNCHANGED <<chan, local, flags, tracks, posture, waits>> BY <1>14 DEF OnVoiceState
  <2> QED BY <1>8, <2>1 DEF Waiting
<1>15. ASSUME NEW x \in waits, ToneEnds(x) PROVE Telling'
  <2>1. Spared({"early"})' BY DEF Spared
  <2> QED BY <1>1, <1>15, <2>1, ToneEndsTold
<1>16. ASSUME NEW x \in waits, FirstFails(x) PROVE Telling'
  <2>1. UNCHANGED <<chan, local, flags, tracks, posture>> BY <1>16, FirstFailsBase
  <2>2. Waiting({"join"})' = Waiting({"join"}) BY <1>16, JoinsWait
  <2> QED BY <1>8, <2>1, <2>2
<1>17. ASSUME NEW x \in waits, NEW got \in {"both", "mic", "none"}, JoinGets(x, got) PROVE Telling'
  <2>1. ~screen BY <1>17 DEF JoinGets, Races, Spared
  <2> QED BY <1>1, <1>17, <2>1, JoinGetsTold
<1>18. ASSUME NEW x \in waits, Answers(x) PROVE Telling'
  <2>1. Spared({"late", "left", "deaf"})' BY DEF Spared
  <2> QED BY <1>1, <1>18, <2>1, AnswersTold
<1> QED BY <1>3, <1>6, <1>7, <1>9, <1>10, <1>11, <1>12, <1>13, <1>14, <1>15, <1>16, <1>17, <1>18 DEF Capture, Answers

LEMMA ToldIsTrue ==
  ASSUME Base, Silent, Whole, Announced
  PROVE  PostureTrue
<1> DEFINE speaks == \E i \in Mics : tracks[i].live /\ tracks[i].on
           views == \E i \in Views : tracks[i].live /\ tracks[i].on
           shares == \E i \in Screens : tracks[i].live
<1> SUFFICES ASSUME waits = {}, InCall, Spared({"joins", "early", "rejoin", "late", "left", "overlap", "deaf"})
             PROVE  posture = [chan |-> chan, muted |-> ~speaks, video |-> views, sharing |-> shares]
  BY DEF PostureTrue, Mics, Views, Screens
<1>1. Entire /\ Told /\ Shows /\ Obeys BY DEF Whole, Announced, Telling, Silent, Spared
<1>2. /\ \A i \in Mics : tracks[i].live = TRUE
      /\ \A i \in Views : tracks[i].live = TRUE
      /\ Screens \subseteq Views /\ (local = 0 => Mics = {})
  BY StreamOf DEF Base
<1>3. muted \in BOOLEAN /\ camera \in BOOLEAN /\ screen \in BOOLEAN /\ listen \in BOOLEAN BY DEF Base, FlagsTyped
<1>4. \A i \in Mics : tracks[i].on = ~muted BY <1>1 DEF Obeys, Mics
<1>5. (muted \/ listen) <=> ~speaks
  <2>1. CASE local = 0 BY <1>1, <1>2, <2>1 DEF Shows
  <2>2. CASE local # 0
    <3>1. Mics # {} BY <1>1, <2>2 DEF Entire, Capturing, Awaits, Waiting
    <3>2. ~listen BY <1>1, <2>2 DEF Shows
    <3> QED BY <1>2, <1>4, <3>1, <3>2
  <2> QED BY <2>1, <2>2
<1>6. camera <=> views BY <1>1, <1>2 DEF Shows, ViewOn
<1>7. screen <=> shares BY <1>1, <1>2 DEF Shows
<1>8. (muted \/ listen) \in BOOLEAN /\ (~speaks) \in BOOLEAN /\ views \in BOOLEAN /\ shares \in BOOLEAN BY Zenon
<1>9. (muted \/ listen) = ~speaks /\ camera = views /\ screen = shares
  <2> HIDE DEF speaks, views, shares
  <2> QED BY <1>3, <1>5, <1>6, <1>7, <1>8
<1>10. posture = [chan |-> chan, muted |-> muted \/ listen, video |-> camera, sharing |-> screen] BY <1>1 DEF Told
<1> HIDE DEF speaks, views, shares
<1> QED BY <1>9, <1>10

-----------------------------------------------------------------------------
(* What is heard.                                                          *)

\* The elements are at their gains, a meter belongs to a voice and shows it
\* speaking, and streams are numbered as they come.
Elements(them, gain) ==
  \A p \in DOMAIN them : them[p] \in [plays : Nat, muted : {deafened}, volume : {gain[p]}]
Tuned ==
  /\ DOMAIN sent = DOMAIN pcs /\ DOMAIN pcs \subseteq Peer
  /\ DOMAIN volumes = Peer /\ DOMAIN screenVolumes = Peer /\ streams \in [Peer -> Nat]
  /\ \A p \in DOMAIN pcs : sent[p] \in [voice : 0..streams[p], share : 0..streams[p]]
  /\ DOMAIN meters = DOMAIN audioEls /\ speakingIds = {p \in DOMAIN meters : meters[p]}
  /\ Elements(audioEls, volumes) /\ Elements(screenAudioEls, screenVolumes)

\* Voices and shares are told apart.
Voiced == {p \in DOMAIN pcs : sent[p].voice # 0}
Shared == {p \in DOMAIN pcs : sent[p].share # 0}
Apart ==
  /\ Shared \subseteq Voiced /\ \A p \in Voiced : sent[p].share # sent[p].voice
  /\ DOMAIN voiceStreamIds = Voiced /\ DOMAIN audioEls = Voiced /\ DOMAIN screenAudioEls = Shared
  /\ \A p \in Voiced : voiceStreamIds[p] = sent[p].voice /\ audioEls[p].plays = sent[p].voice
  /\ \A p \in Shared : screenAudioEls[p].plays = sent[p].share
Heard == Tuned /\ ("mute" \notin raced => Apart)

LEMMA HeardIsVoice ==
  ASSUME Heard
  PROVE  VoiceIsVoice
<1>1. AtGains(audioEls, volumes) /\ AtGains(screenAudioEls, screenVolumes)
  BY DEF Heard, Tuned, Elements, AtGains
<1>2. "mute" \notin raced =>
       /\ [p \in DOMAIN audioEls |-> audioEls[p].plays] = [p \in Voiced |-> sent[p].voice]
       /\ [p \in DOMAIN screenAudioEls |-> screenAudioEls[p].plays] = [p \in Shared |-> sent[p].share]
       /\ speakingIds \subseteq DOMAIN audioEls
  BY DEF Heard, Tuned, Apart
<1> QED BY <1>1, <1>2 DEF VoiceIsVoice, Voiced, Shared

LEMMA HeardInit ==
  ASSUME Init
  PROVE  Heard
<1>1. /\ pcs = <<>> /\ sent = <<>> /\ audioEls = <<>> /\ screenAudioEls = <<>> /\ meters = <<>> /\ speakingIds = {}
      /\ voiceStreamIds = <<>> /\ DOMAIN <<>> = {}
  BY DEF Init, MediaInit
<1>2. DOMAIN volumes = Peer /\ DOMAIN screenVolumes = Peer /\ streams \in [Peer -> Nat] BY DEF Init
<1>3. Tuned BY <1>1, <1>2 DEF Tuned, Elements
<1>4. Voiced = {} /\ Shared = {} BY <1>1 DEF Voiced, Shared
<1>5. Apart BY <1>1, <1>4 DEF Apart
<1> QED BY <1>3, <1>5 DEF Heard

LEMMA CallPeers ==
  ASSUME Base, Capture, DOMAIN pcs \subseteq Peer
  PROVE  DOMAIN pcs' \subseteq Peer
<1>1. ASSUME NEW op, NEW to, NEW video, HangUp(Wait(op, to, video)) PROVE DOMAIN pcs' = {}
  <2>1. pcs' = <<>> BY <1>1 DEF HangUp
  <2> QED BY <2>1
<1>2. CASE Leave BY <1>1, <1>2 DEF Leave
<1>3. ASSUME NEW on \in BOOLEAN, SetCameraEnabled(on) PROVE pcs' = pcs BY <1>3, CameraCases DEF net
<1>4. CASE CameraClick
  <2>1. SetCameraEnabled(screen \/ ~camera) BY <1>4 DEF CameraClick
  <2>2. (screen \/ ~camera) \in BOOLEAN BY Zenon
  <2> QED BY <1>3, <2>1, <2>2
<1>5. CASE VideoFull BY <1>3, <1>5 DEF VideoFull
<1>6. ASSUME NEW E, ShareOff(E), UNCHANGED <<chan, gen, local, muted, listen, waits>> PROVE DOMAIN pcs' = DOMAIN pcs
  BY <1>6, ShareOffBase
<1>7. CASE ShareClick BY <1>6, <1>7, ShareClickBase
<1>8. ASSUME MonitorStarts \/ MonitorEnds \/ \E p \in DOMAIN pcs : Negotiated(p) \/ \E r \in Reports : MonitorSample(p, r)
      PROVE  DOMAIN pcs' = DOMAIN pcs
  BY <1>8, Reshapers DEF Reshapes
<1>9. ASSUME NEW c \in Chan, NEW video \in BOOLEAN, JoinVoiceChannel(c, video) PROVE DOMAIN pcs' \subseteq Peer
  <2>1. CASE InCall BY <1>1, <1>9, <2>1 DEF JoinVoiceChannel
  <2>2. CASE ~InCall BY <1>9, <2>2 DEF JoinVoiceChannel, net
  <2> QED BY <2>1, <2>2
<1>10. ASSUME NEW m \in BOOLEAN, SetVoiceMuted(m) PROVE pcs' = pcs BY <1>10 DEF SetVoiceMuted, net
<1>11. ASSUME NEW i \in DOMAIN tracks, ScreenEnds(i) PROVE DOMAIN pcs' = DOMAIN pcs BY <1>6, <1>11, ScreenEndsBase
<1>12. ASSUME NEW S \in SUBSET Peer, OnVoiceState(S) PROVE DOMAIN pcs' \subseteq Peer BY <1>12, OnVoiceStateBase
<1>13. ASSUME NEW x \in waits, ToneEnds(x) \/ FirstFails(x) PROVE pcs' = pcs
  BY <1>13 DEF ToneEnds, FirstFails, net
<1>14. ASSUME NEW x \in waits, NEW got \in {"both", "mic", "none"}, JoinGets(x, got) PROVE pcs' = pcs
  BY <1>14 DEF JoinGets
<1>15. ASSUME NEW x \in waits, FirstGets(x) PROVE DOMAIN pcs' = DOMAIN pcs BY <1>15, FirstGetsBase
<1>16. ASSUME NEW x \in waits, NEW ok \in BOOLEAN, RestoreGets(x, ok) PROVE DOMAIN pcs' = DOMAIN pcs
  BY <1>16, RestoreGetsBase
<1>17. ASSUME NEW x \in waits, NEW ok \in BOOLEAN, SwitchGets(x, ok) PROVE DOMAIN pcs' = DOMAIN pcs
  BY <1>17, SwitchGetsBase
<1>18. ASSUME NEW x \in waits, NEW got \in {"cancel", "picture", "sound"}, DisplayGets(x, got) PROVE DOMAIN pcs' = DOMAIN pcs
  BY <1>18, DisplayGetsBase
<1> QED BY <1>2, <1>4, <1>5, <1>7, <1>8, <1>9, <1>10, <1>11, <1>12, <1>13, <1>14, <1>15, <1>16, <1>17, <1>18 DEF Capture

LEMMA WithoutIs ==
  ASSUME NEW f, NEW S
  PROVE  DOMAIN Without(f, S) = DOMAIN f \ S /\ \A p \in DOMAIN f \ S : Without(f, S)[p] = f[p]
  BY DEF Without

LEMMA CallHeard ==
  ASSUME Base, Heard, Call
  PROVE  Heard'
<1> DEFINE S == DOMAIN pcs \ DOMAIN pcs'
<1>1. /\ sent' = [p \in DOMAIN pcs' |-> IF p \in DOMAIN sent THEN sent[p] ELSE [voice |-> 0, share |-> 0]]
      /\ UNCHANGED <<streams, volumes, screenVolumes, deafened>> /\ raced \subseteq raced'
  BY RacedGrows DEF Call, gains
<1>2. /\ audioEls' = Without(audioEls, S) /\ screenAudioEls' = Without(screenAudioEls, S)
      /\ voiceStreamIds' = Without(voiceStreamIds, S) /\ meters' = Without(meters, S)
      /\ speakingIds' = speakingIds \ {p \in DOMAIN meters \cap S : meters[p]}
  BY DEF Call, ClosePeers, RemoveMeters
<1>3. /\ DOMAIN audioEls' = DOMAIN audioEls \ S /\ \A p \in DOMAIN audioEls \ S : audioEls'[p] = audioEls[p]
      /\ DOMAIN screenAudioEls' = DOMAIN screenAudioEls \ S
      /\ \A p \in DOMAIN screenAudioEls \ S : screenAudioEls'[p] = screenAudioEls[p]
      /\ DOMAIN voiceStreamIds' = DOMAIN voiceStreamIds \ S
      /\ \A p \in DOMAIN voiceStreamIds \ S : voiceStreamIds'[p] = voiceStreamIds[p]
      /\ DOMAIN meters' = DOMAIN meters \ S /\ \A p \in DOMAIN meters \ S : meters'[p] = meters[p]
  <2> HIDE DEF S
  <2> QED BY <1>2, WithoutIs
<1>4. Tuned BY DEF Heard
<1>5. DOMAIN pcs' \subseteq Peer BY <1>4, CallPeers DEF Call, Tuned
<1>6. \A p \in DOMAIN pcs' : sent'[p] = IF p \in DOMAIN pcs THEN sent[p] ELSE [voice |-> 0, share |-> 0]
  BY <1>1, <1>4 DEF Tuned
<1>7. Tuned'
  <2>1. DOMAIN sent' = DOMAIN pcs' BY <1>1
  <2>2. \A p \in DOMAIN pcs' : sent'[p] \in [voice : 0..streams'[p], share : 0..streams'[p]]
    <3>1. \A p \in DOMAIN pcs' : streams[p] \in Nat BY <1>4, <1>5 DEF Tuned
    <3> QED BY <1>1, <1>4, <1>6, <3>1 DEF Tuned
  <2>3. DOMAIN meters' = DOMAIN audioEls' /\ speakingIds' = {p \in DOMAIN meters' : meters'[p]}
    BY <1>2, <1>3, <1>4 DEF Tuned
  <2>4. Elements(audioEls, volumes)' /\ Elements(screenAudioEls, screenVolumes)'
    BY <1>1, <1>2, <1>3, <1>4 DEF Tuned, Elements
  <2> QED BY <1>1, <1>4, <1>5, <2>1, <2>2, <2>3, <2>4 DEF Tuned
<1>8. ASSUME "mute" \notin raced' PROVE Apart'
  <2>1. Apart BY <1>1, <1>8 DEF Heard
  <2>2. Voiced' = Voiced \ S /\ Shared' = Shared \ S
    BY <1>6 DEF Voiced, Shared
  <2>3. \A p \in Voiced' \cup Shared' : sent'[p] = sent[p] BY <1>6 DEF Voiced, Shared
  <2> QED BY <1>2, <1>3, <2>1, <2>2, <2>3 DEF Apart
<1> QED BY <1>7, <1>8 DEF Heard

LEMMA OnTrackTuned ==
  ASSUME Tuned, NEW p \in DOMAIN pcs, NEW stream \in Nat, OnTrack(p, stream), UNCHANGED <<volumes, screenVolumes, deafened>>
  PROVE  /\ DOMAIN meters' = DOMAIN audioEls' /\ speakingIds' = {q \in DOMAIN meters' : meters'[q]}
         /\ Elements(audioEls, volumes)' /\ Elements(screenAudioEls, screenVolumes)'
<1> DEFINE first == IF p \in DOMAIN voiceStreamIds THEN voiceStreamIds[p] ELSE stream
<1>1. CASE stream = first
  <2>1. /\ audioEls' = With(audioEls, p, IF p \in DOMAIN audioEls THEN [audioEls[p] EXCEPT !.plays = stream]
                                         ELSE [plays |-> stream, muted |-> deafened, volume |-> volumes[p]])
        /\ UNCHANGED screenAudioEls /\ AddMeter(p)
    BY <1>1 DEF OnTrack
  <2>2. DOMAIN audioEls' = DOMAIN audioEls \cup {p} /\ Elements(audioEls, volumes)'
    <3>1. \A q \in DOMAIN audioEls : audioEls[q] \in [plays : Nat, muted : {deafened}, volume : {volumes[q]}]
      BY DEF Tuned, Elements
    <3>2. /\ DOMAIN audioEls' = DOMAIN audioEls \cup {p}
          /\ \A q \in DOMAIN audioEls' : audioEls'[q] \in [plays : Nat, muted : {deafened}, volume : {volumes[q]}]
      <4> DEFINE new == IF p \in DOMAIN audioEls THEN [audioEls[p] EXCEPT !.plays = stream]
                        ELSE [plays |-> stream, muted |-> deafened, volume |-> volumes[p]]
      <4>1. new \in [plays : Nat, muted : {deafened}, volume : {volumes[p]}] BY <3>1
      <4>2. audioEls' = With(audioEls, p, new) BY <2>1
      <4> HIDE DEF new
      <4> QED BY <3>1, <4>1, <4>2 DEF With
    <3> QED BY <3>2 DEF Elements
  <2>3. DOMAIN meters' = DOMAIN meters \cup {p} /\ meters'[p] = FALSE /\ \A q \in DOMAIN meters \ {p} : meters'[q] = meters[q]
    BY <2>1 DEF AddMeter, With
  <2>4. speakingIds' = speakingIds \ {q \in DOMAIN meters \cap {p} : meters[q]} BY <2>1 DEF AddMeter
  <2>5. speakingIds' = {q \in DOMAIN meters' : meters'[q]} BY <2>3, <2>4 DEF Tuned
  <2>6. Elements(screenAudioEls, screenVolumes)' BY <2>1 DEF Tuned, Elements
  <2> QED BY <2>2, <2>3, <2>5, <2>6 DEF Tuned
<1>2. CASE stream # first
  <2>1. /\ screenAudioEls' = With(screenAudioEls, p, IF p \in DOMAIN screenAudioEls THEN [screenAudioEls[p] EXCEPT !.plays = stream]
                                         ELSE [plays |-> stream, muted |-> deafened, volume |-> screenVolumes[p]])
        /\ UNCHANGED <<audioEls, meters, speakingIds>>
    BY <1>2 DEF OnTrack
  <2>2. Elements(screenAudioEls, screenVolumes)'
    <3>1. \A q \in DOMAIN screenAudioEls : screenAudioEls[q] \in [plays : Nat, muted : {deafened}, volume : {screenVolumes[q]}]
      BY DEF Tuned, Elements
    <3>2. \A q \in DOMAIN screenAudioEls' :
            screenAudioEls'[q] \in [plays : Nat, muted : {deafened}, volume : {screenVolumes[q]}]
      <4> DEFINE new == IF p \in DOMAIN screenAudioEls THEN [screenAudioEls[p] EXCEPT !.plays = stream]
                        ELSE [plays |-> stream, muted |-> deafened, volume |-> screenVolumes[p]]
      <4>1. new \in [plays : Nat, muted : {deafened}, volume : {screenVolumes[p]}] BY <3>1
      <4>2. screenAudioEls' = With(screenAudioEls, p, new) BY <2>1
      <4> HIDE DEF new
      <4> QED BY <3>1, <4>1, <4>2 DEF With
    <3> QED BY <3>2 DEF Elements
  <2> QED BY <2>1, <2>2 DEF Tuned, Elements
<1> QED BY <1>1, <1>2

LEMMA VoiceArrivesHeard ==
  ASSUME Heard, NEW p \in Peer, VoiceArrives(p)
  PROVE  Heard'
<1> DEFINE n == streams[p] + 1
<1>1. p \in DOMAIN pcs /\ UNCHANGED <<pcs, raced, volumes, screenVolumes, deafened>> /\ sent[p].voice = 0 /\ sent[p].share = 0
  BY DEF VoiceArrives, Delivers, net, gains
<1>2. Tuned /\ streams[p] \in Nat /\ streams \in [Peer -> Nat] BY DEF Heard, Tuned
<1>3. streams' = [streams EXCEPT ![p] = n] /\ n \in Nat /\ streams'[p] = n /\ streams' \in [Peer -> Nat]
  BY <1>2 DEF VoiceArrives
<1>4. sent' = [sent EXCEPT ![p].voice = n] /\ OnTrack(p, n) BY <1>3 DEF VoiceArrives
<1> HIDE DEF n
<1>5. /\ DOMAIN sent' = DOMAIN sent /\ sent'[p] = [sent[p] EXCEPT !.voice = n]
      /\ \A q \in DOMAIN sent \ {p} : sent'[q] = sent[q]
  BY <1>1, <1>2, <1>4 DEF Tuned
<1>6. sent[p] \in [voice : 0..streams[p], share : 0..streams[p]] BY <1>1, <1>2 DEF Tuned
<1>7. sent'[p].voice = n /\ sent'[p].share = 0 /\ sent'[p] \in [voice : 0..n, share : 0..n]
  BY <1>1, <1>3, <1>5, <1>6
<1>8. Tuned'
  <2>1. \A q \in DOMAIN pcs' : sent'[q] \in [voice : 0..streams'[q], share : 0..streams'[q]]
    BY <1>1, <1>2, <1>3, <1>5, <1>7 DEF Tuned
  <2>2. /\ DOMAIN meters' = DOMAIN audioEls' /\ speakingIds' = {q \in DOMAIN meters' : meters'[q]}
        /\ Elements(audioEls, volumes)' /\ Elements(screenAudioEls, screenVolumes)'
    BY <1>1, <1>2, <1>3, <1>4, OnTrackTuned
  <2> QED BY <1>1, <1>2, <1>3, <1>5, <2>1, <2>2 DEF Tuned
<1>9. ASSUME "mute" \notin raced' PROVE Apart'
  <2>1. Apart /\ p \notin Voiced /\ p \notin Shared BY <1>1, <1>9 DEF Heard, Voiced, Shared
  <2>2. p \notin DOMAIN voiceStreamIds /\ p \notin DOMAIN audioEls BY <2>1 DEF Apart
  <2>3. /\ voiceStreamIds' = With(voiceStreamIds, p, n)
        /\ audioEls' = With(audioEls, p, [plays |-> n, muted |-> deafened, volume |-> volumes[p]]) /\ UNCHANGED screenAudioEls
    BY <1>4, <2>2 DEF OnTrack
  <2>4. /\ DOMAIN voiceStreamIds' = DOMAIN voiceStreamIds \cup {p} /\ voiceStreamIds'[p] = n
        /\ \A q \in DOMAIN voiceStreamIds \ {p} : voiceStreamIds'[q] = voiceStreamIds[q]
        /\ DOMAIN audioEls' = DOMAIN audioEls \cup {p} /\ audioEls'[p].plays = n
        /\ \A q \in DOMAIN audioEls \ {p} : audioEls'[q] = audioEls[q]
    BY <2>3 DEF With
  <2>5. n # 0 BY <1>2 DEF n
  <2>6. Voiced' = Voiced \cup {p} /\ Shared' = Shared
    BY <1>1, <1>2, <1>5, <1>7, <2>5 DEF Voiced, Shared, Tuned
  <2>7. \A q \in (Voiced \cup Shared) \ {p} : sent'[q] = sent[q] BY <1>2, <1>5 DEF Voiced, Shared, Tuned
  <2> QED BY <1>7, <2>1, <2>3, <2>4, <2>5, <2>6, <2>7 DEF Apart
<1> QED BY <1>8, <1>9 DEF Heard

LEMMA ShareArrivesHeard ==
  ASSUME Heard, NEW p \in Peer, ShareArrives(p)
  PROVE  Heard'
<1> DEFINE n == streams[p] + 1
<1>1. /\ p \in DOMAIN pcs /\ UNCHANGED <<pcs, volumes, screenVolumes, deafened>> /\ sent[p].share = 0
      /\ raced' = raced \cup IF sent[p].voice = 0 THEN {"mute"} ELSE {}
  BY DEF ShareArrives, Delivers, net, gains, RacesIf, Races
<1>2. Tuned /\ streams[p] \in Nat /\ streams \in [Peer -> Nat] BY DEF Heard, Tuned
<1>3. streams' = [streams EXCEPT ![p] = n] /\ n \in Nat /\ streams'[p] = n /\ streams' \in [Peer -> Nat]
  BY <1>2 DEF ShareArrives
<1>4. sent' = [sent EXCEPT ![p].share = n] /\ OnTrack(p, n) BY <1>3 DEF ShareArrives
<1>a. n # 0 /\ n > streams[p] /\ streams[p] \in Nat BY <1>2
<1> HIDE DEF n
<1>5. /\ DOMAIN sent' = DOMAIN sent /\ sent'[p] = [sent[p] EXCEPT !.share = n]
      /\ \A q \in DOMAIN sent \ {p} : sent'[q] = sent[q]
  BY <1>1, <1>2, <1>4 DEF Tuned
<1>6. sent[p] \in [voice : 0..streams[p], share : 0..streams[p]] BY <1>1, <1>2 DEF Tuned
<1>7. sent'[p].share = n /\ sent'[p].voice = sent[p].voice /\ sent'[p] \in [voice : 0..n, share : 0..n] /\ sent[p].voice # n
  BY <1>1, <1>3, <1>5, <1>6, <1>a
<1>8. Tuned'
  <2>1. \A q \in DOMAIN pcs' : sent'[q] \in [voice : 0..streams'[q], share : 0..streams'[q]]
    BY <1>1, <1>2, <1>3, <1>5, <1>7 DEF Tuned
  <2>2. /\ DOMAIN meters' = DOMAIN audioEls' /\ speakingIds' = {q \in DOMAIN meters' : meters'[q]}
        /\ Elements(audioEls, volumes)' /\ Elements(screenAudioEls, screenVolumes)'
    BY <1>1, <1>2, <1>3, <1>4, OnTrackTuned
  <2> QED BY <1>1, <1>2, <1>3, <1>5, <2>1, <2>2 DEF Tuned
<1>9. ASSUME "mute" \notin raced' PROVE Apart'
  <2>1. Apart /\ p \in Voiced /\ p \notin Shared BY <1>1, <1>9 DEF Heard, Voiced, Shared
  <2>2. p \in DOMAIN voiceStreamIds /\ voiceStreamIds[p] # n /\ p \notin DOMAIN screenAudioEls BY <1>7, <2>1 DEF Apart
  <2>3. /\ voiceStreamIds' = With(voiceStreamIds, p, voiceStreamIds[p])
        /\ screenAudioEls' = With(screenAudioEls, p, [plays |-> n, muted |-> deafened, volume |-> screenVolumes[p]])
        /\ UNCHANGED audioEls
    BY <1>4, <2>2 DEF OnTrack
  <2>4. /\ DOMAIN voiceStreamIds' = DOMAIN voiceStreamIds
        /\ \A q \in DOMAIN voiceStreamIds : voiceStreamIds'[q] = voiceStreamIds[q]
        /\ DOMAIN screenAudioEls' = DOMAIN screenAudioEls \cup {p} /\ screenAudioEls'[p].plays = n
        /\ \A q \in DOMAIN screenAudioEls \ {p} : screenAudioEls'[q] = screenAudioEls[q]
    BY <2>2, <2>3 DEF With
  <2>5. Shared' = Shared \cup {p} /\ Voiced' = Voiced
    BY <1>1, <1>2, <1>5, <1>7, <1>a DEF Voiced, Shared, Tuned
  <2>6. \A q \in (Voiced \cup Shared) \ {p} : sent'[q] = sent[q] BY <1>2, <1>5 DEF Voiced, Shared, Tuned
  <2> QED BY <1>7, <2>1, <2>3, <2>4, <2>5, <2>6 DEF Apart
<1> QED BY <1>8, <1>9 DEF Heard

LEMMA ShareEndsHeard ==
  ASSUME Heard, NEW p \in Peer, ShareEnds(p)
  PROVE  Heard'
<1>1. /\ p \in DOMAIN pcs /\ sent[p].share # 0 /\ sent' = [sent EXCEPT ![p].share = 0]
      /\ screenAudioEls' = IF voiceStreamIds[p] = sent[p].share THEN screenAudioEls ELSE Without(screenAudioEls, {p})
      /\ UNCHANGED <<pcs, raced, streams, voiceStreamIds, audioEls, meters, speakingIds, volumes, screenVolumes, deafened>>
  BY DEF ShareEnds, Delivers, net, gains
<1>2. Tuned BY DEF Heard
<1>3. sent[p] \in [voice : 0..streams[p], share : 0..streams[p]] /\ streams[p] \in Nat BY <1>1, <1>2 DEF Tuned
<1>4. /\ DOMAIN sent' = DOMAIN sent /\ sent'[p] = [sent[p] EXCEPT !.share = 0]
      /\ \A q \in DOMAIN sent \ {p} : sent'[q] = sent[q]
  BY <1>1, <1>2 DEF Tuned
<1>5. sent'[p].share = 0 /\ sent'[p].voice = sent[p].voice /\ sent'[p] \in [voice : 0..streams[p], share : 0..streams[p]]
  BY <1>3, <1>4
<1>6. Tuned'
  <2>1. Elements(screenAudioEls, screenVolumes)' BY <1>1, <1>2 DEF Tuned, Elements, Without
  <2>2. \A q \in DOMAIN pcs' : sent'[q] \in [voice : 0..streams'[q], share : 0..streams'[q]]
    BY <1>1, <1>2, <1>4, <1>5 DEF Tuned
  <2> QED BY <1>1, <1>2, <1>4, <2>1, <2>2 DEF Tuned, Elements
<1>7. ASSUME "mute" \notin raced' PROVE Apart'
  <2>1. Apart BY <1>1, <1>7 DEF Heard
  <2>2. Voiced' = Voiced /\ Shared' = Shared \ {p} BY <1>1, <1>2, <1>4, <1>5 DEF Voiced, Shared, Tuned
  <2>3. \A q \in (Voiced \cup Shared) \ {p} : sent'[q] = sent[q] BY <1>2, <1>4 DEF Voiced, Shared, Tuned
  <2>4. \A q \in Voiced : sent'[q].voice = sent[q].voice /\ sent'[q].share \in {0, sent[q].share} /\ sent[q].voice # 0
    BY <1>1, <1>4, <1>5, <2>3 DEF Voiced
  <2>5. screenAudioEls' = Without(screenAudioEls, {p})
    <3>1. p \in Voiced BY <1>1, <2>1 DEF Apart, Shared
    <3> QED BY <1>1, <2>1, <3>1 DEF Apart
  <2> QED BY <1>1, <2>1, <2>2, <2>3, <2>4, <2>5 DEF Apart, Without
<1> QED BY <1>6, <1>7 DEF Heard

LEMMA PollMetersHeard ==
  ASSUME Heard, NEW p \in Peer, PollMeters(p)
  PROVE  Heard'
<1>1. /\ p \in DOMAIN meters /\ meters' = [meters EXCEPT ![p] = ~meters[p]]
      /\ speakingIds' = IF meters'[p] THEN speakingIds \cup {p} ELSE speakingIds \ {p}
      /\ UNCHANGED <<pcs, raced, sent, streams, voiceStreamIds, audioEls, screenAudioEls, volumes, screenVolumes, deafened>>
  BY DEF PollMeters, Delivers, OnSpeaking, net, gains
<1>2. Tuned BY DEF Heard
<1>3. DOMAIN meters' = DOMAIN meters /\ \A q \in DOMAIN meters \ {p} : meters'[q] = meters[q] BY <1>1
<1>4. speakingIds' = {q \in DOMAIN meters' : meters'[q]} BY <1>1, <1>2, <1>3 DEF Tuned
<1>5. Tuned' BY <1>1, <1>2, <1>3, <1>4 DEF Tuned, Elements
<1>6. Apart => Apart' BY <1>1 DEF Apart, Voiced, Shared
<1> QED BY <1>1, <1>5, <1>6 DEF Heard

LEMMA AtGainIs ==
  ASSUME NEW f, NEW p, NEW v, \A q \in DOMAIN f : f[q] \in [plays : Nat, muted : {deafened}, volume : {f[q].volume}]
  PROVE  /\ DOMAIN AtGain(f, p, v) = DOMAIN f
         /\ \A q \in DOMAIN f : AtGain(f, p, v)[q] = [plays |-> f[q].plays, muted |-> f[q].muted,
                                                      volume |-> IF q = p THEN v ELSE f[q].volume]
  BY DEF AtGain

LEMMA SlidersHeard ==
  ASSUME Heard, NEW p \in Peer, NEW v, VolumeSlider(p, v) \/ ScreenVolumeSlider(p, v)
  PROVE  Heard'
<1>1. UNCHANGED <<pcs, raced, sent, streams, voiceStreamIds, meters, speakingIds, deafened>>
  BY DEF VolumeSlider, ScreenVolumeSlider, SetVolumeForUser, SetScreenVolumeForUser, Sets, net
<1>2. Tuned BY DEF Heard
<1>3. CASE VolumeSlider(p, v)
  <2>1. volumes' = [volumes EXCEPT ![p] = v] /\ audioEls' = AtGain(audioEls, p, v) /\ UNCHANGED <<screenAudioEls, screenVolumes>>
    BY <1>3 DEF VolumeSlider, SetVolumeForUser
  <2>2. \A q \in DOMAIN audioEls : audioEls[q] \in [plays : Nat, muted : {deafened}, volume : {audioEls[q].volume}]
    BY <1>2 DEF Tuned, Elements
  <2>3. /\ DOMAIN audioEls' = DOMAIN audioEls
        /\ \A q \in DOMAIN audioEls : audioEls'[q] = [plays |-> audioEls[q].plays, muted |-> audioEls[q].muted,
                                                      volume |-> IF q = p THEN v ELSE audioEls[q].volume]
    BY <2>1, <2>2, AtGainIs
  <2>4. DOMAIN volumes' = Peer /\ volumes'[p] = v /\ \A q \in Peer \ {p} : volumes'[q] = volumes[q] BY <1>2, <2>1 DEF Tuned
  <2>5. \A q \in DOMAIN audioEls \ {p} : volumes'[q] = volumes[q] BY <1>2, <2>1 DEF Tuned
  <2>6. Elements(audioEls, volumes)' BY <1>1, <1>2, <2>3, <2>4, <2>5 DEF Tuned, Elements
  <2>7. Elements(screenAudioEls, screenVolumes)' BY <1>1, <1>2, <2>1 DEF Tuned, Elements
  <2>8. Tuned'
    <3>1. DOMAIN sent' = DOMAIN pcs' /\ DOMAIN pcs' \subseteq Peer /\ streams' \in [Peer -> Nat]
      BY <1>1, <1>2 DEF Tuned
    <3>2. DOMAIN volumes' = Peer /\ DOMAIN screenVolumes' = Peer BY <1>2, <2>1, <2>4 DEF Tuned
    <3>3. \A q \in DOMAIN pcs' : sent'[q] \in [voice : 0..streams'[q], share : 0..streams'[q]] BY <1>1, <1>2 DEF Tuned
    <3>4. DOMAIN meters' = DOMAIN audioEls' BY <1>1, <1>2, <2>1, <2>3 DEF Tuned
    <3>5. speakingIds' = {q \in DOMAIN meters' : meters'[q]} BY <1>1, <1>2 DEF Tuned
    <3>6. DOMAIN meters' = DOMAIN audioEls' /\ speakingIds' = {q \in DOMAIN meters' : meters'[q]} BY <3>4, <3>5
    <3>7. Elements(audioEls, volumes)' /\ Elements(screenAudioEls, screenVolumes)' BY <2>6, <2>7
    <3> QED BY <3>1, <3>2, <3>3, <3>6, <3>7, Zenon DEF Tuned
  <2>9. ASSUME Apart PROVE Apart'
    <3>1. Voiced' = Voiced /\ Shared' = Shared BY <1>1 DEF Voiced, Shared
    <3>2. \A q \in DOMAIN audioEls : audioEls'[q].plays = audioEls[q].plays BY <2>3
    <3> QED BY <1>1, <2>1, <2>3, <2>9, <3>1, <3>2 DEF Apart, Voiced, Shared
  <2> QED BY <1>1, <2>8, <2>9 DEF Heard
<1>4. CASE ScreenVolumeSlider(p, v)
  <2>1. /\ screenVolumes' = [screenVolumes EXCEPT ![p] = v] /\ screenAudioEls' = AtGain(screenAudioEls, p, v)
        /\ UNCHANGED <<audioEls, volumes>>
    BY <1>4 DEF ScreenVolumeSlider, SetScreenVolumeForUser
  <2>2. \A q \in DOMAIN screenAudioEls :
          screenAudioEls[q] \in [plays : Nat, muted : {deafened}, volume : {screenAudioEls[q].volume}]
    BY <1>2 DEF Tuned, Elements
  <2>3. /\ DOMAIN screenAudioEls' = DOMAIN screenAudioEls
        /\ \A q \in DOMAIN screenAudioEls :
             screenAudioEls'[q] = [plays |-> screenAudioEls[q].plays, muted |-> screenAudioEls[q].muted,
                                   volume |-> IF q = p THEN v ELSE screenAudioEls[q].volume]
    BY <2>1, <2>2, AtGainIs
  <2>4. DOMAIN screenVolumes' = Peer /\ screenVolumes'[p] = v /\ \A q \in Peer \ {p} : screenVolumes'[q] = screenVolumes[q]
    BY <1>2, <2>1 DEF Tuned
  <2>5. \A q \in DOMAIN screenAudioEls \ {p} : screenVolumes'[q] = screenVolumes[q] BY <1>2, <2>1 DEF Tuned
  <2>6. Elements(screenAudioEls, screenVolumes)' BY <1>1, <1>2, <2>3, <2>4, <2>5 DEF Tuned, Elements
  <2>7. Elements(audioEls, volumes)' BY <1>1, <1>2, <2>1 DEF Tuned, Elements
  <2>8. Tuned'
    <3>1. DOMAIN sent' = DOMAIN pcs' /\ DOMAIN pcs' \subseteq Peer /\ streams' \in [Peer -> Nat]
      BY <1>1, <1>2 DEF Tuned
    <3>2. DOMAIN volumes' = Peer /\ DOMAIN screenVolumes' = Peer BY <1>2, <2>1, <2>4 DEF Tuned
    <3>3. \A q \in DOMAIN pcs' : sent'[q] \in [voice : 0..streams'[q], share : 0..streams'[q]] BY <1>1, <1>2 DEF Tuned
    <3>4. DOMAIN meters' = DOMAIN audioEls' BY <1>1, <1>2, <2>1, <2>3 DEF Tuned
    <3>5. speakingIds' = {q \in DOMAIN meters' : meters'[q]} BY <1>1, <1>2 DEF Tuned
    <3>6. DOMAIN meters' = DOMAIN audioEls' /\ speakingIds' = {q \in DOMAIN meters' : meters'[q]} BY <3>4, <3>5
    <3>7. Elements(audioEls, volumes)' /\ Elements(screenAudioEls, screenVolumes)' BY <2>6, <2>7
    <3> QED BY <3>1, <3>2, <3>3, <3>6, <3>7, Zenon DEF Tuned
  <2>9. ASSUME Apart PROVE Apart'
    <3>1. Voiced' = Voiced /\ Shared' = Shared BY <1>1 DEF Voiced, Shared
    <3>2. \A q \in DOMAIN screenAudioEls : screenAudioEls'[q].plays = screenAudioEls[q].plays BY <2>3
    <3> QED BY <1>1, <2>1, <2>3, <2>9, <3>1, <3>2 DEF Apart, Voiced, Shared
  <2> QED BY <1>1, <2>8, <2>9 DEF Heard
<1> QED BY <1>3, <1>4

LEMMA DeafenedHeard ==
  ASSUME Heard, NEW on \in BOOLEAN, SetVoiceDeafened(on)
  PROVE  Heard'
<1>1. /\ UNCHANGED <<pcs, raced, sent, streams, voiceStreamIds, meters, speakingIds, volumes, screenVolumes>>
      /\ deafened' = on /\ audioEls' = Silenced(audioEls, on) /\ screenAudioEls' = Silenced(screenAudioEls, on)
  BY DEF SetVoiceDeafened, Sets, net
<1>2. Tuned BY DEF Heard
<1>3. /\ DOMAIN audioEls' = DOMAIN audioEls /\ DOMAIN screenAudioEls' = DOMAIN screenAudioEls
      /\ \A q \in DOMAIN audioEls : audioEls'[q] = [audioEls[q] EXCEPT !.muted = on]
      /\ \A q \in DOMAIN screenAudioEls : screenAudioEls'[q] = [screenAudioEls[q] EXCEPT !.muted = on]
  BY <1>1 DEF Silenced
<1>4. /\ \A q \in DOMAIN audioEls : audioEls[q] \in [plays : Nat, muted : {deafened}, volume : {volumes[q]}]
      /\ \A q \in DOMAIN screenAudioEls : screenAudioEls[q] \in [plays : Nat, muted : {deafened}, volume : {screenVolumes[q]}]
  BY <1>2 DEF Tuned, Elements
<1>5. /\ \A q \in DOMAIN audioEls :
           audioEls'[q].plays = audioEls[q].plays /\ audioEls'[q] \in [plays : Nat, muted : {on}, volume : {volumes[q]}]
      /\ \A q \in DOMAIN screenAudioEls :
           /\ screenAudioEls'[q].plays = screenAudioEls[q].plays
           /\ screenAudioEls'[q] \in [plays : Nat, muted : {on}, volume : {screenVolumes[q]}]
  BY <1>3, <1>4
<1>6. Tuned' BY <1>1, <1>2, <1>3, <1>5 DEF Tuned, Elements
<1>7. Apart => Apart' BY <1>1, <1>3, <1>5 DEF Apart, Voiced, Shared
<1> QED BY <1>1, <1>6, <1>7 DEF Heard

LEMMA NextHeard ==
  ASSUME Base, Heard, [Next]_vars
  PROVE  Heard'
<1>1. CASE Call BY <1>1, CallHeard
<1>2. ASSUME NEW p \in Peer, VoiceArrives(p) PROVE Heard' BY <1>2, VoiceArrivesHeard
<1>3. ASSUME NEW p \in Peer, ShareArrives(p) PROVE Heard' BY <1>3, ShareArrivesHeard
<1>4. ASSUME NEW p \in Peer, ShareEnds(p) PROVE Heard' BY <1>4, ShareEndsHeard
<1>5. ASSUME NEW p \in Peer, PollMeters(p) PROVE Heard' BY <1>5, PollMetersHeard
<1>6. ASSUME NEW p \in Peer, NEW v \in {0, 1}, VolumeSlider(p, v) \/ ScreenVolumeSlider(p, v) PROVE Heard'
  BY <1>6, SlidersHeard
<1>7. ASSUME NEW on \in BOOLEAN, SetVoiceDeafened(on) PROVE Heard' BY <1>7, DeafenedHeard
<1>8. CASE UNCHANGED vars
  BY <1>8 DEF vars, media, net, els, gains, Heard, Tuned, Apart, Voiced, Shared, Elements
<1> QED BY <1>1, <1>2, <1>3, <1>4, <1>5, <1>6, <1>7, <1>8 DEF Next

-----------------------------------------------------------------------------
(* The arithmetic of the senders' shape.                                    *)

LEMMA OfTwo ==
  ASSUME NEW a \in Int, NEW b \in Int
  PROVE  Max({a, b}) = (IF a >= b THEN a ELSE b) /\ Min({a, b}) = (IF a <= b THEN a ELSE b)
<1>1. ASSUME NEW m \in {a, b}, \A y \in {a, b} : m >= y PROVE Max({a, b}) = m BY <1>1 DEF Max
<1>2. ASSUME NEW m \in {a, b}, \A y \in {a, b} : m <= y PROVE Min({a, b}) = m BY <1>2 DEF Min
<1> QED BY <1>1, <1>2

\* A value within its bounds keeps its place among them.
LEMMA ClampIs ==
  ASSUME NEW x \in Int, NEW top \in Int
  PROVE  /\ Clamp(x, top) \in Nat /\ Clamp(x, top) >= Least
         /\ Clamp(x, top) >= x \/ Clamp(x, top) >= top
         /\ top >= Least => Clamp(x, top) <= top
         /\ Clamp(x, top) <= x \/ Clamp(x, top) = Least
<1> DEFINE m == Min({top, x})
<1>1. m = (IF top <= x THEN top ELSE x) BY OfTwo
<1>2. m \in Int BY <1>1
<1>3. Clamp(x, top) = (IF Least >= m THEN Least ELSE m)
  <2>1. Least \in Int BY SMT DEF Least
  <2> HIDE DEF m
  <2>2. Max({Least, m}) = (IF Least >= m THEN Least ELSE m) BY <1>2, <2>1, OfTwo
  <2> QED BY <2>2 DEF Clamp, m
<1> HIDE DEF m
<1> QED BY <1>1, <1>2, <1>3, SMT DEF Least

LEMMA ShareOfMore ==
  ASSUME NEW a \in Nat, NEW b \in Nat, a <= b, NEW d \in Nat \ {0}
  PROVE  a \div d \in Nat /\ b \div d \in Nat /\ a \div d <= b \div d
  OBVIOUS

\* The budget of a camera is within that of a screen.
LEMMA CapIs ==
  ASSUME NEW n \in Nat, NEW scr \in BOOLEAN
  PROVE  /\ BitrateCapFor(n, scr) \in Nat /\ BitrateCapFor(n, scr) >= Least
         /\ BitrateCapFor(n, FALSE) <= BitrateCapFor(n, TRUE)
<1> DEFINE d == Max({1, n - 1})
           a == 1600000
           b == 4500000
           c == 800000
           e == 2500000
           lo == Clamp(a \div d, c)
           hi == Clamp(b \div d, e)
<1>1. d \in Nat \ {0}
  <2>1. 1 \in Int /\ n - 1 \in Int OBVIOUS
  <2>2. d = (IF 1 >= n - 1 THEN 1 ELSE n - 1) BY <2>1, OfTwo
  <2> QED BY <2>2
<1>2. BitrateCapFor(n, FALSE) = lo /\ BitrateCapFor(n, TRUE) = hi BY SMT DEF BitrateCapFor, Total, Ceiling
<1>3. a \in Nat /\ b \in Nat /\ a <= b /\ c \in Nat /\ e \in Nat /\ c <= e /\ Least \in Nat /\ Least <= c BY SMT DEF Least
<1> HIDE DEF a, b, c, e, d
<1>4. a \div d \in Nat /\ b \div d \in Nat /\ a \div d <= b \div d BY <1>1, <1>3, ShareOfMore
<1>9. a \div d \in Int /\ b \div d \in Int /\ c \in Int /\ e \in Int BY <1>3, <1>4
<1> DEFINE u == a \div d
           v == b \div d
<1> HIDE DEF u, v
<1>5. lo \in Nat /\ lo >= Least /\ lo <= c /\ (lo <= a \div d \/ lo = Least)
  <2>1. u \in Int /\ c \in Int BY <1>9 DEF u
  <2>2. /\ Clamp(u, c) \in Nat /\ Clamp(u, c) >= Least /\ (c >= Least => Clamp(u, c) <= c)
        /\ (Clamp(u, c) <= u \/ Clamp(u, c) = Least)
    BY <2>1, ClampIs
  <2> QED BY <1>3, <2>2 DEF u, lo
<1>6. hi \in Nat /\ hi >= Least /\ (hi >= b \div d \/ hi >= e)
  <2>1. v \in Int /\ e \in Int BY <1>9 DEF v
  <2>2. Clamp(v, e) \in Nat /\ Clamp(v, e) >= Least /\ (Clamp(v, e) >= v \/ Clamp(v, e) >= e)
    BY <2>1, ClampIs
  <2> QED BY <1>3, <2>2 DEF v, hi
<1> HIDE DEF lo, hi
<1>7. lo <= hi BY <1>3, <1>4, <1>5, <1>6
<1>8. scr = TRUE \/ scr = FALSE OBVIOUS
<1> QED BY <1>2, <1>5, <1>6, <1>7, <1>8

LEMMA TierIs ==
  ASSUME NEW t \in Nat, NEW u \in Nat, t <= u, NEW scr \in BOOLEAN
  PROVE  /\ VideoScaleForTarget(t, scr) \in {1, 2, 4} /\ VideoScaleForTarget(u, scr) \in {1, 2, 4}
         /\ VideoScaleForTarget(t, scr) >= VideoScaleForTarget(u, scr)
  BY SMT DEF VideoScaleForTarget

\* Hysteresis is never finer than what the target affords.
LEMMA HysteresisIs ==
  ASSUME NEW prev \in Nat, NEW t \in Nat, NEW scr \in BOOLEAN
  PROVE  ResolutionWithHysteresis(prev, t, scr) \in Nat /\ ResolutionWithHysteresis(prev, t, scr) >= VideoScaleForTarget(t, scr)
<1> DEFINE want == VideoScaleForTarget(t, scr)
           near == VideoScaleForTarget((t * 80) \div 100, scr) >= prev
           finer == Max({prev \div 2, want})
<1>1. want \in Nat
  <2>1. want \in {1, 2, 4} BY TierIs
  <2> QED BY <2>1
<1>2. finer \in Nat /\ finer >= want
  <2>1. prev \div 2 \in Int OBVIOUS
  <2> HIDE DEF want
  <2>2. finer = (IF prev \div 2 >= want THEN prev \div 2 ELSE want) BY <1>1, <2>1, OfTwo
  <2>3. prev \div 2 \in Nat OBVIOUS
  <2> QED BY <1>1, <2>2, <2>3
<1>3. ResolutionWithHysteresis(prev, t, scr) =
        CASE prev \notin {2, 4} \/ want >= prev -> want
          [] prev \in {2, 4} /\ want < prev -> IF near THEN prev ELSE finer
  BY DEF ResolutionWithHysteresis
<1> HIDE DEF want, near, finer
<1> QED BY <1>1, <1>2, <1>3 DEF want

-----------------------------------------------------------------------------
(* One sender's numbers, and what each operator does to them.               *)

Numbers(pc) ==
  /\ {"aud", "vid", "ready", "target", "soft", "streak", "scale", "rate", "shape", "source", "stressed", "low"}
       \subseteq DOMAIN pc
  /\ pc.target \in Nat /\ pc.soft \in Nat /\ pc.streak \in Nat /\ pc.scale \in Nat
  /\ pc.rate \in Nat /\ pc.shape \in Nat /\ pc.low \in Nat
Filled(vid) == \E i \in DOMAIN vid : vid[i] # 0
\* Fits, for n participants and the source scr.
Afforded(pc, n, scr) ==
  /\ pc.source => scr
  /\ pc.rate <= BitrateCapFor(n, scr)
  /\ pc.source = scr => pc.shape >= VideoScaleForTarget(pc.rate, scr)
Shapely(pc, n, scr) == pc.ready /\ Filled(pc.vid) /\ pc.rate # 0 => Afforded(pc, n, scr)
Alike(a, b) ==
  /\ Numbers(a) /\ a.ready = b.ready /\ a.rate = b.rate /\ a.shape = b.shape /\ a.source = b.source
  /\ a.soft = b.soft /\ a.stressed = b.stressed /\ a.low = b.low /\ a.target = b.target

\* What applyVideoBitrateCaps gives a sender it affords, whatever it had before.
LEMMA ShapedIs ==
  ASSUME NEW pc, Numbers(pc), NEW n \in Nat, NEW scr \in BOOLEAN, NEW moving
  PROVE  LET new == ApplyVideoBitrateCaps(pc, n, scr, moving)
         IN  /\ Numbers(new) /\ new.ready = pc.ready /\ new.vid = pc.vid /\ new.target = pc.target
             /\ new.soft = pc.soft /\ new.stressed = pc.stressed /\ new.low = pc.low
             /\ Shapely(new, n, scr)
<1> DEFINE top == BitrateCapFor(n, scr)
           cap == EffectiveVideoCap(pc, n, scr)
           constrained == pc.soft # 0 /\ pc.soft * 10 < top * 9
           aim == IF scr /\ moving /\ constrained THEN cap \div 2 ELSE cap
           scale == ResolutionWithHysteresis(pc.scale, aim, scr)
           sends == pc.ready /\ \E i \in DOMAIN pc.vid : pc.vid[i] # 0
           rate == IF sends THEN cap ELSE pc.rate
           shape == IF sends THEN scale ELSE pc.shape
           source == IF sends THEN scr ELSE pc.source
           new == ApplyVideoBitrateCaps(pc, n, scr, moving)
<1>1. new = [pc EXCEPT !.scale = scale, !.rate = rate, !.shape = shape, !.source = source]
  BY DEF ApplyVideoBitrateCaps
<1>2. top \in Nat /\ top >= Least /\ pc.target \in Int
  <2>1. top \in Nat /\ top >= Least BY CapIs
  <2>2. pc.target \in Int BY DEF Numbers
  <2> QED BY <2>1, <2>2
<1>3. cap = (IF pc.target = 0 THEN top ELSE Clamp(pc.target, top)) BY DEF EffectiveVideoCap
<1> HIDE DEF top, cap
<1>4. cap \in Nat /\ cap <= top
  <2>1. Clamp(pc.target, top) \in Nat /\ (top >= Least => Clamp(pc.target, top) <= top)
    <3>1. top \in Int BY <1>2
    <3> QED BY <1>2, <3>1, ClampIs
  <2> QED BY <1>2, <1>3, <2>1
<1> HIDE DEF constrained
<1>5. aim \in Nat /\ aim <= cap
  <2>1. cap \div 2 \in Nat /\ cap \div 2 <= cap BY <1>4
  <2> QED BY <1>4, <2>1
<1> HIDE DEF aim
<1>6. scale \in Nat /\ scale >= VideoScaleForTarget(cap, scr)
  <2>1. pc.scale \in Nat BY DEF Numbers
  <2>2. scale \in Nat /\ scale >= VideoScaleForTarget(aim, scr) BY <1>5, <2>1, HysteresisIs
  <2>3. /\ VideoScaleForTarget(aim, scr) \in {1, 2, 4} /\ VideoScaleForTarget(cap, scr) \in {1, 2, 4}
        /\ VideoScaleForTarget(aim, scr) >= VideoScaleForTarget(cap, scr)
    BY <1>4, <1>5, TierIs
  <2> HIDE DEF scale
  <2> QED BY <2>2, <2>3
<1> HIDE DEF scale
<1>7. /\ rate = (IF sends THEN cap ELSE pc.rate) /\ shape = (IF sends THEN scale ELSE pc.shape)
      /\ source = (IF sends THEN scr ELSE pc.source)
  OBVIOUS
<1>8. sends <=> (pc.ready /\ Filled(pc.vid)) BY DEF Filled
<1> HIDE DEF sends, rate, shape, source, new
<1>9. /\ DOMAIN new = DOMAIN pc /\ new.scale = scale /\ new.rate = rate /\ new.shape = shape /\ new.source = source
      /\ new.ready = pc.ready /\ new.vid = pc.vid /\ new.target = pc.target /\ new.streak = pc.streak
      /\ new.soft = pc.soft /\ new.stressed = pc.stressed /\ new.low = pc.low
  BY <1>1 DEF Numbers
<1>10. rate \in Nat /\ shape \in Nat BY <1>4, <1>6, <1>7 DEF Numbers
<1>11. Numbers(new) BY <1>6, <1>9, <1>10 DEF Numbers
<1>12. Shapely(new, n, scr)
  <2> SUFFICES ASSUME new.ready, Filled(new.vid) PROVE Afforded(new, n, scr)
    BY DEF Shapely
  <2>1. sends BY <1>8, <1>9
  <2>2. new.source = scr /\ new.rate = cap /\ new.shape = scale BY <1>7, <1>9, <2>1
  <2> QED BY <1>4, <1>6, <2>2 DEF Afforded, top
<1> QED BY <1>9, <1>11, <1>12 DEF new

\* What fits a camera's budget fits a screen's.
LEMMA ShapelyWider ==
  ASSUME NEW pc, Numbers(pc), NEW n \in Nat, NEW scr \in BOOLEAN, Shapely(pc, n, scr)
  PROVE  Shapely(pc, n, TRUE)
<1> SUFFICES ASSUME Afforded(pc, n, scr), scr = FALSE PROVE Afforded(pc, n, TRUE)
  BY DEF Shapely
<1>1. ~(pc.source = TRUE) BY DEF Afforded
<1>2. /\ BitrateCapFor(n, FALSE) \in Nat /\ BitrateCapFor(n, TRUE) \in Nat
      /\ BitrateCapFor(n, FALSE) <= BitrateCapFor(n, TRUE)
  BY CapIs
<1>3. pc.rate <= BitrateCapFor(n, TRUE)
  <2>1. pc.rate <= BitrateCapFor(n, scr) BY DEF Afforded
  <2>2. pc.rate <= BitrateCapFor(n, FALSE) BY <2>1, Zenon
  <2>3. pc.rate \in Nat BY DEF Numbers
  <2> DEFINE lo == BitrateCapFor(n, FALSE)
             hi == BitrateCapFor(n, TRUE)
  <2>4. lo \in Nat /\ hi \in Nat /\ lo <= hi /\ pc.rate <= lo BY <1>2, <2>2
  <2> HIDE DEF lo, hi
  <2>5. pc.rate <= hi BY <2>3, <2>4
  <2> QED BY <2>5 DEF hi
<1> QED BY <1>1, <1>3 DEF Afforded

\* The other operators leave the numbers alone.
LEMMA NumbersKept ==
  ASSUME NEW f, \A p \in DOMAIN f : Numbers(f[p]), NEW t
  PROVE  /\ \A p \in DOMAIN f : /\ Alike(WithAudio(f, t)[p], f[p]) /\ Alike(WithVideo(f, t)[p], f[p])
                                 /\ Alike(AttachScreenAudioToPeers(f, t)[p], f[p])
                                 /\ Alike(WithoutSound(f)[p], f[p]) /\ Alike(ResetScales(f)[p], f[p])
         /\ HasSenders(f)
<1>1. ASSUME NEW p \in DOMAIN f, NEW v
      PROVE  /\ Alike([f[p] EXCEPT !.aud = v], f[p]) /\ Alike([f[p] EXCEPT !.vid = v], f[p])
             /\ Alike([f[p] EXCEPT !.scale = 0], f[p])
  BY DEF Numbers, Alike
<1>2. \A p \in DOMAIN f : Alike(WithAudio(f, t)[p], f[p]) BY <1>1 DEF WithAudio
<1>3. \A p \in DOMAIN f : Alike(WithVideo(f, t)[p], f[p]) BY <1>1 DEF WithVideo
<1>4. \A p \in DOMAIN f : Alike(AttachScreenAudioToPeers(f, t)[p], f[p]) BY <1>1 DEF AttachScreenAudioToPeers
<1>5. \A p \in DOMAIN f : Alike(WithoutSound(f)[p], f[p]) BY <1>1 DEF WithoutSound
<1>6. \A p \in DOMAIN f : Alike(ResetScales(f)[p], f[p]) BY <1>1 DEF ResetScales
<1>7. HasSenders(f) BY DEF HasSenders, Numbers
<1> QED BY <1>2, <1>3, <1>4, <1>5, <1>6, <1>7

\* A sample moves the target and the learned ceiling, within what it may learn.
LEMMA SoftIs ==
  ASSUME NEW prev \in Nat, NEW hard \in Nat, NEW brokeAt \in Nat, NEW r, NEW streak, NEW scr \in BOOLEAN
  PROVE  LET new == SoftCeilingFor(prev, hard, brokeAt, r, streak, scr)
         IN  /\ new \in Nat
             /\ r.linkBad \/ new >= hard \/ (prev # 0 /\ new >= prev)
<1> DEFINE soft == IF prev = 0 THEN hard ELSE prev
           up == IF scr THEN 20000 ELSE 5000
           broken == (brokeAt * 85) \div 100
           less == Min({soft, broken})
           x == CASE r.linkBad -> less
                  [] ~r.linkBad /\ Settled(streak) -> soft + up
                  [] OTHER -> soft
           new == SoftCeilingFor(prev, hard, brokeAt, r, streak, scr)
<1>1. new = Clamp(x, hard) BY DEF SoftCeilingFor
<1>2. soft \in Nat /\ up \in Nat /\ broken \in Int BY SMT
<1>3. soft = hard \/ (prev # 0 /\ soft = prev) OBVIOUS
<1> HIDE DEF soft, up, broken
<1>4. less \in Int
  <2>1. soft \in Int /\ broken \in Int BY <1>2
  <2>2. less = (IF soft <= broken THEN soft ELSE broken) BY <2>1, OfTwo
  <2> QED BY <2>1, <2>2
<1> HIDE DEF less
<1>5. x \in Int /\ (r.linkBad \/ x >= soft) BY <1>2, <1>4
<1> HIDE DEF x
<1>6. Clamp(x, hard) \in Nat /\ (Clamp(x, hard) >= x \/ Clamp(x, hard) >= hard)
  <2>1. hard \in Int OBVIOUS
  <2> QED BY <1>5, <2>1, ClampIs
<1> HIDE DEF new
<1>7. new \in Nat /\ (new >= x \/ new >= hard) BY <1>1, <1>6
<1>8. r.linkBad \/ new >= hard \/ new >= soft BY <1>2, <1>5, <1>7
<1>9. r.linkBad \/ new >= hard \/ (prev # 0 /\ new >= prev) BY <1>3, <1>8
<1> QED BY <1>7, <1>9 DEF new

LEMMA TargetIs ==
  ASSUME NEW prev \in Nat, NEW top \in Int, NEW r, NEW streak, NEW scr \in BOOLEAN
  PROVE  CongestionTarget(prev, top, r, streak, scr) \in Nat
<1> DEFINE up == IF scr THEN 150000 ELSE 40000
           less == (prev * 3) \div 4
           x == CASE UplinkStressed(r) -> less
                  [] ~UplinkStressed(r) /\ r.lossOk /\ Settled(streak) /\ r.limit = "none" -> prev + up
                  [] OTHER -> prev
<1>1. CongestionTarget(prev, top, r, streak, scr) = Clamp(x, top) BY DEF CongestionTarget
<1>2. up \in Nat /\ less \in Int BY SMT
<1> HIDE DEF up, less
<1>3. x \in Int BY <1>2
<1> HIDE DEF x
<1> QED BY <1>1, <1>3, ClampIs

\* What a sample makes of a sender before it is shaped again.
Sampled(pc, ceiling, r, scr) ==
  LET streak == IF UplinkStressed(r) THEN 0 ELSE Min({pc.streak + 1, ClimbAfter})
      prev == IF pc.target = 0 THEN ceiling ELSE pc.target
      soft == SoftCeilingFor(pc.soft, ceiling, prev, r, streak, scr)
      next == CongestionTarget(prev, Min({ceiling, soft}), r, streak, scr)
  IN  [pc EXCEPT !.streak = streak, !.soft = soft, !.target = next,
                 !.stressed = @ \/ r.linkBad, !.low = Min({@, ceiling})]
LEMMA SampledIs ==
  ASSUME NEW pc, Numbers(pc), LearnsFromLink(pc), NEW ceiling \in Nat, NEW r, NEW scr \in BOOLEAN
  PROVE  LET now == Sampled(pc, ceiling, r, scr)
         IN  /\ Numbers(now) /\ LearnsFromLink(now) /\ now.vid = pc.vid
             /\ \A n : Shapely(pc, n, scr) => Shapely(now, n, scr)
<1> DEFINE streak == IF UplinkStressed(r) THEN 0 ELSE Min({pc.streak + 1, ClimbAfter})
           prev == IF pc.target = 0 THEN ceiling ELSE pc.target
           soft == SoftCeilingFor(pc.soft, ceiling, prev, r, streak, scr)
           next == CongestionTarget(prev, Min({ceiling, soft}), r, streak, scr)
           bad == pc.stressed \/ r.linkBad
           low == Min({pc.low, ceiling})
           now == [pc EXCEPT !.streak = streak, !.soft = soft, !.target = next, !.stressed = bad, !.low = low]
<1>1. pc.target \in Nat /\ pc.soft \in Nat /\ pc.streak \in Nat /\ pc.low \in Nat BY DEF Numbers
<1>2. streak \in Nat
  <2>1. pc.streak + 1 \in Int /\ ClimbAfter \in Int /\ ClimbAfter = 4 BY <1>1 DEF ClimbAfter
  <2>2. Min({pc.streak + 1, ClimbAfter}) = (IF pc.streak + 1 <= ClimbAfter THEN pc.streak + 1 ELSE ClimbAfter)
    BY <2>1, OfTwo
  <2> QED BY <1>1, <2>1, <2>2
<1>3. prev \in Nat BY <1>1
<1> HIDE DEF streak, prev
<1>4. soft \in Nat /\ (r.linkBad \/ soft >= ceiling \/ (pc.soft # 0 /\ soft >= pc.soft)) BY <1>1, <1>3, SoftIs
<1> HIDE DEF soft
<1>5. next \in Nat
  <2>1. ceiling \in Int /\ soft \in Int BY <1>4
  <2>2. Min({ceiling, soft}) = (IF ceiling <= soft THEN ceiling ELSE soft) BY <2>1, OfTwo
  <2>3. Min({ceiling, soft}) \in Int BY <2>1, <2>2
  <2> QED BY <1>3, <2>3, TargetIs
<1>6. low \in Nat /\ low <= pc.low /\ low <= ceiling
  <2>1. pc.low \in Int /\ ceiling \in Int BY <1>1
  <2>2. low = (IF pc.low <= ceiling THEN pc.low ELSE ceiling) BY <2>1, OfTwo
  <2> HIDE DEF low
  <2> QED BY <1>1, <2>2
<1> HIDE DEF next, low, bad, now
<1>7. /\ DOMAIN now = DOMAIN pc /\ now.streak = streak /\ now.soft = soft /\ now.target = next /\ now.stressed = bad
      /\ now.low = low /\ now.vid = pc.vid /\ now.ready = pc.ready /\ now.rate = pc.rate /\ now.shape = pc.shape
      /\ now.scale = pc.scale /\ now.source = pc.source
  BY DEF Numbers, now
<1>8. Numbers(now) BY <1>2, <1>4, <1>5, <1>6, <1>7 DEF Numbers
<1>9. LearnsFromLink(now)
  <2>1. CASE bad BY <1>7, <2>1 DEF LearnsFromLink
  <2>2. CASE ~bad
    <3>1. ~pc.stressed /\ ~r.linkBad BY <2>2 DEF bad
    <3>2. pc.soft = 0 \/ pc.soft >= pc.low BY <3>1 DEF LearnsFromLink
    <3>3. soft >= low BY <1>1, <1>4, <1>6, <3>1, <3>2
    <3> QED BY <1>7, <3>3 DEF LearnsFromLink
  <2> QED BY <2>1, <2>2
<1>10. \A n : Shapely(pc, n, scr) => Shapely(now, n, scr) BY <1>7 DEF Shapely, Afforded
<1>11. now = Sampled(pc, ceiling, r, scr) BY DEF Sampled, now, bad, low, next, soft, prev, streak
<1> QED BY <1>7, <1>8, <1>9, <1>10, <1>11

-----------------------------------------------------------------------------
(* The numbers of every connection, and what each action does to them.      *)

Well(pc) == Numbers(pc) /\ LearnsFromLink(pc)
Counted ==
  /\ roster \in SUBSET Peer
  /\ {"ceiling", "seen", "fps"} \subseteq DOMAIN mon /\ mon.ceiling \in Nat
  /\ \A p \in DOMAIN pcs : Well(pcs[p])
AllShapely == \A p \in DOMAIN pcs : Shapely(pcs[p], Members, screen)

LEMMA RosterFinite ==
  ASSUME NEW S \in SUBSET Peer
  PROVE  Cardinality(S) + 1 \in Nat
<1>1. IsFiniteSet(S) BY FS_Subset, PeerAssumption
<1>2. Cardinality(S) \in Nat BY <1>1, FS_CardinalityType
<1> QED BY <1>2

LEMMA ShapelyAlike ==
  ASSUME NEW a, NEW b, Alike(a, b), LearnsFromLink(b), Filled(a.vid) => Filled(b.vid)
  PROVE  /\ Well(a)
         /\ \A n, scr : Shapely(b, n, scr) => Shapely(a, n, scr)
<1>1. Well(a) BY DEF Well, Alike, LearnsFromLink
<1>2. \A n, scr : Shapely(b, n, scr) => Shapely(a, n, scr) BY DEF Alike, Shapely, Afforded
<1> QED BY <1>1, <1>2

LEMMA ShapedFits ==
  ASSUME NEW pc, Well(pc), NEW n \in Nat, NEW scr \in BOOLEAN, NEW moving
  PROVE  /\ Well(ApplyVideoBitrateCaps(pc, n, scr, moving))
         /\ Shapely(ApplyVideoBitrateCaps(pc, n, scr, moving), n, scr)
<1> DEFINE new == ApplyVideoBitrateCaps(pc, n, scr, moving)
<1>1. /\ Numbers(new) /\ new.soft = pc.soft /\ new.stressed = pc.stressed /\ new.low = pc.low
      /\ Shapely(new, n, scr)
  BY ShapedIs DEF Well
<1> HIDE DEF new
<1>2. LearnsFromLink(new) BY <1>1 DEF Well, LearnsFromLink
<1> QED BY <1>1, <1>2 DEF Well, new

LEMMA AppliedFits ==
  ASSUME Counted, NEW f, \A p \in DOMAIN f : Well(f[p]), NEW scr \in BOOLEAN, NEW t
  PROVE  /\ \A p \in DOMAIN f : Well(Applied(f, scr)[p]) /\ Shapely(Applied(f, scr)[p], Members, scr)
         /\ \A p \in DOMAIN f : Well(AttachVideoToPeers(f, t, scr)[p]) /\ Shapely(AttachVideoToPeers(f, t, scr)[p], Members, scr)
<1>1. Members \in Nat BY RosterFinite DEF Counted, Members
<1>2. ASSUME NEW g, \A p \in DOMAIN g : Well(g[p])
      PROVE  \A p \in DOMAIN g : Well(Applied(g, scr)[p]) /\ Shapely(Applied(g, scr)[p], Members, scr)
  <2> SUFFICES ASSUME NEW p \in DOMAIN g PROVE Well(Applied(g, scr)[p]) /\ Shapely(Applied(g, scr)[p], Members, scr)
    OBVIOUS
  <2>1. Applied(g, scr)[p] = ApplyVideoBitrateCaps(g[p], Members, scr, motion.active) BY DEF Applied
  <2>2. Well(g[p]) BY <1>2
  <2> QED BY <1>1, <2>1, <2>2, ShapedFits
<1> DEFINE attach(pc) == LET i == SelectInSeq(pc.vid, LAMBDA x : x = 0)
                         IN  IF i # 0 THEN [pc EXCEPT !.vid = ReplaceAt(@, i, t)]
                             ELSE [pc EXCEPT !.vid = Append(@, t), !.ready = FALSE]
           g == [p \in DOMAIN f |-> attach(f[p])]
<1>3. AttachVideoToPeers(f, t, scr) = Applied(g, scr) BY DEF AttachVideoToPeers
<1>4. \A pc : Well(pc) => Well(attach(pc))
  <2> SUFFICES ASSUME NEW pc, Well(pc) PROVE Well(attach(pc))
    OBVIOUS
  <2>1. \A v : Well([pc EXCEPT !.vid = v]) /\ Well([pc EXCEPT !.vid = v, !.ready = FALSE])
    BY DEF Well, Numbers, LearnsFromLink
  <2> QED BY <2>1
<1> HIDE DEF attach
<1>5. DOMAIN g = DOMAIN f /\ \A p \in DOMAIN g : Well(g[p]) BY <1>4
<1> HIDE DEF g
<1>6. \A p \in DOMAIN g : Well(Applied(g, scr)[p]) /\ Shapely(Applied(g, scr)[p], Members, scr) BY <1>2, <1>5
<1> QED BY <1>2, <1>3, <1>5, <1>6

LEMMA CreatedFits == Well(CreatePC)
<1>1. Ceiling(TRUE) \in Nat BY SMT DEF Ceiling
<1> DEFINE low == Ceiling(TRUE)
           aud == InOrder(Owned(local, {"mic"})) \o IF local # 0 /\ sound # 0 THEN <<sound>> ELSE <<>>
           vid == InOrder(Owned(local, Video))
<1>2. low \in Nat BY <1>1
<1>3. CreatePC = [aud |-> aud, vid |-> vid, ready |-> FALSE, target |-> 0, soft |-> 0, streak |-> 0, scale |-> 0,
                  rate |-> 0, shape |-> 0, source |-> FALSE, stressed |-> FALSE, low |-> low]
  BY DEF CreatePC
<1> HIDE DEF low, aud, vid
<1> QED BY <1>2, <1>3 DEF Well, Numbers, LearnsFromLink

\* Replacing a track fills no sender that had none.
LEMMA ReplacedFills ==
  ASSUME NEW n \in Nat, NEW vid \in Seq(0..n), NEW t \in Nat
  PROVE  Filled(Replaced(vid, t)) => Filled(vid)
<1>1. ~Filled(vid) => Replaced(vid, t) = vid BY ReplacedIs DEF Filled
<1> QED BY <1>1

LEMMA FitStays ==
  ASSUME Counted, UNCHANGED <<roster, pcs, mon>>
  PROVE  Counted' /\ (AllShapely /\ screen' = screen => AllShapely')
<1>1. Counted' BY DEF Counted
<1>2. screen' = screen => Members' = Members BY DEF Members
<1> QED BY <1>1, <1>2 DEF AllShapely

LEMMA HangUpFits ==
  ASSUME Counted, NEW then, HangUp(then)
  PROVE  Counted' /\ AllShapely'
<1>1. pcs' = <<>> /\ DOMAIN <<>> = {} /\ roster' = {} /\ mon' = mon BY DEF HangUp
<1> QED BY <1>1 DEF Counted, AllShapely

\* The monitor's run and an exchange that completes.
LEMMA ReshapesFit ==
  ASSUME Base, Counted,
         MonitorStarts \/ MonitorEnds \/ \E p \in DOMAIN pcs : Negotiated(p) \/ \E r \in Reports : MonitorSample(p, r)
  PROVE  Counted' /\ (AllShapely => AllShapely')
<1>1. UNCHANGED <<roster, flags>> BY Reshapers DEF Reshapes
<1>2. screen' = screen /\ Members' = Members /\ roster' = roster BY <1>1 DEF Members, flags
<1>3. Members \in Nat /\ screen \in BOOLEAN BY RosterFinite DEF Counted, Members, Base, FlagsTyped
<1>4. ASSUME NEW p \in DOMAIN pcs, NEW g, pcs' = [pcs EXCEPT ![p] = g], Well(g),
             Shapely(pcs[p], Members, screen) => Shapely(g, Members, screen),
             {"ceiling", "seen", "fps"} \subseteq DOMAIN mon', mon'.ceiling \in Nat
      PROVE  Counted' /\ (AllShapely => AllShapely')
  <2>1. DOMAIN pcs' = DOMAIN pcs /\ \A q \in DOMAIN pcs : pcs'[q] = IF q = p THEN g ELSE pcs[q] BY <1>4
  <2>2. Counted' BY <1>2, <1>4, <2>1 DEF Counted
  <2>3. ASSUME AllShapely PROVE AllShapely' BY <1>2, <1>4, <2>1, <2>3 DEF AllShapely
  <2> QED BY <2>2, <2>3
<1>5. CASE MonitorStarts
  <2>1. pcs' = pcs /\ mon' = [Idle EXCEPT !.ceiling = BitrateCapFor(Members, screen)] BY <1>5 DEF MonitorStarts
  <2>2. BitrateCapFor(Members, screen) \in Nat BY <1>3, CapIs
  <2> DEFINE cap == BitrateCapFor(Members, screen)
  <2>3. mon' = [Idle EXCEPT !.ceiling = cap] /\ cap \in Nat BY <2>1, <2>2
  <2> HIDE DEF cap
  <2>4. {"ceiling", "seen", "fps"} \subseteq DOMAIN mon' /\ mon'.ceiling \in Nat BY <2>3 DEF Idle
  <2> QED BY <1>2, <2>1, <2>4 DEF Counted, AllShapely
<1>6. CASE MonitorEnds
  <2>1. mon' = Idle BY <1>6 DEF MonitorEnds
  <2>2. PICK now : pcs' = pcs \/ pcs' = [p \in DOMAIN pcs |-> ApplyVideoBitrateCaps(pcs[p], Members, screen, now)]
    BY <1>6 DEF MonitorEnds
  <2>3. {"ceiling", "seen", "fps"} \subseteq DOMAIN mon' /\ mon'.ceiling \in Nat BY <2>1 DEF Idle
  <2>4. CASE pcs' = pcs BY <1>2, <2>3, <2>4 DEF Counted, AllShapely
  <2>5. CASE pcs' = [p \in DOMAIN pcs |-> ApplyVideoBitrateCaps(pcs[p], Members, screen, now)]
    <3>1. \A p \in DOMAIN pcs : Well(pcs[p]) BY DEF Counted
    <3>2. \A p \in DOMAIN pcs' : p \in DOMAIN pcs /\ pcs'[p] = ApplyVideoBitrateCaps(pcs[p], Members, screen, now) BY <2>5
    <3>3. \A p \in DOMAIN pcs' : Well(pcs'[p]) /\ Shapely(pcs'[p], Members, screen) BY <1>3, <3>1, <3>2, ShapedFits
    <3> QED BY <1>2, <2>3, <3>3 DEF Counted, AllShapely
  <2> QED BY <2>2, <2>4, <2>5
<1>7. ASSUME NEW p \in DOMAIN pcs, Negotiated(p) PROVE Counted' /\ (AllShapely => AllShapely')
  <2> DEFINE up == [pcs[p] EXCEPT !.ready = TRUE]
             g == ApplyVideoBitrateCaps(up, Members, screen, motion.active)
  <2>1. pcs' = [pcs EXCEPT ![p] = g] /\ mon' = mon BY <1>7 DEF Negotiated
  <2>2. Well(up) BY DEF Counted, Well, Numbers, LearnsFromLink
  <2> HIDE DEF up
  <2>3. Well(g) /\ Shapely(g, Members, screen) BY <1>3, <2>2, ShapedFits
  <2> HIDE DEF g
  <2>4. {"ceiling", "seen", "fps"} \subseteq DOMAIN mon' /\ mon'.ceiling \in Nat BY <2>1 DEF Counted
  <2> QED BY <1>4, <2>1, <2>3, <2>4
<1>8. ASSUME NEW p \in DOMAIN pcs, NEW r \in Reports, MonitorSample(p, r) PROVE Counted' /\ (AllShapely => AllShapely')
  <2> DEFINE pc == pcs[p]
             sends == pc.ready /\ \E i \in DOMAIN pc.vid : pc.vid[i] # 0
             seen == mon.seen \cup {p}
             fps == Max({mon.fps, r.fps})
             streak == IF UplinkStressed(r) THEN 0 ELSE Min({pc.streak + 1, ClimbAfter})
             prev == IF pc.target = 0 THEN mon.ceiling ELSE pc.target
             soft == SoftCeilingFor(pc.soft, mon.ceiling, prev, r, streak, screen)
             next == CongestionTarget(prev, Min({mon.ceiling, soft}), r, streak, screen)
             now == [pc EXCEPT !.streak = streak, !.soft = soft, !.target = next,
                               !.stressed = @ \/ r.linkBad, !.low = Min({@, mon.ceiling})]
             keep == next = pc.target
             g == IF keep THEN now ELSE ApplyVideoBitrateCaps(now, Members, screen, motion.active)
  <2>1. IF sends THEN mon' = [mon EXCEPT !.seen = seen, !.fps = fps] /\ pcs' = [pcs EXCEPT ![p] = g]
                 ELSE mon' = [mon EXCEPT !.seen = seen] /\ pcs' = pcs
    BY <1>8, Zenon DEF MonitorSample
  <2>2. Well(pc) /\ mon.ceiling \in Nat BY DEF Counted
  <2>3. /\ Numbers(now) /\ LearnsFromLink(now)
        /\ \A n : Shapely(pc, n, screen) => Shapely(now, n, screen)
    <3>1. Numbers(pc) /\ LearnsFromLink(pc) /\ mon.ceiling \in Nat /\ screen \in BOOLEAN BY <1>3, <2>2 DEF Well
    <3>2. now = Sampled(pc, mon.ceiling, r, screen) BY DEF Sampled
    <3> HIDE DEF pc, now
    <3> QED BY <3>1, <3>2, SampledIs
  <2> HIDE DEF sends, seen, fps, streak, prev, soft, next, now, keep
  <2>4. Well(g) /\ (Shapely(pc, Members, screen) => Shapely(g, Members, screen))
    <3>1. Well(now) BY <2>3 DEF Well
    <3> QED BY <1>3, <2>3, <3>1, ShapedFits
  <2> HIDE DEF g
  <2>5. {"ceiling", "seen", "fps"} \subseteq DOMAIN mon' /\ mon'.ceiling \in Nat BY <2>1 DEF Counted
  <2>6. CASE pcs' = [pcs EXCEPT ![p] = g] BY <1>4, <2>4, <2>5, <2>6
  <2>7. CASE pcs' = pcs BY <1>2, <2>5, <2>7 DEF Counted, AllShapely
  <2> QED BY <2>1, <2>6, <2>7
<1> QED BY <1>5, <1>6, <1>7, <1>8

\* A roster: who stays and who arrives are shaped for its size.
LEMMA OnVoiceStateFits ==
  ASSUME Base, Counted, NEW others \in SUBSET Peer, OnVoiceState(others)
  PROVE  Counted' /\ AllShapely'
<1> DEFINE open == [p \in others |-> IF p \in DOMAIN pcs THEN pcs[p] ELSE CreatePC]
           n == Cardinality(others) + 1
<1>1. pcs' = [p \in others |-> ApplyVideoBitrateCaps(open[p], n, screen, motion.active)] BY DEF OnVoiceState
<1>2. roster' = others /\ mon' = mon /\ screen' = screen BY DEF OnVoiceState, flags
<1>3. n \in Nat /\ Members' = n /\ screen \in BOOLEAN BY <1>2, RosterFinite DEF Members, Base, FlagsTyped
<1>4. \A p \in others : Well(open[p]) BY CreatedFits DEF Counted
<1> HIDE DEF open, n
<1>5. \A p \in DOMAIN pcs' : p \in others /\ pcs'[p] = ApplyVideoBitrateCaps(open[p], n, screen, motion.active) BY <1>1
<1>6. \A p \in DOMAIN pcs' : Well(pcs'[p]) /\ Shapely(pcs'[p], n, screen) BY <1>3, <1>4, <1>5, ShapedFits
<1> QED BY <1>2, <1>3, <1>6 DEF Counted, AllShapely

\* What an answer makes of the connections: at worst the picture is replaced, at
\* best it is shaped again.
LEMMA AnswerFits ==
  ASSUME Base, Counted, UNCHANGED <<roster, mon>>, DOMAIN pcs' = DOMAIN pcs,
         \A p \in DOMAIN pcs : Well(pcs'[p]) /\ (Shapely(pcs[p], Members, screen) => Shapely(pcs'[p], Members, screen'))
  PROVE  Counted' /\ (AllShapely => AllShapely')
<1>1. Members' = Members BY DEF Members
<1>2. Counted' BY DEF Counted
<1>3. ASSUME AllShapely PROVE AllShapely' BY <1>1, <1>3 DEF AllShapely
<1> QED BY <1>2, <1>3

LEMMA FirstGetsFits ==
  ASSUME Base, Counted, NEW x \in waits, FirstGets(x)
  PROVE  Counted' /\ (AllShapely => AllShapely')
<1>1. UNCHANGED <<roster, mon>> /\ screen' = screen BY DEF FirstGets
<1>2. CASE local = 0
  <2>1. pcs' = pcs BY <1>2 DEF FirstGets
  <2> QED BY <1>1, <2>1, FitStays
<1>3. CASE local # 0
  <2> DEFINE a == Len(tracks) + 1
             f == WithAudio(pcs, a)
  <2>1. pcs' = AttachVideoToPeers(f, a + 1, screen) BY <1>3 DEF FirstGets
  <2>2. DOMAIN f = DOMAIN pcs /\ \A p \in DOMAIN f : Well(f[p])
    <3>1. DOMAIN f = DOMAIN pcs BY DEF WithAudio
    <3>2. ASSUME NEW p \in DOMAIN f PROVE Well(f[p])
      <4>1. Alike(f[p], pcs[p]) /\ LearnsFromLink(pcs[p]) BY <3>1, NumbersKept DEF Counted, Well
      <4> QED BY <4>1 DEF Well, Alike, LearnsFromLink
    <3> QED BY <3>1, <3>2
  <2>3. HasSenders(f) /\ screen \in BOOLEAN BY <2>2 DEF HasSenders, Well, Numbers, Base, FlagsTyped
  <2> HIDE DEF f, a
  <2>4. DOMAIN pcs' = DOMAIN pcs BY <2>1, <2>2, <2>3, VideoSenders
  <2>5. \A p \in DOMAIN pcs : Well(pcs'[p]) /\ Shapely(pcs'[p], Members, screen') BY <1>1, <2>1, <2>2, <2>3, AppliedFits
  <2> QED BY <1>1, <2>4, <2>5, AnswerFits
<1> QED BY <1>2, <1>3

LEMMA RestoreGetsFits ==
  ASSUME Base, Counted, NEW x \in waits, NEW ok \in BOOLEAN, RestoreGets(x, ok)
  PROVE  Counted' /\ (AllShapely => AllShapely')
<1>1. UNCHANGED <<roster, mon>> /\ screen' = screen BY DEF RestoreGets, flags
<1>2. CASE ~(ok /\ local # 0)
  <2>1. pcs' = pcs BY <1>2 DEF RestoreGets
  <2> QED BY <1>1, <2>1, FitStays
<1>3. CASE ok /\ local # 0
  <2> DEFINE t == Len(tracks) + 1
             f == WithAudio(pcs, t)
  <2>1. pcs' = f BY <1>3 DEF RestoreGets
  <2>2. \A p \in DOMAIN pcs : Numbers(pcs[p]) /\ LearnsFromLink(pcs[p]) BY DEF Counted, Well
  <2>3. DOMAIN f = DOMAIN pcs /\ \A p \in DOMAIN pcs : Alike(f[p], pcs[p]) /\ f[p].vid = pcs[p].vid
    <3>1. HasSenders(pcs) /\ \A p \in DOMAIN pcs : Alike(f[p], pcs[p]) BY <2>2, NumbersKept
    <3>2. DOMAIN f = DOMAIN pcs /\ \A p \in DOMAIN pcs : Sends(f[p], Replaced(pcs[p].aud, t), pcs[p].vid)
      BY <3>1, AudioSenders
    <3> QED BY <3>1, <3>2 DEF Sends
  <2> HIDE DEF f
  <2>4. \A p \in DOMAIN pcs : Well(f[p]) /\ \A n, scr : Shapely(pcs[p], n, scr) => Shapely(f[p], n, scr)
    BY <2>2, <2>3, ShapelyAlike
  <2> QED BY <1>1, <2>1, <2>3, <2>4, AnswerFits
<1> QED BY <1>2, <1>3

\* The camera in the screen's place: every sender is shaped for a camera.
LEMMA SwitchGetsFits ==
  ASSUME Base, Counted, NEW x \in waits, NEW ok \in BOOLEAN, SwitchGets(x, ok)
  PROVE  Counted' /\ (AllShapely => AllShapely')
<1>1. UNCHANGED <<roster, mon>> BY DEF SwitchGets
<1>2. CASE ~(ok /\ local # 0)
  <2>1. pcs' = pcs /\ screen' = screen BY <1>2 DEF SwitchGets
  <2> QED BY <1>1, <2>1, FitStays
<1>3. CASE ok /\ local # 0
  <2> DEFINE t == Len(tracks) + 1
             f == WithVideo(pcs, t)
             g == WithoutSound(f)
             h == ResetScales(g)
  <2>1. pcs' = Applied(h, FALSE) /\ screen' = FALSE BY <1>3 DEF SwitchGets
  <2>2. \A p \in DOMAIN pcs : Well(pcs[p]) BY DEF Counted
  <2>3. DOMAIN f = DOMAIN pcs /\ DOMAIN g = DOMAIN f /\ DOMAIN h = DOMAIN g BY DEF WithVideo, WithoutSound, ResetScales
  <2>4. \A p \in DOMAIN pcs : Well(f[p])
    <3>1. \A p \in DOMAIN pcs : Alike(f[p], pcs[p]) BY <2>2, NumbersKept DEF Well
    <3> HIDE DEF f
    <3> QED BY <2>2, <3>1 DEF Well, Alike, LearnsFromLink
  <2> HIDE DEF f
  <2>5. \A p \in DOMAIN pcs : Well(g[p])
    <3>1. \A p \in DOMAIN f : Alike(g[p], f[p]) BY <2>3, <2>4, NumbersKept DEF Well
    <3> HIDE DEF g
    <3> QED BY <2>3, <2>4, <3>1 DEF Well, Alike, LearnsFromLink
  <2> HIDE DEF g
  <2>6. \A p \in DOMAIN pcs : Well(h[p])
    <3>1. \A p \in DOMAIN g : Alike(h[p], g[p]) BY <2>3, <2>5, NumbersKept DEF Well
    <3> HIDE DEF h
    <3> QED BY <2>3, <2>5, <3>1 DEF Well, Alike, LearnsFromLink
  <2> HIDE DEF h
  <2>7. \A p \in DOMAIN h : Well(h[p]) BY <2>3, <2>6
  <2>8. DOMAIN pcs' = DOMAIN pcs BY <2>1, <2>3 DEF Applied
  <2>9. \A p \in DOMAIN pcs : Well(pcs'[p]) /\ Shapely(pcs'[p], Members, screen') BY <2>1, <2>3, <2>7, AppliedFits
  <2> QED BY <1>1, <2>8, <2>9, AnswerFits
<1> QED BY <1>2, <1>3

\* Operators that leave the numbers alone keep every sender's fit.
LEMMA WellAlike ==
  ASSUME NEW f, \A p \in DOMAIN f : Well(f[p]), NEW g, DOMAIN g = DOMAIN f, \A p \in DOMAIN f : Alike(g[p], f[p])
  PROVE  \A p \in DOMAIN g : Well(g[p])
  BY DEF Well, Alike, LearnsFromLink

LEMMA QuietFits ==
  ASSUME NEW f, \A p \in DOMAIN f : Well(f[p]), NEW t
  PROVE  LET g == ResetScales(AttachScreenAudioToPeers(WithoutSound(f), t))
             h == ResetScales(f)
             o == ResetScales(WithoutSound(f))
         IN  /\ DOMAIN g = DOMAIN f /\ DOMAIN h = DOMAIN f /\ DOMAIN o = DOMAIN f
             /\ \A p \in DOMAIN f : /\ Well(g[p]) /\ Well(h[p]) /\ Well(o[p])
                                    /\ \A n, scr : Shapely(f[p], n, scr) =>
                                         Shapely(g[p], n, scr) /\ Shapely(h[p], n, scr) /\ Shapely(o[p], n, scr)
<1> DEFINE Same(a, b) == DOMAIN a = DOMAIN b /\ \A p \in DOMAIN b : Alike(a[p], b[p]) /\ a[p].vid = b[p].vid
<1>1. ASSUME NEW a, NEW b, Same(a, b), \A p \in DOMAIN b : Well(b[p])
      PROVE  \A p \in DOMAIN b : Well(a[p]) /\ \A n, scr : Shapely(b[p], n, scr) => Shapely(a[p], n, scr)
  <2> SUFFICES ASSUME NEW p \in DOMAIN b
               PROVE  Well(a[p]) /\ \A n, scr : Shapely(b[p], n, scr) => Shapely(a[p], n, scr)
    OBVIOUS
  <2>1. Alike(a[p], b[p]) /\ LearnsFromLink(b[p]) /\ (Filled(a[p].vid) => Filled(b[p].vid)) BY <1>1 DEF Well
  <2> QED BY <2>1, ShapelyAlike
<1>2. ASSUME NEW a, \A p \in DOMAIN a : Well(a[p])
      PROVE  Same(WithoutSound(a), a) /\ Same(AttachScreenAudioToPeers(a, t), a) /\ Same(ResetScales(a), a)
  <2>1. \A p \in DOMAIN a : Numbers(a[p]) BY <1>2 DEF Well
  <2>2. /\ HasSenders(a)
        /\ \A p \in DOMAIN a : /\ Alike(WithoutSound(a)[p], a[p]) /\ Alike(AttachScreenAudioToPeers(a, t)[p], a[p])
                               /\ Alike(ResetScales(a)[p], a[p])
    BY <2>1, NumbersKept
  <2>3. /\ DOMAIN AttachScreenAudioToPeers(a, t) = DOMAIN a /\ DOMAIN WithoutSound(a) = DOMAIN a
        /\ \A p \in DOMAIN a : /\ AttachScreenAudioToPeers(a, t)[p].vid = a[p].vid
                               /\ WithoutSound(a)[p].vid = a[p].vid
    BY <2>2, AudioSenders DEF Sends
  <2>4. DOMAIN ResetScales(a) = DOMAIN a /\ \A p \in DOMAIN a : ResetScales(a)[p].vid = a[p].vid
    BY <2>2, ShapedSenders DEF Sends
  <2> QED BY <2>2, <2>3, <2>4
<1> DEFINE a == WithoutSound(f)
           b == AttachScreenAudioToPeers(a, t)
           g == ResetScales(b)
           h == ResetScales(f)
           o == ResetScales(a)
<1>3. Same(a, f) /\ Same(h, f) BY <1>2
<1> HIDE DEF a, h
<1>4. \A p \in DOMAIN f : Well(a[p]) /\ \A n, scr : Shapely(f[p], n, scr) => Shapely(a[p], n, scr)
  <2> HIDE DEF Same
  <2> QED BY <1>1, <1>3
<1>5. \A p \in DOMAIN f : Well(h[p]) /\ \A n, scr : Shapely(f[p], n, scr) => Shapely(h[p], n, scr)
  <2> HIDE DEF Same
  <2> QED BY <1>1, <1>3
<1>6. DOMAIN a = DOMAIN f /\ DOMAIN h = DOMAIN f BY <1>3
<1>7. \A p \in DOMAIN a : Well(a[p]) BY <1>4, <1>6
<1>8. Same(b, a) /\ Same(o, a)
  <2> HIDE DEF Same
  <2> QED BY <1>2, <1>7
<1> HIDE DEF b, o
<1>9. DOMAIN b = DOMAIN f /\ DOMAIN o = DOMAIN f BY <1>6, <1>8
<1>10. \A p \in DOMAIN a : /\ Well(b[p]) /\ \A n, scr : Shapely(a[p], n, scr) => Shapely(b[p], n, scr)
                           /\ Well(o[p]) /\ \A n, scr : Shapely(a[p], n, scr) => Shapely(o[p], n, scr)
  <2> HIDE DEF Same
  <2> QED BY <1>1, <1>7, <1>8
<1>11. \A p \in DOMAIN b : Well(b[p]) BY <1>6, <1>9, <1>10
<1>12. Same(g, b)
  <2> HIDE DEF Same
  <2> QED BY <1>2, <1>11
<1> HIDE DEF g
<1>13. DOMAIN g = DOMAIN f BY <1>9, <1>12
<1>14. \A p \in DOMAIN b : Well(g[p]) /\ \A n, scr : Shapely(b[p], n, scr) => Shapely(g[p], n, scr)
  <2> HIDE DEF Same
  <2> QED BY <1>1, <1>11, <1>12
<1> QED BY <1>4, <1>5, <1>6, <1>9, <1>10, <1>13, <1>14 DEF a, b, g, h, o

\* The screen: what fitted a camera fits it too.
LEMMA DisplayGetsFits ==
  ASSUME Base, Counted, NEW x \in waits, NEW got \in {"cancel", "picture", "sound"}, DisplayGets(x, got)
  PROVE  Counted' /\ (AllShapely => AllShapely')
<1>1. UNCHANGED <<roster, mon>> BY DEF DisplayGets
<1>2. CASE got = "cancel" \/ local = 0
  <2>1. pcs' = pcs /\ screen' = screen BY <1>2 DEF DisplayGets
  <2> QED BY <1>1, <2>1, FitStays
<1>3. CASE ~(got = "cancel" \/ local = 0)
  <2> DEFINE t == Len(tracks) + 1
             f == IF FirstOf(Owned(local, Video)) # 0 THEN WithVideo(pcs, t) ELSE AttachVideoToPeers(pcs, t, screen)
  <2>1. /\ pcs' = ResetScales(f) \/ pcs' = ResetScales(AttachScreenAudioToPeers(WithoutSound(f), t + 1))
        /\ screen' = TRUE
    BY <1>3 DEF DisplayGets
  <2>2. /\ \A p \in DOMAIN pcs : Well(pcs[p])
        /\ HasSenders(pcs) /\ screen \in BOOLEAN /\ Members \in Nat /\ Len(tracks) \in Nat /\ t \in Nat
    <3>1. \A p \in DOMAIN pcs : Well(pcs[p]) BY DEF Counted
    <3>2. HasSenders(pcs) BY PcsHave DEF Base
    <3>3. Members \in Nat BY RosterFinite DEF Counted, Members
    <3>4. Len(tracks) \in Nat BY DEF Base, TracksTyped
    <3> QED BY <3>1, <3>2, <3>3, <3>4 DEF Base, FlagsTyped
  <2>3. /\ DOMAIN f = DOMAIN pcs
        /\ \A p \in DOMAIN pcs : Well(f[p]) /\ (Shapely(pcs[p], Members, screen) => Shapely(f[p], Members, screen))
    <3>1. CASE FirstOf(Owned(local, Video)) # 0
      <4> DEFINE g == WithVideo(pcs, t)
      <4>1. f = g BY <3>1
      <4>2. DOMAIN g = DOMAIN pcs /\ \A p \in DOMAIN pcs : Sends(g[p], pcs[p].aud, Replaced(pcs[p].vid, t))
        BY <2>2, VideoSenders
      <4>3. \A p \in DOMAIN pcs : Alike(g[p], pcs[p]) BY <2>2, NumbersKept DEF Well
      <4> HIDE DEF f, g, t
      <4>4. ASSUME NEW p \in DOMAIN pcs
            PROVE  Well(g[p]) /\ (Shapely(pcs[p], Members, screen) => Shapely(g[p], Members, screen))
        <5>1. pcs[p].vid \in Seq(0..Len(tracks)) BY DEF Base, PcsTyped, Carries
        <5>2. Filled(Replaced(pcs[p].vid, t)) => Filled(pcs[p].vid) BY <2>2, <5>1, ReplacedFills
        <5>3. g[p].vid = Replaced(pcs[p].vid, t) BY <4>2 DEF Sends
        <5>4. Alike(g[p], pcs[p]) /\ LearnsFromLink(pcs[p]) BY <2>2, <4>3 DEF Well
        <5> QED BY <5>2, <5>3, <5>4, ShapelyAlike
      <4> QED BY <4>1, <4>2, <4>4
    <3>2. CASE FirstOf(Owned(local, Video)) = 0
      <4> DEFINE g == AttachVideoToPeers(pcs, t, screen)
      <4>1. f = g BY <3>2
      <4>2. DOMAIN g = DOMAIN pcs BY <2>2, VideoSenders
      <4>3. \A p \in DOMAIN pcs : Well(g[p]) /\ Shapely(g[p], Members, screen) BY <2>2, AppliedFits
      <4> QED BY <4>1, <4>2, <4>3
    <3> QED BY <3>1, <3>2
  <2> HIDE DEF f, t
  <2>4. /\ DOMAIN pcs' = DOMAIN pcs
        /\ \A p \in DOMAIN pcs : Well(pcs'[p]) /\ (Shapely(f[p], Members, screen) => Shapely(pcs'[p], Members, screen))
    <3>1. \A p \in DOMAIN f : Well(f[p]) BY <2>3
    <3> DEFINE u == t + 1
               g == ResetScales(AttachScreenAudioToPeers(WithoutSound(f), u))
               h == ResetScales(f)
    <3>2. /\ DOMAIN g = DOMAIN f /\ DOMAIN h = DOMAIN f
          /\ \A p \in DOMAIN f : Well(g[p]) /\ Well(h[p])
          /\ \A p \in DOMAIN f : \A n, scr : Shapely(f[p], n, scr) => Shapely(g[p], n, scr) /\ Shapely(h[p], n, scr)
      BY <3>1, QuietFits
    <3>3. pcs' = g \/ pcs' = h BY <2>1
    <3> HIDE DEF g, h
    <3> QED BY <2>3, <3>2, <3>3
  <2>5. \A p \in DOMAIN pcs : Shapely(pcs'[p], Members, screen) => Shapely(pcs'[p], Members, screen')
    <3> SUFFICES ASSUME NEW p \in DOMAIN pcs, Shapely(pcs'[p], Members, screen) PROVE Shapely(pcs'[p], Members, TRUE)
      BY <2>1
    <3>1. Numbers(pcs'[p]) BY <2>4 DEF Well
    <3> QED BY <2>2, <3>1, ShapelyWider
  <2> QED BY <1>1, <2>3, <2>4, <2>5, AnswerFits
<1> QED BY <1>2, <1>3

\* A sender's pictures: one at most.
One(vid) == \A i, j \in DOMAIN vid : vid[i] # 0 /\ vid[j] # 0 => i = j

LEMMA ReplacedOne ==
  ASSUME NEW n \in Nat, NEW vid \in Seq(0..n), NEW t \in Nat, One(vid)
  PROVE  One(Replaced(vid, t)) /\ (t = 0 \/ ~Filled(vid) => ~Filled(Replaced(vid, t)))
<1>1. CASE ~Filled(vid)
  <2>1. Replaced(vid, t) = vid BY <1>1, ReplacedIs DEF Filled
  <2> QED BY <1>1, <2>1
<1>2. CASE Filled(vid)
  <2>1. PICK k \in DOMAIN vid : vid[k] # 0 BY <1>2 DEF Filled
  <2>2. \A i \in DOMAIN vid : vid[i] # 0 => i = k BY <2>1 DEF One
  <2>3. \A i \in DOMAIN vid : vid[i] # 0 => k <= i BY <2>2
  <2>4. Replaced(vid, t) = [vid EXCEPT ![k] = t] BY <2>1, <2>3, ReplacedIs
  <2>5. /\ DOMAIN Replaced(vid, t) = DOMAIN vid
        /\ \A i \in DOMAIN vid : Replaced(vid, t)[i] = IF i = k THEN t ELSE vid[i]
    BY <2>4
  <2> QED BY <1>2, <2>2, <2>5 DEF One, Filled
<1> QED BY <1>1, <1>2

\* A share turned off leaves no picture to send.
LEMMA ShareOffFits ==
  ASSUME Base, Counted, NEW E, ShareOff(E), UNCHANGED <<chan, gen, local, muted, listen, waits>>, UNCHANGED <<roster, mon>>
  PROVE  Counted' /\ ((\A p \in DOMAIN pcs : One(pcs[p].vid)) => AllShapely')
<1> DEFINE f == WithVideo(pcs, 0)
<1>1. \A p \in DOMAIN pcs : Well(pcs[p]) BY DEF Counted
<1>2. DOMAIN f = DOMAIN pcs /\ \A p \in DOMAIN f : Well(f[p])
  <2>1. DOMAIN f = DOMAIN pcs BY DEF WithVideo
  <2>2. \A p \in DOMAIN pcs : Alike(f[p], pcs[p]) BY <1>1, NumbersKept DEF Well
  <2> HIDE DEF f
  <2> QED BY <1>1, <2>1, <2>2, WellAlike
<1>3. pcs' = ResetScales(WithoutSound(f)) BY DEF ShareOff
<1> HIDE DEF f
<1> DEFINE o == ResetScales(WithoutSound(f))
<1>4. DOMAIN o = DOMAIN f /\ \A p \in DOMAIN f : Well(o[p]) BY <1>2, QuietFits
<1>5. pcs' = o BY <1>3
<1> HIDE DEF o
<1>6. Counted' BY <1>2, <1>4, <1>5 DEF Counted
<1>7. ASSUME \A p \in DOMAIN pcs : One(pcs[p].vid), NEW p \in DOMAIN pcs' PROVE ~Filled(pcs'[p].vid)
  <2>1. p \in DOMAIN pcs /\ pcs'[p].vid = Replaced(pcs[p].vid, 0) BY ShareOffBase DEF Sends
  <2>2. pcs[p].vid \in Seq(0..Len(tracks)) /\ Len(tracks) \in Nat BY <2>1 DEF Base, PcsTyped, Carries, TracksTyped
  <2>3. One(pcs[p].vid) BY <1>7, <2>1
  <2>4. ~Filled(Replaced(pcs[p].vid, 0)) BY <2>2, <2>3, ReplacedOne
  <2> QED BY <2>1, <2>4
<1>8. ASSUME \A p \in DOMAIN pcs : One(pcs[p].vid) PROVE AllShapely' BY <1>7, <1>8 DEF AllShapely, Shapely
<1> QED BY <1>6, <1>8

-----------------------------------------------------------------------------
(* One picture at most: a stream's and a connection's.                      *)

LEMMA AttachedOne ==
  ASSUME NEW n \in Nat, NEW vid \in Seq(0..n), NEW t \in Nat, ~Filled(vid)
  PROVE  One(Attached(vid, t))
<1> DEFINE I == {i \in 1..Len(vid) : vid[i] = 0}
<1>1. Attached(vid, t) = IF I = {} THEN Append(vid, t) ELSE IF Min(I) = 0 THEN Append(vid, t) ELSE [vid EXCEPT ![Min(I)] = t]
  BY DEF Attached, SelectInSeq, ReplaceAt
<1>2. I \subseteq Nat /\ 0 \notin I /\ DOMAIN vid = 1..Len(vid) /\ Len(vid) \in Nat OBVIOUS
<1>3. \A i \in DOMAIN vid : vid[i] = 0 BY DEF Filled
<1>4. CASE I = {}
  <2>1. Attached(vid, t) = Append(vid, t) BY <1>1, <1>4
  <2>2. \A i \in DOMAIN Append(vid, t) : i \in DOMAIN vid \/ i = Len(vid) + 1 OBVIOUS
  <2>3. \A i \in DOMAIN vid : Append(vid, t)[i] = vid[i] OBVIOUS
  <2> QED BY <1>3, <2>1, <2>2, <2>3 DEF One
<1>5. CASE I # {}
  <2> DEFINE k == Min(I)
  <2>1. k \in I BY <1>2, <1>5, LeastOf
  <2> HIDE DEF k
  <2>2. Attached(vid, t) = [vid EXCEPT ![k] = t] BY <1>1, <1>2, <1>5, <2>1 DEF k
  <2>3. \A i \in DOMAIN Attached(vid, t) : i \in DOMAIN vid /\ (i # k => Attached(vid, t)[i] = vid[i]) BY <2>2
  <2> QED BY <1>3, <2>3 DEF One
<1> QED BY <1>4, <1>5

\* One device is awaited at a time; a camera is asked for anew by a stream without
\* a picture, and a stream without a picture is sent by no sender.
Lean(vid, views) == One(vid) /\ (views = {} => ~Filled(vid))
OnePicture ==
  /\ Single(Waiting(Devices))
  /\ InCall => /\ Single(Views) /\ (Awaits({"first"}) # {} => Views = {})
               /\ \A p \in DOMAIN pcs : Lean(pcs[p].vid, Views)
Pictured == Spared({"overlap", "late", "joins"}) => OnePicture

LEMMA PictureStays ==
  ASSUME OnePicture, UNCHANGED local, Views' = Views, InCall' => InCall, Waiting(Devices)' = Waiting(Devices),
         \A p \in DOMAIN pcs' : p \in DOMAIN pcs /\ pcs'[p].vid = pcs[p].vid
  PROVE  OnePicture'
<1>1. Awaits({"first"}) = {x \in Waiting(Devices) : x.op = "first" /\ x.stream = local}
  BY DEF Awaits, Waiting, Devices
<1>2. Awaits({"first"})' = {x \in Waiting(Devices)' : x.op = "first" /\ x.stream = local'}
  BY DEF Awaits, Waiting, Devices
<1>3. Awaits({"first"})' = Awaits({"first"}) BY <1>1, <1>2
<1>4. Single(Waiting(Devices)') BY DEF OnePicture
<1>5. ASSUME InCall', NEW p \in DOMAIN pcs' PROVE Lean(pcs'[p].vid, Views') BY <1>5 DEF OnePicture
<1> QED BY <1>3, <1>4, <1>5 DEF OnePicture, Single

LEMMA PictureAnswered ==
  ASSUME OnePicture, NEW x \in waits, x.op \in Devices, waits' = waits \ {x}
  PROVE  /\ Waiting(Devices) = {x}
         /\ (InCall' => Single(Views') /\ \A p \in DOMAIN pcs' : Lean(pcs'[p].vid, Views')) => OnePicture'
<1>1. x \in Waiting(Devices) BY DEF Waiting
<1>2. Waiting(Devices) = {x} BY <1>1 DEF OnePicture, Single
<1>3. Waiting(Devices)' = {} BY <1>2 DEF Waiting
<1>4. Awaits({"first"})' = {} BY <1>3 DEF Awaits, Waiting, Devices
<1> QED BY <1>2, <1>3, <1>4 DEF OnePicture, Single

LEMMA CameraPicture ==
  ASSUME Base, OnePicture, NEW on \in BOOLEAN, SetCameraEnabled(on), ~Overlaps
  PROVE  OnePicture'
<1>1. /\ TracksTyped /\ InCall /\ InCall' /\ UNCHANGED <<chan, local>> /\ screen' = screen /\ local # 0 /\ pcs' = pcs
  BY CameraCases DEF Base, Capturing, InCall, net
<1>2. Waiting(Devices) = {} BY DEF Overlaps, Devices
<1>3. Single(Views) /\ \A p \in DOMAIN pcs : Lean(pcs[p].vid, Views) BY <1>1 DEF OnePicture
<1>4. CASE /\ on /\ screen /\ waits' = waits \cup {Wait("switch", None, FALSE)}
           /\ UNCHANGED <<tracks, camera, posture>>
  <2> DEFINE w == Wait("switch", None, FALSE)
  <2>1. w.op = "switch" BY DEF Wait
  <2>2. waits' = waits \cup {w} BY <1>4
  <2> HIDE DEF w
  <2>3. Waiting(Devices)' = {w} /\ Awaits({"first"})' = {} BY <1>2, <2>1, <2>2 DEF Waiting, Devices, Awaits
  <2>4. Views' = Views BY <1>1, <1>4, StreamStays
  <2> QED BY <1>1, <1>3, <2>3, <2>4 DEF OnePicture, Single
<1>5. CASE /\ on /\ ~screen /\ Owned(local, Video) = {}
           /\ Grown({FirstOf(Owned(local, {"mic"}))} \ {0}, <<>>)
           /\ waits' = waits \cup {Wait("first", None, FALSE)}
           /\ UNCHANGED <<camera, posture>>
  <2> DEFINE w == Wait("first", None, FALSE)
             S == {FirstOf(Mics)} \ {0}
             new == <<>>
  <2>1. w.op = "first" BY DEF Wait
  <2>2. waits' = waits \cup {w} BY <1>5
  <2>3. Grown(S, new) /\ Views = {} BY <1>5 DEF Mics, Views
  <2>4. Among(new, Video) = {} BY DEF Among
  <2> HIDE DEF w, S, new
  <2>5. Views' = (Views \ S) \cup Later(Among(new, Video)) BY <1>1, <2>3, StreamGrows
  <2>6. Views' = {} BY <2>3, <2>4, <2>5 DEF Later
  <2>7. Waiting(Devices)' = {w} BY <1>2, <2>1, <2>2 DEF Waiting, Devices
  <2> QED BY <1>1, <1>3, <2>3, <2>6, <2>7 DEF OnePicture, Single
<1>6. ASSUME Views' = Views, waits' = waits PROVE OnePicture'
  <2>1. Waiting(Devices)' = Waiting(Devices) BY <1>6 DEF Waiting
  <2> QED BY <1>1, <1>6, <2>1, PictureStays
<1>7. CASE /\ Owned(local, Video) # {} /\ ~(on /\ screen)
           /\ Switched(Owned(local, Video), on) /\ camera' = on
           /\ posture' = Announce(muted, on, screen, listen) /\ UNCHANGED waits
  <2>1. Views' = Views BY <1>1, <1>7, SwitchedOwned DEF Views
  <2> QED BY <1>6, <1>7, <2>1
<1>8. CASE /\ ~on /\ Owned(local, Video) = {}
           /\ posture' = Announce(muted, camera, screen, listen) /\ UNCHANGED <<waits, tracks, camera>>
  BY <1>1, <1>6, <1>8, StreamStays
<1> QED BY <1>4, <1>5, <1>7, <1>8, CameraCases

LEMMA ShareOffPicture ==
  ASSUME Base, OnePicture, NEW E, ShareOff(E), UNCHANGED <<chan, gen, local, muted, listen, waits>>, Capturing,
         \A i \in E : i \in 1..Len(tracks) /\ tracks[i].kind = "screen"
  PROVE  OnePicture' /\ \A p \in DOMAIN pcs : One(pcs[p].vid)
<1>1. local # 0 /\ InCall /\ InCall' /\ Single(Views) BY DEF Capturing, OnePicture, InCall
<1>2. Waiting(Devices)' = Waiting(Devices) BY DEF Waiting
<1>3. Views' = {} BY <1>1, ShareOffStream
<1>4. /\ DOMAIN pcs' = DOMAIN pcs
      /\ \A p \in DOMAIN pcs : Sends(pcs'[p], Unsounded(pcs[p].aud), Replaced(pcs[p].vid, 0))
  BY ShareOffBase
<1>5. ASSUME NEW p \in DOMAIN pcs PROVE One(pcs[p].vid) /\ Lean(pcs'[p].vid, {})
  <2>1. One(pcs[p].vid) BY <1>1 DEF OnePicture, Lean
  <2>2. pcs[p].vid \in Seq(0..Len(tracks)) /\ Len(tracks) \in Nat BY DEF Base, PcsTyped, Carries, TracksTyped
  <2>3. One(Replaced(pcs[p].vid, 0)) /\ ~Filled(Replaced(pcs[p].vid, 0)) BY <2>1, <2>2, ReplacedOne
  <2>4. pcs'[p].vid = Replaced(pcs[p].vid, 0) BY <1>4 DEF Sends
  <2> QED BY <2>1, <2>3, <2>4 DEF Lean
<1>6. Single(Waiting(Devices)) BY DEF OnePicture
<1> QED BY <1>1, <1>2, <1>3, <1>4, <1>5, <1>6 DEF OnePicture, Single

LEMMA AnswersPicture ==
  ASSUME Base, OnePicture, Spared({"late"})', NEW x \in waits,
         \/ FirstGets(x)
         \/ \E ok \in BOOLEAN : RestoreGets(x, ok) \/ SwitchGets(x, ok)
         \/ \E got \in {"cancel", "picture", "sound"} : DisplayGets(x, got)
  PROVE  OnePicture'
<1> DEFINE L == Len(tracks)
<1>1. TracksTyped /\ L \in Nat /\ \A p \in DOMAIN pcs : pcs[p].vid \in Seq(0..L)
  BY DEF Base, TracksTyped, PcsTyped, Carries
<1>2. InCall => Single(Views) /\ \A p \in DOMAIN pcs : Lean(pcs[p].vid, Views) BY DEF OnePicture
<1>3. ASSUME x.op \in Devices, waits' = waits \ {x}, UNCHANGED <<chan, local>>, Views' = Views,
             DOMAIN pcs' = DOMAIN pcs, \A p \in DOMAIN pcs : pcs'[p].vid = pcs[p].vid
      PROVE  OnePicture'
  <2>1. InCall' => InCall BY <1>3 DEF InCall
  <2> QED BY <1>2, <1>3, <2>1, PictureAnswered DEF Single
\* A new picture: in the place of the old one, or where there was none.
<1>4. ASSUME x.op \in Devices, waits' = waits \ {x}, UNCHANGED chan, NEW v, NEW t \in Nat, InCall => Views' = {v},
             DOMAIN pcs' = DOMAIN pcs,
             \A p \in DOMAIN pcs : \/ pcs'[p].vid = Replaced(pcs[p].vid, t)
                                   \/ pcs'[p].vid = Attached(pcs[p].vid, t) /\ (InCall => Views = {})
      PROVE  OnePicture'
  <2>1. InCall' => InCall BY <1>4 DEF InCall
  <2>2. ASSUME InCall, NEW p \in DOMAIN pcs PROVE Lean(pcs'[p].vid, {v})
    <3>1. Lean(pcs[p].vid, Views) BY <1>2, <2>2
    <3>2. One(pcs'[p].vid)
      <4>1. CASE pcs'[p].vid = Replaced(pcs[p].vid, t) BY <1>1, <3>1, <4>1, ReplacedOne DEF Lean
      <4>2. CASE pcs'[p].vid = Attached(pcs[p].vid, t) /\ Views = {} BY <1>1, <3>1, <4>2, AttachedOne DEF Lean
      <4> QED BY <1>4, <2>2, <4>1, <4>2
    <3> QED BY <3>2 DEF Lean
  <2> QED BY <1>4, <2>1, <2>2, PictureAnswered DEF Single
<1>5. CASE FirstGets(x)
  <2>1. x.op = "first" /\ x.op \in Devices /\ waits' = waits \ {x} /\ UNCHANGED <<chan, local>> /\ Answered(x) \subseteq raced'
    BY <1>5 DEF FirstGets, Devices, Races
  <2>2. x.stream = local /\ local # 0 BY <2>1, AnswersCurrent
  <2>3. InCall => Views = {}
    <3>1. x \in Awaits({"first"}) BY <2>1, <2>2 DEF Awaits, Waiting
    <3> QED BY <3>1 DEF OnePicture
  <2> DEFINE t == L + 2
  <2>a. t \in Nat BY <1>1
  <2>4. Views' = Views \cup {t} BY <1>5, <2>2, FirstGetsStream
  <2>5. DOMAIN pcs' = DOMAIN pcs /\ \A p \in DOMAIN pcs : pcs'[p].vid = Attached(pcs[p].vid, t)
    BY <1>5, <2>2, FirstGetsBase DEF Sends
  <2> HIDE DEF t
  <2> QED BY <1>4, <2>1, <2>3, <2>4, <2>5, <2>a
<1>6. ASSUME NEW ok \in BOOLEAN, RestoreGets(x, ok) PROVE OnePicture'
  <2>1. x.op = "restore" /\ x.op \in Devices /\ waits' = waits \ {x} /\ UNCHANGED <<chan, local>> /\ Answered(x) \subseteq raced'
    BY <1>6 DEF RestoreGets, Devices, Races
  <2>2. x.stream = local /\ local # 0 BY <2>1, AnswersCurrent
  <2>3. DOMAIN pcs' = DOMAIN pcs /\ \A p \in DOMAIN pcs : pcs'[p].vid = pcs[p].vid
    BY <1>6, RestoreGetsBase DEF Sends
  <2>4. Views' = Views
    <3>1. CASE ok = TRUE BY <1>6, <2>2, <3>1, RestoreGetsStream
    <3>2. CASE ok = FALSE
      <4>1. tracks' = tracks BY <1>6, <3>2 DEF RestoreGets
      <4> QED BY <2>1, <4>1, StreamStays
    <3> QED BY <3>1, <3>2
  <2> QED BY <1>3, <2>1, <2>3, <2>4
<1>7. ASSUME x.op \in Devices, waits' = waits \ {x}, UNCHANGED <<chan, local, tracks, pcs>> PROVE OnePicture'
  <2>1. Views' = Views BY <1>7, StreamStays
  <2> QED BY <1>3, <1>7, <2>1
<1>8. ASSUME NEW ok \in BOOLEAN, SwitchGets(x, ok) PROVE OnePicture'
  <2>1. x.op = "switch" /\ x.op \in Devices /\ waits' = waits \ {x} /\ UNCHANGED <<chan, local>>
    BY <1>8 DEF SwitchGets, Devices
  <2>2. CASE ok = FALSE
    <3>1. UNCHANGED <<tracks, pcs>> BY <1>8, <2>2 DEF SwitchGets
    <3> QED BY <1>7, <2>1, <3>1
  <2>3. CASE ok = TRUE
    <3>1. Answered(x) \subseteq raced' BY <1>8, <2>3 DEF SwitchGets, Races
    <3>2. x.stream = local /\ local # 0 BY <2>1, <3>1, AnswersCurrent
    <3> DEFINE t == L + 1
    <3>3. t \in Nat BY <1>1
    <3>5. DOMAIN pcs' = DOMAIN pcs /\ \A p \in DOMAIN pcs : pcs'[p].vid = Replaced(pcs[p].vid, t)
      BY <1>8, <2>3, <3>2, SwitchGetsBase DEF Sends
    <3>4. InCall => Views' = {t} BY <1>2, <1>8, <2>3, <3>2, SwitchGetsStream
    <3> HIDE DEF t
    <3> QED BY <1>4, <2>1, <3>3, <3>4, <3>5
  <2> QED BY <2>2, <2>3
<1>9. ASSUME NEW got \in {"cancel", "picture", "sound"}, DisplayGets(x, got) PROVE OnePicture'
  <2>1. x.op = "display" /\ x.op \in Devices /\ waits' = waits \ {x} /\ UNCHANGED <<chan, local>>
    BY <1>9 DEF DisplayGets, Devices
  <2>2. CASE got = "cancel"
    <3>1. UNCHANGED <<tracks, pcs>> BY <1>9, <2>2 DEF DisplayGets
    <3> QED BY <1>7, <2>1, <3>1
  <2>3. CASE got # "cancel"
    <3>1. got \in {"picture", "sound"} /\ Answered(x) \subseteq raced' BY <1>9, <2>3 DEF DisplayGets, Races
    <3>2. x.stream = local /\ local # 0 BY <2>1, <3>1, AnswersCurrent
    <3> DEFINE t == L + 1
               old == FirstOf(Views)
    <3>3. /\ t \in Nat /\ DOMAIN pcs' = DOMAIN pcs
          /\ \A p \in DOMAIN pcs : pcs'[p].vid = IF old # 0 THEN Replaced(pcs[p].vid, t) ELSE Attached(pcs[p].vid, t)
      BY <1>1, <1>9, <2>3, <3>2, DisplayGetsBase DEF Sends, Shown, Views
    <3>4. InCall => Views' = {t} BY <1>2, <1>9, <3>1, <3>2, DisplayGetsStream
    <3>5. InCall /\ old = 0 => Views = {}
      <4>1. Views \in SUBSET (Nat \ {0}) BY <1>1, StreamOf
      <4> QED BY <1>2, <4>1, OneFirst
    <3> HIDE DEF t, old
    <3> QED BY <1>4, <2>1, <3>3, <3>4, <3>5
  <2> QED BY <2>2, <2>3
<1> QED BY <1>5, <1>6, <1>8, <1>9

LEMMA CapturePictured ==
  ASSUME Base, Silent, Pictured, Capture
  PROVE  Pictured'
<1> DEFINE K == {"overlap", "late", "joins"}
<1> SUFFICES ASSUME Spared(K)' PROVE OnePicture'
  BY DEF Pictured
<1>1. OnePicture /\ Obeys /\ TracksTyped BY RacedGrows DEF Pictured, Silent, Spared, Base
<1>2. ASSUME ~InCall', Waiting(Devices)' = Waiting(Devices) PROVE OnePicture'
  BY <1>1, <1>2 DEF OnePicture, Single
<1>3. ASSUME NEW op \in Ops \ Devices, NEW to, NEW video, waits' = waits \cup {Wait(op, to, video)}
      PROVE  Waiting(Devices)' = Waiting(Devices)
  <2> DEFINE y == Wait(op, to, video)
  <2>1. y.op = op BY DEF Wait
  <2> HIDE DEF y
  <2> QED BY <1>3, <2>1 DEF y, Waiting
<1>4. ASSUME NEW op \in Tones, NEW to, NEW video, HangUp(Wait(op, to, video)) PROVE OnePicture'
  <2>1. op \in Ops \ Devices BY DEF Ops, Tones, Devices
  <2>2. chan' = None /\ waits' = waits \cup {Wait(op, to, video)} BY <1>4 DEF HangUp
  <2> QED BY <1>2, <1>3, <2>1, <2>2 DEF InCall
<1>5. CASE Leave BY <1>4, <1>5 DEF Leave, Tones
<1>6. ASSUME RacesIf(Overlaps, "overlap") PROVE ~Overlaps BY <1>6 DEF RacesIf, Races, Spared
<1>7. CASE CameraClick
  <2>1. SetCameraEnabled(screen \/ ~camera) /\ ~Overlaps BY <1>6, <1>7 DEF CameraClick
  <2>2. (screen \/ ~camera) \in BOOLEAN BY Zenon
  <2> QED BY <1>1, <2>1, <2>2, CameraPicture
<1>8. CASE VideoFull
  <2>1. SetCameraEnabled(FALSE) /\ ~Overlaps BY <1>6, <1>8 DEF VideoFull
  <2> QED BY <1>1, <2>1, CameraPicture
<1>9. CASE ShareClick
  <2>1. UNCHANGED <<chan, gen, local, muted, listen>> /\ Capturing BY <1>9, ShareClickBase
  <2>2. ~Overlaps BY <1>6, <1>9 DEF ShareClick
  <2>3. CASE ShareOff({}) /\ UNCHANGED waits BY <1>1, <2>1, <2>3, ShareOffPicture
  <2>4. CASE waits' = waits \cup {Wait("display", None, FALSE)} /\ UNCHANGED <<tracks, pcs>>
    <3> DEFINE y == Wait("display", None, FALSE)
    <3>1. y.op = "display" BY DEF Wait
    <3> HIDE DEF y
    <3>2. Waiting(Devices) = {} BY <2>2 DEF Overlaps, Devices
    <3>3. Waiting(Devices)' = {y} BY <2>4, <3>1, <3>2 DEF y, Waiting, Devices
    <3>4. Awaits({"first"})' = {} BY <3>1, <3>3 DEF Awaits, Waiting, Devices
    <3>5. Views' = Views BY <2>1, <2>4, StreamStays
    <3>6. InCall' => InCall BY <2>1 DEF InCall
    <3> QED BY <1>1, <2>4, <3>3, <3>4, <3>5, <3>6 DEF OnePicture, Single
  <2> QED BY <1>9, <2>3, <2>4, ShareClickBase
<1>10. ASSUME UNCHANGED <<chan, local, tracks>>, Waiting(Devices)' = Waiting(Devices),
              \A p \in DOMAIN pcs' : p \in DOMAIN pcs /\ pcs'[p].vid = pcs[p].vid
       PROVE  OnePicture'
  <2>1. Views' = Views BY <1>10, StreamStays
  <2>2. InCall' => InCall BY <1>10 DEF InCall
  <2> QED BY <1>1, <1>10, <2>1, <2>2, PictureStays
<1>11. ASSUME MonitorStarts \/ MonitorEnds \/ \E p \in DOMAIN pcs : Negotiated(p) \/ \E r \in Reports : MonitorSample(p, r)
       PROVE  OnePicture'
  <2>1. Reshapes BY <1>11, Reshapers
  <2> QED BY <1>10, <2>1 DEF Reshapes, Waiting, Sends
<1>12. ASSUME NEW c \in Chan, NEW video \in BOOLEAN, JoinVoiceChannel(c, video) PROVE OnePicture'
  <2>1. CASE InCall BY <1>4, <1>12, <2>1 DEF JoinVoiceChannel, Tones
  <2>2. CASE ~InCall
    <3>1. "join" \in Ops \ Devices BY DEF Ops, Devices
    <3>2. chan' = chan /\ waits' = waits \cup {Wait("join", c, video)} BY <1>12, <2>2 DEF JoinVoiceChannel
    <3> QED BY <1>2, <1>3, <2>2, <3>1, <3>2 DEF InCall
  <2> QED BY <2>1, <2>2
<1>13. ASSUME NEW m \in BOOLEAN, SetVoiceMuted(m) PROVE OnePicture'
  <2> DEFINE z == ~m
  <2>1. z \in BOOLEAN BY Zenon
  <2>2. Switched(Owned(local, {"mic"}), z) BY <1>13, MuteBase
  <2>3. UNCHANGED <<chan, local, waits, pcs>> BY <1>13 DEF SetVoiceMuted, net
  <2> HIDE DEF z
  <2>4. Views' = Views BY <1>1, <2>1, <2>2, <2>3, SwitchedOwned DEF Views
  <2>5. Waiting(Devices)' = Waiting(Devices) /\ (InCall' => InCall) BY <2>3 DEF Waiting, InCall
  <2> QED BY <1>1, <2>3, <2>4, <2>5, PictureStays
<1>14. ASSUME NEW i \in DOMAIN tracks, ScreenEnds(i) PROVE OnePicture'
  <2>1. UNCHANGED <<chan, gen, local, muted, listen, waits>> /\ tracks[i].kind = "screen" BY <1>14, ScreenEndsBase
  <2>2. CASE Capturing /\ ShareOff({i})
    <3>1. \A j \in {i} : j \in 1..Len(tracks) /\ tracks[j].kind = "screen" BY <1>1, <2>1 DEF TracksTyped
    <3> QED BY <1>1, <2>1, <2>2, <3>1, ShareOffPicture
  <2>3. CASE ~Capturing /\ UNCHANGED pcs
    <3>1. Waiting(Devices)' = Waiting(Devices) /\ (InCall' => InCall) BY <2>1 DEF InCall, Waiting
    <3>2. CASE ~InCall BY <1>2, <3>1, <3>2
    <3>3. CASE InCall
      <4>1. local = 0 /\ local' = 0 BY <2>1, <2>3, <3>3 DEF Capturing
      <4>2. Views = {} /\ Views' = {} BY <4>1 DEF Views, Owned
      <4> QED BY <1>1, <2>1, <2>3, <3>1, <4>2, PictureStays
    <3> QED BY <3>2, <3>3
  <2> QED BY <1>14, <2>2, <2>3, ScreenEndsBase
<1>15. ASSUME NEW S \in SUBSET Peer, OnVoiceState(S) PROVE OnePicture'
  <2>1. UNCHANGED <<chan, local, tracks, waits>> /\ InCall BY <1>15 DEF OnVoiceState
  <2>2. /\ DOMAIN pcs' = S
        /\ \A p \in S \cap DOMAIN pcs : Sends(pcs'[p], pcs[p].aud, pcs[p].vid)
        /\ \A p \in S \ DOMAIN pcs : Sends(pcs'[p], CreatePC.aud, CreatePC.vid)
    BY <1>15, OnVoiceStateBase
  <2>3. Views' = Views /\ Waiting(Devices)' = Waiting(Devices) /\ Awaits({"first"})' = Awaits({"first"}) /\ InCall'
    BY <2>1, StreamStays DEF Waiting, Awaits, InCall
  <2>4. Lean(CreatePC.vid, Views)
    <3>1. Single(Views) /\ Views \subseteq 1..Len(tracks) BY <1>1, <2>1, StreamOf DEF OnePicture
    <3>2. CASE Views = {}
      <4>1. CreatePC.vid = <<>> BY <1>1, <3>2, CreatedIs DEF Views
      <4> QED BY <4>1 DEF Lean, One, Filled
    <3>3. CASE Views # {}
      <4>1. PICK v \in 1..Len(tracks) : Views = {v} BY <3>1, <3>3 DEF Single
      <4>2. CreatePC.vid = <<v>> BY <1>1, <4>1, CreatedIs DEF Views
      <4> QED BY <3>3, <4>2 DEF Lean, One
    <3> QED BY <3>2, <3>3
  <2>5. \A p \in DOMAIN pcs' : Lean(pcs'[p].vid, Views) BY <1>1, <2>1, <2>2, <2>4 DEF Sends, OnePicture
  <2> QED BY <1>1, <2>1, <2>3, <2>5 DEF OnePicture, Single
<1>16. ASSUME NEW x \in waits, ToneEnds(x) PROVE OnePicture'
  <2>1. Waiting(Devices)' = Waiting(Devices) /\ chan' = chan /\ pcs' = pcs BY <1>16, ToneEndsWaits DEF ToneEnds, net
  <2>2. CASE ~InCall BY <1>2, <2>1, <2>2 DEF InCall
  <2>3. CASE InCall
    <3>1. UNCHANGED local /\ Views' = Views BY <1>16, <2>3, ToneEndsStream
    <3>2. InCall' => InCall BY <2>3
    <3> QED BY <1>1, <2>1, <3>1, <3>2, PictureStays
  <2> QED BY <2>2, <2>3
<1>17. ASSUME NEW x \in waits, FirstFails(x) PROVE OnePicture'
  <2>1. UNCHANGED <<chan, local, tracks, pcs>> BY <1>17, FirstFailsBase
  <2>2. PICK y : y.op = "restore" /\ y.stream = x.stream /\ waits' = (waits \ {x}) \cup {y} /\ x.op = "first"
    BY <1>17, FirstFailsBase
  <2>3. x \in Waiting(Devices) BY <2>2 DEF Waiting, Devices
  <2>4. Waiting(Devices) = {x} BY <1>1, <2>3 DEF OnePicture, Single
  <2>5. Waiting(Devices)' = {y} BY <2>2, <2>4 DEF Waiting, Devices
  <2>6. Awaits({"first"})' = {} BY <2>2, <2>5 DEF Awaits, Waiting, Devices
  <2>7. Views' = Views /\ (InCall' => InCall) BY <2>1, StreamStays DEF InCall
  <2> QED BY <1>1, <2>1, <2>5, <2>6, <2>7 DEF OnePicture, Single
<1>18. ASSUME NEW x \in waits, NEW got \in {"both", "mic", "none"}, JoinGets(x, got) PROVE OnePicture'
  <2>1. ~InCall /\ pcs' = pcs /\ x.op = "join" /\ waits' = waits \ {x} BY <1>18 DEF JoinGets, Races, Spared
  <2>2. DOMAIN pcs' = {} BY <1>1, <2>1 DEF Obeys
  <2>3. Waiting(Devices)' = Waiting(Devices) BY <2>1 DEF Waiting, Devices
  <2> DEFINE s == Len(tracks) + 1
  <2>4. local' \in {0, s} /\ Single(Views') /\ (local' = 0 => Views' = {})
    <3>1. local' = (IF got = "none" THEN 0 ELSE s) /\ s \in Nat \ {0} /\ Views' = (IF got = "both" THEN {s + 1} ELSE {})
      BY <1>18, JoinGetsStream
    <3> HIDE DEF s
    <3> QED BY <3>1 DEF Single
  <2>5. Awaits({"first"})' = {} \/ local' = 0
    <3>1. \A y \in waits : y.stream \in 0..Len(tracks) BY DEF Base, WaitsTyped, WellWait
    <3>2. Len(tracks) \in Nat BY <1>1, StreamOf
    <3>3. \A y \in waits : y.stream # s BY <3>1, <3>2
    <3> HIDE DEF s
    <3> QED BY <2>1, <2>4, <3>3 DEF Awaits, Waiting
  <2> HIDE DEF s
  <2> QED BY <1>1, <2>2, <2>3, <2>4, <2>5 DEF OnePicture, Single
<1>19. ASSUME NEW x \in waits,
              \/ FirstGets(x)
              \/ \E ok \in BOOLEAN : RestoreGets(x, ok) \/ SwitchGets(x, ok)
              \/ \E got \in {"cancel", "picture", "sound"} : DisplayGets(x, got)
       PROVE  OnePicture'
  <2>1. Spared({"late"})' BY DEF Spared
  <2> QED BY <1>1, <1>19, <2>1, AnswersPicture
<1> QED BY <1>5, <1>7, <1>8, <1>9, <1>11, <1>12, <1>13, <1>14, <1>15, <1>16, <1>17, <1>18, <1>19 DEF Capture

-----------------------------------------------------------------------------
(* Every sender's fit, from step to step.                                   *)

Shaped == Spared({"overlap", "late", "joins"}) => AllShapely

LEMMA CaptureShaped ==
  ASSUME Base, Silent, Pictured, Counted, Shaped, Capture
  PROVE  Counted' /\ Shaped'
<1> DEFINE K == {"overlap", "late", "joins"}
<1>1. Spared(K)' => Spared(K) /\ OnePicture /\ Obeys /\ AllShapely BY RacedGrows DEF Pictured, Silent, Shaped, Spared
<1> SUFFICES Counted' /\ (Spared(K)' => AllShapely') BY DEF Shaped
<1>2. TracksTyped BY DEF Base
<1>3. ASSUME NEW then, HangUp(then) PROVE Counted' /\ AllShapely' BY <1>3, HangUpFits
<1>4. ASSUME UNCHANGED <<roster, pcs, mon>>, screen' = screen PROVE Counted' /\ (AllShapely => AllShapely')
  BY <1>4, FitStays
<1>5. ASSUME UNCHANGED <<chan, gen, local, flags, tracks, net>> PROVE Counted' /\ (AllShapely => AllShapely')
  BY <1>4, <1>5 DEF flags, net
<1>6. CASE Leave BY <1>3, <1>6 DEF Leave
<1>7. ASSUME NEW on \in BOOLEAN, SetCameraEnabled(on) PROVE Counted' /\ (AllShapely => AllShapely')
  <2>1. UNCHANGED <<roster, pcs, mon>> /\ screen' = screen BY <1>7, CameraCases DEF net
  <2> QED BY <1>4, <2>1
<1>8. CASE CameraClick
  <2>1. SetCameraEnabled(screen \/ ~camera) BY <1>8 DEF CameraClick
  <2>2. (screen \/ ~camera) \in BOOLEAN BY Zenon
  <2> QED BY <1>1, <1>7, <2>1, <2>2
<1>9. CASE VideoFull BY <1>1, <1>7, <1>9 DEF VideoFull
<1>10. ASSUME NEW E, ShareOff(E), UNCHANGED <<chan, gen, local, muted, listen, waits>>, UNCHANGED <<roster, mon>>, Capturing,
              \A i \in E : i \in 1..Len(tracks) /\ tracks[i].kind = "screen"
       PROVE  Counted' /\ (OnePicture => AllShapely')
  <2>1. Counted' /\ ((\A p \in DOMAIN pcs : One(pcs[p].vid)) => AllShapely') BY <1>10, ShareOffFits
  <2>2. OnePicture => \A p \in DOMAIN pcs : One(pcs[p].vid) BY <1>10 DEF OnePicture, Lean, Capturing
  <2> QED BY <2>1, <2>2
<1>11. CASE ShareClick
  <2>1. UNCHANGED <<chan, gen, local, muted, listen, roster, mon>> /\ Capturing BY <1>11 DEF ShareClick
  <2>2. CASE ShareOff({}) /\ UNCHANGED waits BY <1>1, <1>10, <2>1, <2>2
  <2>3. CASE UNCHANGED pcs /\ screen' = screen BY <1>1, <1>4, <2>1, <2>3
  <2> QED BY <1>11, <2>2, <2>3, ShareClickBase
<1>12. ASSUME MonitorStarts \/ MonitorEnds \/ \E p \in DOMAIN pcs : Negotiated(p) \/ \E r \in Reports : MonitorSample(p, r)
       PROVE  Counted' /\ (AllShapely => AllShapely')
  BY <1>12, ReshapesFit
<1>13. ASSUME NEW c \in Chan, NEW video \in BOOLEAN, JoinVoiceChannel(c, video)
       PROVE  Counted' /\ (AllShapely => AllShapely')
  <2>1. CASE InCall BY <1>3, <1>13, <2>1 DEF JoinVoiceChannel
  <2>2. CASE ~InCall
    <3>1. UNCHANGED <<roster, pcs, mon>> /\ screen' = screen BY <1>13, <2>2 DEF JoinVoiceChannel, net
    <3> QED BY <1>4, <3>1
  <2> QED BY <2>1, <2>2
<1>14. ASSUME NEW m \in BOOLEAN, SetVoiceMuted(m) PROVE Counted' /\ (AllShapely => AllShapely')
  <2>1. UNCHANGED <<roster, pcs, mon>> /\ screen' = screen BY <1>14 DEF SetVoiceMuted, net
  <2> QED BY <1>4, <2>1
<1>15. ASSUME NEW i \in DOMAIN tracks, ScreenEnds(i) PROVE Counted' /\ (OnePicture /\ AllShapely => AllShapely')
  <2>1. UNCHANGED <<chan, gen, local, muted, listen, waits, roster, mon>> /\ tracks[i].kind = "screen"
    BY <1>15 DEF ScreenEnds
  <2>2. CASE Capturing /\ ShareOff({i})
    <3>1. \A j \in {i} : j \in 1..Len(tracks) /\ tracks[j].kind = "screen" BY <1>2, <2>1 DEF TracksTyped
    <3> QED BY <1>10, <2>1, <2>2, <3>1
  <2>3. CASE UNCHANGED <<pcs, screen>> BY <1>4, <2>1, <2>3
  <2> QED BY <1>15, <2>2, <2>3, ScreenEndsBase
<1>16. ASSUME NEW S \in SUBSET Peer, OnVoiceState(S) PROVE Counted' /\ AllShapely' BY <1>16, OnVoiceStateFits
<1>17. ASSUME NEW x \in waits, ToneEnds(x) PROVE Counted' /\ (Obeys /\ AllShapely => AllShapely')
  <2>1. UNCHANGED <<roster, pcs, mon>> BY <1>17 DEF ToneEnds, net
  <2>2. CASE InCall
    <3>1. screen' = screen BY <1>17, <2>2, ToneEndsStream
    <3> QED BY <1>4, <2>1, <3>1
  <2>3. CASE ~InCall
    <3>1. Obeys => DOMAIN pcs' = {} BY <2>1, <2>3 DEF Obeys
    <3> QED BY <2>1, <3>1, FitStays DEF AllShapely
  <2> QED BY <2>2, <2>3
<1>18. ASSUME NEW x \in waits, FirstFails(x) PROVE Counted' /\ (AllShapely => AllShapely')
  BY <1>5, <1>18 DEF FirstFails
<1>19. ASSUME NEW x \in waits, NEW got \in {"both", "mic", "none"}, JoinGets(x, got)
       PROVE  Counted' /\ (Spared(K)' /\ Obeys => AllShapely')
  <2>1. pcs' = pcs /\ mon' = mon /\ roster' = {} BY <1>19 DEF JoinGets
  <2>2. Counted' BY <2>1 DEF Counted
  <2>3. Spared(K)' => ~InCall BY <1>19 DEF JoinGets, Races, Spared
  <2>4. ~InCall /\ Obeys => DOMAIN pcs' = {} BY <2>1 DEF Obeys
  <2> QED BY <2>2, <2>3, <2>4 DEF AllShapely
<1>20. ASSUME NEW x \in waits,
              \/ FirstGets(x)
              \/ \E ok \in BOOLEAN : RestoreGets(x, ok) \/ SwitchGets(x, ok)
              \/ \E got \in {"cancel", "picture", "sound"} : DisplayGets(x, got)
       PROVE  Counted' /\ (AllShapely => AllShapely')
  BY <1>20, FirstGetsFits, RestoreGetsFits, SwitchGetsFits, DisplayGetsFits
<1> HIDE DEF K
<1> QED BY <1>1, <1>6, <1>8, <1>9, <1>11, <1>12, <1>13, <1>14, <1>15, <1>16, <1>17, <1>18, <1>19, <1>20 DEF Capture

-----------------------------------------------------------------------------
(* The theorems.                                                            *)

\* What is heard of the peers leaves the call as it is.
CallKept == UNCHANGED <<chan, gen, local, flags, tracks, net, posture, waits>> /\ raced \subseteq raced'

LEMMA StepOfCall ==
  ASSUME [Next]_vars
  PROVE  Capture \/ CallKept
<1>1. ASSUME NEW p \in Peer, VoiceArrives(p) \/ ShareArrives(p) \/ ShareEnds(p) \/ PollMeters(p) PROVE CallKept
  BY <1>1 DEF VoiceArrives, ShareArrives, ShareEnds, PollMeters, Delivers, CallKept, RacesIf, Races
<1>2. ASSUME NEW p \in Peer, NEW v \in {0, 1}, VolumeSlider(p, v) \/ ScreenVolumeSlider(p, v) PROVE CallKept
  BY <1>2 DEF VolumeSlider, ScreenVolumeSlider, Sets, CallKept
<1>3. ASSUME NEW on \in BOOLEAN, SetVoiceDeafened(on) PROVE CallKept BY <1>3 DEF SetVoiceDeafened, Sets, CallKept
<1>4. CASE UNCHANGED vars BY <1>4 DEF vars, media, flags, net, CallKept
<1>5. CASE Call BY <1>5 DEF Call
<1> QED BY <1>1, <1>2, <1>3, <1>4, <1>5 DEF Next

LEMMA StepOfBase ==
  ASSUME Base, [Next]_vars
  PROVE  Base'
<1>1. CASE Capture BY <1>1, CaptureBase
<1>2. CASE CallKept
  BY <1>2 DEF CallKept, flags, net, Base, TracksTyped, FlagsTyped, WaitsTyped, WellWait, PcsTyped, OneTone, Waiting, InCall
<1> QED BY <1>1, <1>2, StepOfCall

LEMMA StepOfSilent ==
  ASSUME Base, Silent, [Next]_vars
  PROVE  Silent'
<1>1. CASE Capture BY <1>1, CaptureSilent
<1>2. CASE CallKept
  BY <1>2 DEF CallKept, flags, net, Silent, Obeys, Spared, InCall, Owned, Hears
<1> QED BY <1>1, <1>2, StepOfCall

LEMMA StepOfHeld ==
  ASSUME Base, CaptureHeld, [Next]_vars
  PROVE  CaptureHeld'
<1>1. CASE Capture BY <1>1, CaptureKeepsHeld
<1>2. CASE CallKept
  BY <1>2 DEF CallKept, flags, net, CaptureHeld, Spared, InCall, Waiting
<1> QED BY <1>1, <1>2, StepOfCall

LEMMA StepOfWhole ==
  ASSUME Base, Whole, [Next]_vars
  PROVE  Whole'
<1>1. CASE Capture BY <1>1, CaptureWhole
<1>2. CASE CallKept
  <2> SUFFICES ASSUME Spared({"joins", "rejoin", "late", "overlap", "deaf"})' PROVE Entire'
    BY DEF Whole
  <2>1. UNCHANGED <<chan, local, screen, tracks, waits>> /\ Entire BY <1>2 DEF CallKept, flags, Whole, Spared
  <2>2. Mics' = Mics /\ Views' = Views BY <2>1, StreamStays
  <2>3. Waiting(Devices)' = Waiting(Devices) /\ (Capturing' => Capturing) BY <2>1 DEF Waiting, Capturing, InCall
  <2> QED BY <2>1, <2>2, <2>3, EntireStays
<1> QED BY <1>1, <1>2, StepOfCall

LEMMA StepOfSent ==
  ASSUME Base, Silent, Whole, Sent, [Next]_vars
  PROVE  Sent'
<1>1. CASE Capture BY <1>1, CaptureSent
<1>2. CASE CallKept
  <2> SUFFICES ASSUME Spared({"joins", "rejoin", "late", "overlap", "deaf", "newcomer"})' PROVE AllSent'
    BY DEF Sent
  <2>1. UNCHANGED <<chan, local, sound, tracks, pcs>> /\ AllSent BY <1>2 DEF CallKept, flags, net, Sent, Spared
  <2>2. Mics' = Mics /\ Views' = Views BY <2>1, StreamStays
  <2>3. Capturing' => Capturing BY <2>1 DEF Capturing, InCall
  <2> QED BY <2>1, <2>2, <2>3, SentStays
<1> QED BY <1>1, <1>2, StepOfCall

LEMMA StepOfTold ==
  ASSUME Base, JoinsAlone, Whole, Announced, [Next]_vars
  PROVE  JoinsAlone' /\ Announced'
<1>1. CASE Capture BY <1>1, CaptureAlone, CaptureTold
<1>2. CASE CallKept
  <2>1. UNCHANGED <<chan, local, flags, tracks, posture, waits>> /\ raced \subseteq raced' BY <1>2 DEF CallKept
  <2>2. Waiting(Joins)' = Waiting(Joins) /\ Waiting({"join"})' = Waiting({"join"}) BY <2>1 DEF Waiting
  <2>3. Views' = Views /\ Screens' = Screens BY <2>1, StreamStays
  <2>4. Alone => Alone' BY <2>1, <2>2, AloneStays
  <2>5. Telling => Telling' BY <2>1, <2>2, <2>3, TellingStays DEF flags
  <2> QED BY <2>1, <2>4, <2>5 DEF JoinsAlone, Announced, Spared
<1> QED BY <1>1, <1>2, StepOfCall

LEMMA StepOfShaped ==
  ASSUME Base, Silent, Pictured, Counted, Shaped, [Next]_vars
  PROVE  Pictured' /\ Counted' /\ Shaped'
<1>1. CASE Capture BY <1>1, CapturePictured, CaptureShaped
<1>2. CASE CallKept
  <2>1. UNCHANGED <<chan, local, screen, tracks, roster, pcs, mon, waits>> /\ raced \subseteq raced'
    BY <1>2 DEF CallKept, flags, net
  <2>2. Views' = Views BY <2>1, StreamStays
  <2>3. Waiting(Devices)' = Waiting(Devices) /\ (InCall' => InCall) BY <2>1 DEF Waiting, InCall
  <2>4. OnePicture => OnePicture' BY <2>1, <2>2, <2>3, PictureStays
  <2>5. Counted' /\ (AllShapely => AllShapely') BY <2>1, FitStays
  <2>6. Spared({"overlap", "late", "joins"})' => Spared({"overlap", "late", "joins"}) BY <2>1 DEF Spared
  <2> QED BY <2>4, <2>5, <2>6 DEF Pictured, Shaped
<1> QED BY <1>1, <1>2, StepOfCall

\* Tracks, streams, connections and waits are what they are taken for, and one
\* tone at most is that of the call left last, for the stream that is still ours
\* (voice.js hangUp, finishTeardown).
THEOREM Typing == Spec => []Base
<1>1. Init => Base BY InitBase DEF Init
<1>2. Base /\ [Next]_vars => Base' BY StepOfBase
<1> QED BY <1>1, <1>2, PTL DEF Spec

\* While muted no live microphone of ours is on a connection and enabled, through
\* any run of joins, leaves, camera and share toggles whose answers come in any
\* order, two joins at once excepted (voice.js setVoiceMuted, joinVoiceChannel,
\* createPC, setCameraEnabled).
THEOREM MutedStaysSilent == Spec => []MutedIsSilent
<1>1. Init => Silent
  <2> SUFFICES ASSUME Init PROVE Obeys BY DEF Silent
  <2>1. pcs = <<>> /\ tracks = <<>> /\ DOMAIN <<>> = {} BY DEF Init, MediaInit
  <2> QED BY <2>1 DEF Obeys, Owned
<1>2. Base /\ Silent /\ [Next]_vars => Silent' BY StepOfSilent
<1>3. Base /\ Silent => MutedIsSilent
  <2> SUFFICES ASSUME Base, muted, Spared({"joins"}), Obeys, NEW p \in DOMAIN pcs, NEW t \in Hears(p),
                      tracks[t].kind = "mic", tracks[t].live
               PROVE  ~tracks[t].on
    BY DEF Silent, MutedIsSilent
  <2>1. t \in Owned(local, {"mic"}) BY DEF Obeys
  <2>2. tracks[t].on = ~muted BY <2>1 DEF Obeys
  <2> QED BY <2>2
<1> QED BY <1>1, <1>2, <1>3, Typing, PTL DEF Spec

\* No device is left capturing behind the call that took it: every live track is
\* the current stream's or a pending teardown's, through every late answer
\* (voice.js finishTeardown, stopLocalStream, setScreenShareEnabled).
THEOREM CaptureStaysHeld == Spec => []CaptureHeld
<1>1. Init => CaptureHeld
  <2> SUFFICES ASSUME Init PROVE CaptureHeld OBVIOUS
  <2>1. tracks = <<>> /\ DOMAIN <<>> = {} BY DEF Init, MediaInit
  <2> QED BY <2>1 DEF CaptureHeld
<1>2. Base /\ CaptureHeld /\ [Next]_vars => CaptureHeld' BY StepOfHeld
<1> QED BY <1>1, <1>2, Typing, PTL DEF Spec

\* Once nothing is awaited every peer is sent the microphone, the picture and the
\* screen's sound of the current stream and nothing else, after any run of toggles,
\* shares, late joiners and calls outside the named races: the devices' answers
\* move the tracks of every sender, none twice and none forgotten (voice.js
\* setCameraEnabled, setScreenShareEnabled, attachVideoToPeers, createPC).
THEOREM PeersAlwaysGetStream == Spec => []PeersGetStream
<1>1. Init => Silent /\ Whole /\ Sent
  <2> SUFFICES ASSUME Init PROVE Obeys /\ Entire /\ AllSent BY DEF Silent, Whole, Sent
  <2>1. pcs = <<>> /\ tracks = <<>> /\ DOMAIN <<>> = {} /\ local = 0 /\ waits = {} BY DEF Init, MediaInit
  <2> QED BY <2>1 DEF Obeys, Owned, Entire, AllSent, Capturing, Waiting, Single
<1>2. Base /\ Silent /\ Whole /\ Sent /\ [Next]_vars => Silent' /\ Whole' /\ Sent'
  BY StepOfSilent, StepOfWhole, StepOfSent
<1>3. Base /\ Whole /\ Sent => PeersGetStream BY SentIsStream
<1> QED BY <1>1, <1>2, <1>3, Typing, PTL DEF Spec

\* Once nothing is awaited the server's idea of this member (muted, video, sharing)
\* is what the call's stream captures, through joins with and without devices,
\* refused videos and screens that end by themselves (voice.js sendMuteState and
\* its callers, acquireJoinStream).
THEOREM PostureStaysTrue == Spec => []PostureTrue
<1>1. Init => Silent /\ Whole /\ JoinsAlone /\ Announced
  <2> SUFFICES ASSUME Init PROVE Obeys /\ Entire /\ Alone /\ Telling
    BY DEF Silent, Whole, JoinsAlone, Announced
  <2>1. /\ pcs = <<>> /\ tracks = <<>> /\ DOMAIN <<>> = {} /\ local = 0 /\ waits = {} /\ chan = None
    BY DEF Init, MediaInit
  <2> QED BY <2>1 DEF Obeys, Owned, Entire, Capturing, Waiting, Single, Alone, Telling, Asked, InCall
<1>2. Base /\ Silent /\ Whole /\ JoinsAlone /\ Announced /\ [Next]_vars => Silent' /\ Whole' /\ JoinsAlone' /\ Announced'
  BY StepOfSilent, StepOfWhole, StepOfTold
<1>3. Base /\ Silent /\ Whole /\ Announced => PostureTrue BY ToldIsTrue
<1> QED BY <1>1, <1>2, <1>3, Typing, PTL DEF Spec

\* No video sender gets more than its share of the roster's budget nor a finer
\* picture than its rate affords, a camera's shape outlives its source only for
\* the screen that took its place, and a busy encoder teaches no ceiling: for any
\* roster, links, toggles, shares, negotiations and monitor runs that meet them
\* at any point (voice.js applyVideoBitrateCaps and its callers, monitorCongestion,
\* softCeilingFor).
THEOREM ShapeStaysFit == Spec => []ShapeFits
<1>1. Init => Silent /\ Pictured /\ Counted /\ Shaped
  <2> SUFFICES ASSUME Init PROVE Obeys /\ OnePicture /\ Counted /\ AllShapely BY DEF Silent, Pictured, Shaped
  <2>1. /\ pcs = <<>> /\ tracks = <<>> /\ DOMAIN <<>> = {} /\ local = 0 /\ waits = {} /\ chan = None /\ roster = {}
        /\ mon = Idle
    BY DEF Init, MediaInit
  <2> QED BY <2>1 DEF Obeys, Owned, OnePicture, InCall, Waiting, Single, Counted, AllShapely, Idle
<1>2. Base /\ Silent /\ Pictured /\ Counted /\ Shaped /\ [Next]_vars => Silent' /\ Pictured' /\ Counted' /\ Shaped'
  BY StepOfSilent, StepOfShaped
<1>3. Counted /\ Shaped => ShapeFits
  <2> SUFFICES ASSUME Counted, Shaped, NEW p \in DOMAIN pcs
               PROVE  /\ Spared({"overlap", "late", "joins"}) => Fits(pcs[p], Sees(p))
                      /\ LearnsFromLink(pcs[p])
    BY DEF ShapeFits
  <2>1. LearnsFromLink(pcs[p]) BY DEF Counted, Well
  <2>2. Sees(p) # {} => Filled(pcs[p].vid) BY DEF Sees, Range, Filled
  <2>3. Spared({"overlap", "late", "joins"}) => Shapely(pcs[p], Members, screen) BY DEF Shaped, AllShapely
  <2> QED BY <2>1, <2>2, <2>3 DEF Fits, Shapely, Afforded
<1> QED BY <1>1, <1>2, <1>3, Typing, PTL DEF Spec

\* Every peer's voice plays on its voice element and its share on the other, at
\* the gain kept for each, silent when deafened, and nobody who has left is
\* played or shown speaking, for any number of peers, shares, departures and
\* returns (voice.js ontrack, closePeer, removeScreenAudio, removeMeter).
THEOREM VoiceStaysVoice == Spec => []VoiceIsVoice
<1>1. Init => Heard BY HeardInit
<1>2. Base /\ Heard /\ [Next]_vars => Heard' BY NextHeard
<1>3. Heard => VoiceIsVoice BY HeardIsVoice
<1> QED BY <1>1, <1>2, <1>3, Typing, PTL DEF Spec
=============================================================================
