--------------------------- MODULE Search_proofs ---------------------------
(***************************************************************************)
(* Proofs about the pane, its composer and the message search: no text and *)
(* no tile is lost or goes astray (TextWell, TilesWell), and the hits      *)
(* answer the box (SearchWell).                                            *)
(***************************************************************************)
EXTENDS Search, FiniteSetTheorems, WellFoundedInduction, TLAPS

LEMMA LeastNat ==
  ASSUME NEW T \in SUBSET Nat, T # {}
  PROVE  \E x \in T : \A y \in T : x <= y
<1> DEFINE R == OpToRel(<, Nat)
<1>1. IsWellFoundedOn(R, Nat) BY NatLessThanWellFounded
<1>2. \A x, y \in Nat : x < y => <<x, y>> \in R
  BY DEF OpToRel
<1> HIDE DEF R
<1>3. PICK x \in T : \A y \in T : ~(<<y, x>> \in R)
  BY <1>1, WFMin
<1>4. \A y \in T : x <= y
  <2> TAKE y \in T
  <2>1. x \in Nat /\ y \in Nat OBVIOUS
  <2>2. ~(y < x) BY <1>2, <1>3, <2>1
  <2> QED BY <2>1, <2>2
<1> QED BY <1>4

LEMMA MinIs ==
  ASSUME NEW T \in SUBSET Nat, T # {}
  PROVE  Min(T) \in T /\ \A y \in T : Min(T) <= y
BY LeastNat DEF Min

\* The numbers of a finite set of calls leave one free.
LEMMA NumberIs ==
  ASSUME NEW K, IsFiniteSet(K), \A k \in K : k.n \in Nat
  PROVE  LET n == Min(1..(Cardinality(K) + 1) \ {k.n : k \in K})
         IN  n \in Nat /\ n # 0 /\ \A k \in K : k.n # n
<1> DEFINE U == {k.n : k \in K}
           B == 1..(Cardinality(K) + 1)
           f == [k \in K |-> k.n]
           n == Min(B \ U)
<1>1. Cardinality(K) \in Nat BY FS_CardinalityType
<1>2. f \in Surjection(K, U) BY DEF Surjection
<1>3. IsFiniteSet(U) /\ Cardinality(U) <= Cardinality(K) /\ Cardinality(U) \in Nat
  <2> HIDE DEF f, U
  <2> QED BY <1>2, FS_Surjection, FS_CardinalityType
<1>4. B \ U # {}
  <2> SUFFICES ASSUME B \subseteq U PROVE FALSE OBVIOUS
  <2>1. Cardinality(B) = Cardinality(K) + 1 BY <1>1, FS_Interval
  <2>2. Cardinality(B) <= Cardinality(U)
    <3> HIDE DEF B, U
    <3> QED BY <1>3, FS_Subset
  <2> QED BY <1>1, <1>3, <2>1, <2>2
<1>5. B \ U \subseteq Nat BY <1>1
<1>6. n \in B \ U
  <2> HIDE DEF B, U
  <2> QED BY <1>4, <1>5, MinIs
<1>7. n \in Nat /\ n # 0 BY <1>1, <1>6
<1> QED BY <1>6, <1>7

CallOp == {"load", "around", "older", "newer", "send"}
CallShape(k) ==
  k = [n |-> k.n, op |-> k.op, chan |-> k.chan, at |-> k.at, text |-> k.text, temp |-> k.temp,
       select |-> k.select, served |-> k.served, page |-> k.page, stale |-> k.stale]
CallTyped(k) ==
  /\ CallShape(k) /\ k.n \in Nat /\ k.op \in CallOp /\ k.chan \in Chan
  /\ k.select \in BOOLEAN /\ k.served \in {"no", "yes", "failed"} /\ k.stale \in BOOLEAN

\* The call k is one more, of those in K.
NewCall(k, K, op, c, at) ==
  /\ CallTyped(k) /\ (\A j \in K : j.n # k.n)
  /\ k.op = op /\ k.chan = c /\ k.at = at /\ k.text = 0 /\ k.select = FALSE /\ k.served = "no"
  /\ k.page = {} /\ k.stale = FALSE

CallsTyped(K) == IsFiniteSet(K) /\ \A k \in K : CallTyped(k)

LEMMA AskedIs ==
  ASSUME NEW K, CallsTyped(K), NEW op \in CallOp, NEW c \in Chan, NEW at
  PROVE  NewCall(Asked(K, op, c, at), K, op, c, at)
<1>1. PICK n : n = Min(1..(Cardinality(K) + 1) \ {k.n : k \in K}) OBVIOUS
<1>2. n \in Nat /\ \A k \in K : k.n # n BY <1>1, NumberIs DEF CallsTyped, CallTyped
<1>3. PICK k : k = Asked(K, op, c, at) OBVIOUS
<1>4. k = [n |-> n, op |-> op, chan |-> c, at |-> at, text |-> 0, temp |-> 0, select |-> FALSE,
           served |-> "no", page |-> {}, stale |-> FALSE]
  BY <1>1, <1>3 DEF Asked
<1>5. CallShape(k) BY <1>4 DEF CallShape
<1>6. NewCall(k, K, op, c, at) BY <1>2, <1>4, <1>5 DEF NewCall, CallTyped
<1> QED BY <1>3, <1>6

\* m is k but for its answer.
SameCall(k, m) ==
  m.n = k.n /\ m.op = k.op /\ m.chan = k.chan /\ m.text = k.text /\ m.select = k.select

LEMMA StaleIs ==
  ASSUME NEW k, CallTyped(k), NEW m, m = [k EXCEPT !.stale = TRUE]
  PROVE  CallTyped(m) /\ SameCall(k, m) /\ m.served = k.served /\ m.at = k.at /\ m.page = k.page /\ m.stale = TRUE
<1>1. m = [n |-> k.n, op |-> k.op, chan |-> k.chan, at |-> k.at, text |-> k.text, temp |-> k.temp,
           select |-> k.select, served |-> k.served, page |-> k.page, stale |-> TRUE]
  BY DEF CallTyped, CallShape
<1>2. CallShape(m) BY <1>1 DEF CallShape
<1> QED BY <1>1, <1>2 DEF CallTyped, SameCall

LEMMA ServedIs ==
  ASSUME NEW k, CallTyped(k), NEW v \in {"yes", "failed"}, NEW m, m = [k EXCEPT !.served = v]
  PROVE  CallTyped(m) /\ SameCall(k, m) /\ m.served = v /\ m.page = k.page /\ m.stale = k.stale /\ m.at = k.at
<1>1. m = [n |-> k.n, op |-> k.op, chan |-> k.chan, at |-> k.at, text |-> k.text, temp |-> k.temp,
           select |-> k.select, served |-> v, page |-> k.page, stale |-> k.stale]
  BY DEF CallTyped, CallShape
<1>2. CallShape(m) BY <1>1 DEF CallShape
<1> QED BY <1>1, <1>2 DEF CallTyped, SameCall

LEMMA PagedIs ==
  ASSUME NEW k, CallTyped(k), NEW S, NEW m, m = [k EXCEPT !.served = "yes", !.page = S]
  PROVE  CallTyped(m) /\ SameCall(k, m) /\ m.served = "yes" /\ m.page = S /\ m.stale = k.stale /\ m.at = k.at
<1>1. m = [n |-> k.n, op |-> k.op, chan |-> k.chan, at |-> k.at, text |-> k.text, temp |-> k.temp,
           select |-> k.select, served |-> "yes", page |-> S, stale |-> k.stale]
  BY DEF CallTyped, CallShape
<1>2. CallShape(m) BY <1>1 DEF CallShape
<1> QED BY <1>1, <1>2 DEF CallTyped, SameCall

LEMMA PlacedIs ==
  ASSUME NEW k, CallTyped(k), NEW i, NEW m, m = [k EXCEPT !.served = "yes", !.at = i]
  PROVE  CallTyped(m) /\ SameCall(k, m) /\ m.served = "yes" /\ m.page = k.page /\ m.stale = k.stale
<1>1. m = [n |-> k.n, op |-> k.op, chan |-> k.chan, at |-> i, text |-> k.text, temp |-> k.temp,
           select |-> k.select, served |-> "yes", page |-> k.page, stale |-> k.stale]
  BY DEF CallTyped, CallShape
<1>2. CallShape(m) BY <1>1 DEF CallShape
<1> QED BY <1>1, <1>2 DEF CallTyped, SameCall

\* Which of the calls a frame overtakes.
Overtakes(k, F) ==
  \E f \in F :
    /\ k.chan = f.chan /\ k.served = "yes" /\ k.op # "send" /\ Msg(f) \notin k.page
    /\ \/ f.id \in Ids(k.page)
       \/ f.id > Newest(k.page) /\ (k.op = "load" \/ (k.op = "newer" /\ Cardinality(k.page) < Page))
MarkedBy(k, F) == IF Overtakes(k, F) THEN [k EXCEPT !.stale = TRUE] ELSE k
LEMMA OvertakenIs ==
  ASSUME NEW K, NEW F, CallsTyped(K)
  PROVE  /\ CallsTyped(Overtaken(K, F))
         /\ \A k \in K : MarkedBy(k, F) \in Overtaken(K, F)
         /\ \A m \in Overtaken(K, F) : \E k \in K : m = MarkedBy(k, F)
         /\ \A k \in K : LET m == MarkedBy(k, F)
                         IN  /\ SameCall(k, m) /\ m.served = k.served /\ m.at = k.at /\ m.page = k.page
                             /\ m.stale = (k.stale \/ Overtakes(k, F))
<1>1. Overtaken(K, F) = {MarkedBy(k, F) : k \in K} BY DEF Overtaken, MarkedBy, Overtakes
<1>2. ASSUME NEW k \in K
      PROVE  LET m == MarkedBy(k, F)
             IN  /\ CallTyped(m) /\ SameCall(k, m) /\ m.served = k.served /\ m.at = k.at /\ m.page = k.page
                 /\ m.stale = (k.stale \/ Overtakes(k, F))
  <2>1. CallTyped(k) BY DEF CallsTyped
  <2>2. CASE Overtakes(k, F)
    <3>1. MarkedBy(k, F) = [k EXCEPT !.stale = TRUE] BY <2>2 DEF MarkedBy
    <3> QED BY <2>1, <2>2, <3>1, StaleIs
  <2>3. CASE ~Overtakes(k, F)
    <3>1. MarkedBy(k, F) = k BY <2>3 DEF MarkedBy
    <3>2. k.stale \in BOOLEAN BY <2>1 DEF CallTyped
    <3> QED BY <2>1, <2>3, <3>1, <3>2 DEF SameCall
  <2> QED BY <2>2, <2>3
<1>3. IsFiniteSet(Overtaken(K, F))
  <2> DEFINE f == [k \in K |-> MarkedBy(k, F)]
  <2>1. f \in Surjection(K, Overtaken(K, F)) BY <1>1 DEF Surjection
  <2> HIDE DEF f
  <2> QED BY <2>1, FS_Surjection DEF CallsTyped
<1> QED BY <1>1, <1>2, <1>3 DEF CallsTyped

-----------------------------------------------------------------------------
(***************************************************************************)
(* The calls a step leaves alone.                                          *)
(***************************************************************************)
Lasts(k) == k.op = "send" \/ k.select
Differ(K) == \A j, k \in K : j.n = k.n => j = k
Good(K) == CallsTyped(K) /\ Differ(K)
\* Of the calls in K the sends and the loads of selectChannel are in L, as they were.
Keeps(K, L) ==
  /\ Good(L)
  /\ \A m \in L : Lasts(m) => \E k \in K : SameCall(k, m) /\ (m.op = "send" => m.served = k.served)
  /\ \A k \in K : Lasts(k) => \E m \in L : SameCall(k, m)

LEMMA KeepsAll == ASSUME NEW K, Good(K) PROVE Keeps(K, K)
BY DEF Keeps, SameCall

LEMMA KeepsTwice == ASSUME NEW K, NEW L, NEW M, Keeps(K, L), Keeps(L, M) PROVE Keeps(K, M)
<1>1. ASSUME NEW m \in M, Lasts(m)
      PROVE  \E k \in K : SameCall(k, m) /\ (m.op = "send" => m.served = k.served)
  <2>1. PICK l \in L : SameCall(l, m) /\ (m.op = "send" => m.served = l.served) BY <1>1 DEF Keeps
  <2>2. Lasts(l) BY <1>1, <2>1 DEF Lasts, SameCall
  <2>3. PICK k \in K : SameCall(k, l) /\ (l.op = "send" => l.served = k.served) BY <2>2 DEF Keeps
  <2> QED BY <2>1, <2>3 DEF SameCall
<1>2. ASSUME NEW k \in K, Lasts(k) PROVE \E m \in M : SameCall(k, m)
  <2>1. PICK l \in L : SameCall(k, l) BY <1>2 DEF Keeps
  <2>2. Lasts(l) BY <1>2, <2>1 DEF Lasts, SameCall
  <2>3. PICK m \in M : SameCall(l, m) BY <2>2 DEF Keeps
  <2> QED BY <2>1, <2>3 DEF SameCall
<1> QED BY <1>1, <1>2 DEF Keeps

LEMMA OvertakenKeeps ==
  ASSUME NEW K, Good(K), NEW F
  PROVE  Keeps(K, Overtaken(K, F))
<1> DEFINE L == Overtaken(K, F)
<1>1. /\ CallsTyped(L)
      /\ \A k \in K : MarkedBy(k, F) \in L
      /\ \A m \in L : \E k \in K : m = MarkedBy(k, F)
      /\ \A k \in K : SameCall(k, MarkedBy(k, F)) /\ MarkedBy(k, F).served = k.served
  BY OvertakenIs DEF Good
<1> HIDE DEF L
<1>2. Differ(L)
  <2> SUFFICES ASSUME NEW a \in L, NEW b \in L, a.n = b.n PROVE a = b BY DEF Differ
  <2>1. PICK j \in K : a = MarkedBy(j, F) BY <1>1
  <2>2. PICK k \in K : b = MarkedBy(k, F) BY <1>1
  <2>3. j.n = k.n BY <1>1, <2>1, <2>2 DEF SameCall
  <2> QED BY <2>1, <2>2, <2>3 DEF Good, Differ
<1>3. ASSUME NEW m \in L
      PROVE  \E k \in K : SameCall(k, m) /\ (m.op = "send" => m.served = k.served)
  <2>1. PICK k \in K : m = MarkedBy(k, F) BY <1>1
  <2> QED BY <1>1, <2>1
<1>4. ASSUME NEW k \in K PROVE \E m \in L : SameCall(k, m) BY <1>1
<1> QED BY <1>1, <1>2, <1>3, <1>4 DEF Keeps, Good, L

LEMMA ExchangeIs ==
  ASSUME NEW K, Good(K), NEW k \in K, NEW m, CallTyped(m), m.n = k.n
  PROVE  Good((K \ {k}) \cup {m})
<1>1. IsFiniteSet((K \ {k}) \cup {m})
  <2>1. IsFiniteSet(K) BY DEF Good, CallsTyped
  <2>2. IsFiniteSet(K \ {k}) BY <2>1, FS_RemoveElement
  <2> QED BY <2>2, FS_AddElement
<1> QED BY <1>1 DEF Good, CallsTyped, Differ

LEMMA ExchangeKeeps ==
  ASSUME NEW K, Good(K), NEW k \in K, NEW m, CallTyped(m), SameCall(k, m), k.op = "send" => m.served = k.served
  PROVE  Keeps(K, (K \ {k}) \cup {m})
<1>1. Good((K \ {k}) \cup {m}) BY ExchangeIs DEF SameCall
<1> QED BY <1>1 DEF Keeps, SameCall

LEMMA LessIs == ASSUME NEW K, Good(K), NEW k PROVE Good(K \ {k})
BY FS_RemoveElement DEF Good, CallsTyped, Differ

LEMMA LessKeeps == ASSUME NEW K, Good(K), NEW k, ~Lasts(k) PROVE Keeps(K, K \ {k})
BY LessIs DEF Keeps, SameCall

LEMMA MoreIs == ASSUME NEW K, Good(K), NEW m, CallTyped(m), \A k \in K : k.n # m.n PROVE Good(K \cup {m})
BY FS_AddElement DEF Good, CallsTyped, Differ

LEMMA MoreKeeps ==
  ASSUME NEW K, Good(K), NEW op \in CallOp \ {"send"}, NEW c \in Chan, NEW at
  PROVE  Keeps(K, K \cup {Asked(K, op, c, at)})
<1>1. PICK m : m = Asked(K, op, c, at) OBVIOUS
<1>2. NewCall(m, K, op, c, at) BY <1>1, AskedIs DEF Good
<1>3. ~Lasts(m) BY <1>2 DEF NewCall, Lasts
<1>4. Good(K \cup {m}) BY <1>2, MoreIs DEF NewCall
<1> QED BY <1>1, <1>3, <1>4 DEF Keeps, SameCall

-----------------------------------------------------------------------------
(***************************************************************************)
(* What a step that has nothing to do with texts leaves alone.             *)
(***************************************************************************)
LogRow == [chan : Chan, text : Nat, ver : {Posted, Edited, Deleted}]
LogTyped == log \in Seq(LogRow)
\* Nothing that is posted changes its channel or text; S: the texts posted now.
LogKept(S) ==
  /\ log' \in Seq(LogRow) /\ DOMAIN log \subseteq DOMAIN log'
  /\ \A i \in DOMAIN log : log'[i].chan = log[i].chan /\ log'[i].text = log[i].text
  /\ \A i \in DOMAIN log' \ DOMAIN log : log'[i].text \in S
StillText == UNCHANGED <<composer, drafts, home, active, hasty>>
FrameSet == [type : {"new", "update", "delete"}, chan : Chan, id : Nat, ver : {Posted, Edited, Deleted}]
FramesTyped == in \in Seq(FrameSet)
Base == Good(calls) /\ active \in Chan /\ LogTyped /\ FramesTyped

LEMMA LogSame == ASSUME LogTyped, UNCHANGED log, NEW S PROVE LogKept(S)
BY DEF LogTyped, LogKept

LEMMA AskingKeeps ==
  ASSUME Base, LoadOlderMessages \/ LoadNewerMessages
  PROVE  Keeps(calls, calls') /\ StillText /\ UNCHANGED <<log, in>>
<1>1. CASE LoadOlderMessages
  <2>1. calls' = calls \cup {Asked(calls, "older", active, Oldest(list[active]))} BY <1>1 DEF LoadOlderMessages
  <2>2. Keeps(calls, calls') BY <2>1, MoreKeeps DEF Base, CallOp
  <2> QED BY <1>1, <2>2 DEF LoadOlderMessages, StillText, server, text, ghosts
<1>2. CASE LoadNewerMessages
  <2>1. calls' = calls \cup {Asked(calls, "newer", active, Newest(list[active]))} BY <1>2 DEF LoadNewerMessages
  <2>2. Keeps(calls, calls') BY <2>1, MoreKeeps DEF Base, CallOp
  <2> QED BY <1>2, <2>2 DEF LoadNewerMessages, StillText, server, text, ghosts
<1> QED BY <1>1, <1>2

LEMMA ServingKeeps ==
  ASSUME Base, NEW k \in calls, ServeList(k)
  PROVE  Keeps(calls, calls') /\ StillText /\ UNCHANGED <<log, in>>
<1>1. PICK m : m = [k EXCEPT !.served = "yes", !.page = Listed(k)] OBVIOUS
<1>2. calls' = (calls \ {k}) \cup {m} /\ k.op # "send" BY <1>1 DEF ServeList
<1>3. CallTyped(k) BY DEF Base, Good, CallsTyped
<1>4. CallTyped(m) /\ SameCall(k, m) BY <1>1, <1>3, PagedIs
<1>5. Keeps(calls, calls') BY <1>2, <1>4, ExchangeKeeps DEF Base
<1> QED BY <1>5 DEF ServeList, StillText, server, text, ghosts

LEMMA LandingKeeps ==
  ASSUME Base, NEW k \in calls, AnswerAround(k) \/ AnswerOlder(k) \/ AnswerNewer(k), ~k.select
  PROVE  Keeps(calls, calls') /\ StillText /\ UNCHANGED <<log, in>>
<1>1. ~Lasts(k) BY DEF AnswerAround, AnswerOlder, AnswerNewer, Lasts
<1>2. Keeps(calls, calls \ {k}) BY <1>1, LessKeeps DEF Base
<1>3. CASE AnswerAround(k)
  <2> DEFINE rest == calls \ {k}
  <2>1. calls' = rest \/ (k.chan = active /\ calls' = rest \cup {Asked(rest, "newer", k.chan, Newest(k.page))})
    BY <1>3 DEF AnswerAround
  <2>2. Keeps(rest, rest \cup {Asked(rest, "newer", active, Newest(k.page))})
    BY <1>2, MoreKeeps DEF Base, CallOp, Keeps
  <2>3. Keeps(calls, calls') BY <1>2, <2>1, <2>2, KeepsTwice
  <2> QED BY <1>3, <2>3 DEF AnswerAround, StillText, server, text
<1>4. CASE AnswerOlder(k) BY <1>2, <1>4 DEF AnswerOlder, StillText, server, text
<1>5. CASE AnswerNewer(k) BY <1>2, <1>5 DEF AnswerNewer, StillText, server, text
<1> QED BY <1>3, <1>4, <1>5

LEMMA BroadcastKeeps ==
  ASSUME NEW K, Good(K), NEW f, Broadcast(f, K), FramesTyped, f \in FrameSet
  PROVE  Keeps(K, calls') /\ FramesTyped'
BY KeepsAll, OvertakenKeeps DEF Broadcast, FramesTyped

LEMMA PostKeeps ==
  ASSUME Base, NEW c \in Chan, Post(c)
  PROVE  Keeps(calls, calls') /\ StillText /\ LogKept({0}) /\ FramesTyped'
<1>0. Frame("new", c, Len(log) + 1, Posted) \in FrameSet BY DEF Frame, FrameSet, Base, LogTyped
<1>1. /\ log' = Append(log, [chan |-> c, text |-> 0, ver |-> Posted])
      /\ Keeps(calls, calls') /\ FramesTyped'
  BY <1>0, BroadcastKeeps DEF Post, Create, Base
<1>2. [chan |-> c, text |-> 0, ver |-> Posted] \in LogRow BY DEF LogRow
<1>3. LogKept({0}) BY <1>1, <1>2 DEF Base, LogTyped, LogKept
<1> QED BY <1>1, <1>3 DEF Post, StillText, text

LEMMA ChangeKeeps ==
  ASSUME Base, NEW i \in Id, NEW ver \in {Edited, Deleted}, Change(i, ver)
  PROVE  Keeps(calls, calls') /\ StillText /\ LogKept({}) /\ FramesTyped'
<1>1. /\ log' = [log EXCEPT ![i].ver = ver] /\ i \in DOMAIN log
      /\ Broadcast(Frame(IF ver = Edited THEN "update" ELSE "delete", log[i].chan, i, ver), calls)
  BY DEF Change
<1>2. PICK r \in LogRow : r = log[i] BY <1>1 DEF Base, LogTyped
<1>3. Frame(IF ver = Edited THEN "update" ELSE "delete", log[i].chan, i, ver) \in FrameSet
  <2>1. i \in Nat BY <1>1 DEF Base, LogTyped
  <2> QED BY <1>2, <2>1 DEF Frame, FrameSet, LogRow
<1>4. Keeps(calls, calls') /\ FramesTyped' BY <1>1, <1>3, BroadcastKeeps DEF Base
<1>5. PICK q : q = [r EXCEPT !.ver = ver] OBVIOUS
<1>6. q \in LogRow /\ q.chan = r.chan /\ q.text = r.text BY <1>2, <1>5 DEF LogRow
<1>7. log' = [log EXCEPT ![i] = q] BY <1>1, <1>2, <1>5
<1>8. LogKept({}) BY <1>1, <1>2, <1>6, <1>7 DEF Base, LogTyped, LogKept
<1> QED BY <1>4, <1>8 DEF Change, StillText, text

LEMMA LoadKeeps ==
  ASSUME NEW K, Keeps(calls, K), NEW c \in Chan, LoadChannel(c, FALSE, K)
  PROVE  Keeps(calls, calls')
<1>1. PICK m : m = Asked(K, "load", c, 0) OBVIOUS
<1>2. NewCall(m, K, "load", c, 0) BY <1>1, AskedIs DEF Keeps, Good, CallOp
<1>3. [m EXCEPT !.select = FALSE] = m BY <1>2 DEF NewCall, CallTyped, CallShape
<1>4. calls' = K \cup {m} BY <1>1, <1>3 DEF LoadChannel
<1>5. Keeps(K, calls') BY <1>1, <1>4, MoreKeeps DEF Keeps, CallOp
<1> QED BY <1>5, KeepsTwice

LEMMA TakingKeeps ==
  ASSUME Base, NEW near, Take(near)
  PROVE  Keeps(calls, calls') /\ StillText /\ UNCHANGED log /\ FramesTyped'
<1> DEFINE f == Head(in)
<1>0. f \in FrameSet /\ FramesTyped' BY DEF Take, Base, FramesTyped
<1>1. Keeps(calls, Overtaken(calls, {f})) BY OvertakenKeeps DEF Base
<1> HIDE DEF f
<1>2. CASE f.chan # active BY <1>0, <1>1, <1>2 DEF Take, Told, StillText, text, f
<1>3. CASE f.chan = active
  <2>1. f.type \in {"new", "update", "delete"} BY <1>0 DEF FrameSet
  <2>2. OnNew(f, near) \/ OnUpdate(f) \/ OnDelete(f) BY <1>3, <2>1 DEF Take, f
  <2> QED BY <1>0, <1>1, <1>3, <2>2, LoadKeeps DEF Take, OnNew, OnUpdate, OnDelete, Told, StillText, text, Base, f
<1> QED BY <1>2, <1>3

LEMMA SocketKeeps ==
  ASSUME Base, NEW near, Drop \/ Sleep \/ Connect \/ Resync(near)
  PROVE  Keeps(calls, calls') /\ StillText /\ UNCHANGED log /\ FramesTyped'
<1>1. CASE Drop \/ Sleep
  <2>1. Keeps(calls, Overtaken(calls, ToSet(in))) BY OvertakenKeeps DEF Base
  <2>2. Lose /\ UNCHANGED hasty BY <1>1 DEF Drop, Sleep, Lose
  <2>3. in' = <<>> /\ UNCHANGED log /\ calls' = Overtaken(calls, ToSet(in)) /\ UNCHANGED <<active, text>>
    BY <2>2 DEF Lose
  <2>4. FramesTyped' BY <2>3 DEF FramesTyped
  <2> QED BY <2>1, <2>2, <2>3, <2>4 DEF StillText, text
<1>2. CASE Connect
  <2>1. Keeps(calls, calls) BY KeepsAll DEF Base
  <2> QED BY <1>2, <2>1 DEF Connect, StillText, text, server, pane, ghosts, FramesTyped, Base
<1>3. CASE Resync(near)
  <2>1. Keeps(calls, calls) BY KeepsAll DEF Base
  <2> QED BY <1>3, <2>1, LoadKeeps DEF Resync, StillText, text, server, ghosts, Base, FramesTyped
<1> QED BY <1>1, <1>2, <1>3

-----------------------------------------------------------------------------
(***************************************************************************)
(* The text.                                                               *)
(***************************************************************************)
Sends(t) == \E k \in calls : k.op = "send" /\ k.text = t
IsPosted(t) == \E i \in DOMAIN log : log[i].text = t
Safe(t) == Sends(t) \/ IsPosted(t)
TextTyped ==
  /\ Base /\ hasty \in BOOLEAN
  /\ home \in Seq(Chan) /\ composer \in 0..Len(home) /\ drafts \in [Chan -> 0..Len(home)]
  /\ \A i \in DOMAIN log : log[i].text <= Len(home)
  /\ \A k \in calls : (k.op = "send" => k.text \in 1..Len(home)) /\ (k.select => k.op = "load")
TextHome ==
  /\ composer # 0 => home[composer] = active \/ Selecting
  /\ \A d \in Chan : drafts[d] # 0 => home[drafts[d]] = d
  /\ \A k \in calls : k.op = "send" => home[k.text] = k.chan
  /\ \A i \in DOMAIN log : log[i].text # 0 => home[log[i].text] = log[i].chan
  /\ \A k \in calls : k.select => k.chan = active
TextThere ==
  /\ \A t \in DOMAIN home : composer = t \/ drafts[home[t]] = t \/ Safe(t)
  /\ Selecting /\ composer # 0 => drafts[home[composer]] = composer \/ Safe(composer)
  /\ ~Selecting /\ drafts[active] # 0 => composer = drafts[active] \/ Safe(drafts[active])
  /\ \A k \in calls : k.op = "send" /\ k.served = "yes" => IsPosted(k.text)
TextWell == TextTyped /\ (~hasty => TextHome /\ TextThere)

LEMMA PostedStays == ASSUME NEW S, LogKept(S), NEW t, IsPosted(t) PROVE IsPosted(t)'
BY DEF LogKept, IsPosted

LEMMA SafeStays == ASSUME NEW S, LogKept(S), Keeps(calls, calls'), NEW t, Safe(t) PROVE Safe(t)'
<1>1. CASE Sends(t)
  <2>1. PICK k \in calls : k.op = "send" /\ k.text = t BY <1>1 DEF Sends
  <2>2. PICK m \in calls' : SameCall(k, m) BY <2>1 DEF Keeps, Lasts
  <2> QED BY <2>1, <2>2 DEF Safe, Sends, SameCall
<1>2. CASE IsPosted(t) BY <1>2, PostedStays DEF Safe
<1> QED BY <1>1, <1>2 DEF Safe

LEMMA SelectingStays == ASSUME Keeps(calls, calls') PROVE Selecting' = Selecting
<1>1. Selecting => Selecting' BY DEF Selecting, Keeps, Lasts, SameCall
<1>2. Selecting' => Selecting
  <2> SUFFICES ASSUME NEW m \in calls', m.select PROVE Selecting BY DEF Selecting
  <2>1. PICK k \in calls : SameCall(k, m) BY DEF Keeps, Lasts
  <2> QED BY <2>1 DEF SameCall, Selecting
<1> QED BY <1>1, <1>2 DEF Selecting

LEMMA CallsStay ==
  ASSUME Keeps(calls, calls'), NEW m \in calls', Lasts(m)
  PROVE  \E k \in calls : SameCall(k, m) /\ (m.op = "send" => m.served = k.served)
BY DEF Keeps

LEMMA StillTyped ==
  ASSUME TextTyped, Keeps(calls, calls'), StillText, LogKept({0}), FramesTyped'
  PROVE  TextTyped'
<1>1. Base' BY DEF Base, TextTyped, Keeps, StillText, LogKept, LogTyped, FramesTyped
<1>2. (\A i \in DOMAIN log : log[i].text <= Len(home))'
  BY DEF TextTyped, StillText, LogKept
<1>3. ASSUME NEW m \in calls' PROVE (m.op = "send" => m.text \in 1..Len(home')) /\ (m.select => m.op = "load")
  <2>1. CASE Lasts(m)
    <3>1. PICK k \in calls : SameCall(k, m) BY <2>1, CallsStay
    <3> QED BY <3>1 DEF TextTyped, StillText, SameCall
  <2> QED BY <2>1 DEF Lasts
<1> QED BY <1>1, <1>2, <1>3 DEF TextTyped, StillText

LEMMA StillKeepsText ==
  ASSUME TextWell, Keeps(calls, calls'), StillText, LogKept({0}), FramesTyped'
  PROVE  TextWell'
<1>1. TextTyped' BY StillTyped DEF TextWell
<1> SUFFICES ASSUME ~hasty PROVE (TextHome /\ TextThere)' BY <1>1 DEF TextWell, StillText
<1> USE DEF StillText
<1>2. TextHome /\ TextThere /\ TextTyped BY DEF TextWell
<1>3. Selecting' = Selecting BY SelectingStays
<1>4. \A t : Safe(t) => Safe(t)' BY SafeStays
<1>5. TextHome'
  <2>1. \A k \in calls' : k.op = "send" => home[k.text] = k.chan
    BY <1>2, CallsStay DEF TextHome, SameCall, Lasts
  <2>2. \A k \in calls' : k.select => k.chan = active
    BY <1>2, CallsStay DEF TextHome, SameCall, Lasts
  <2>3. \A i \in DOMAIN log' : log'[i].text # 0 => home[log'[i].text] = log'[i].chan
    BY <1>2 DEF TextHome, LogKept
  <2> QED BY <1>2, <1>3, <2>1, <2>2, <2>3 DEF TextHome
<1>6. TextThere'
  <2>1. \A k \in calls' : k.op = "send" /\ k.served = "yes" => IsPosted(k.text)'
    <3> SUFFICES ASSUME NEW m \in calls', m.op = "send", m.served = "yes" PROVE IsPosted(m.text)' OBVIOUS
    <3>1. PICK k \in calls : SameCall(k, m) /\ m.served = k.served BY CallsStay DEF Lasts
    <3>2. IsPosted(k.text) BY <1>2, <3>1 DEF TextThere, SameCall
    <3>3. IsPosted(k.text)' BY <3>2, PostedStays
    <3> QED BY <3>1, <3>3 DEF SameCall
  <2> QED BY <1>2, <1>3, <1>4, <2>1 DEF TextThere
<1> QED BY <1>5, <1>6

-----------------------------------------------------------------------------
(***************************************************************************)
(* The steps that have to do with a text.                                  *)
(***************************************************************************)
LEMMA BaseSame == ASSUME Base, UNCHANGED <<calls, log, in, active>> PROVE Base'
BY DEF Base, LogTyped, FramesTyped

LEMMA LogRows == ASSUME LogTyped PROVE \A i \in DOMAIN log : log[i].text \in Nat /\ log[i].chan \in Chan
<1> TAKE i \in DOMAIN log
<1>1. log[i] \in LogRow BY DEF LogTyped
<1> QED BY <1>1 DEF LogRow

LEMMA TypeKeepsText == ASSUME TextWell, Type PROVE TextWell'
<1> DEFINE t == Len(home) + 1
<1>1. /\ composer = 0 /\ composer' = t /\ home' = Append(home, active) /\ hasty' = (hasty \/ Selecting)
      /\ UNCHANGED <<log, in, active, calls, drafts>>
  BY DEF Type, server, pane
<1>2. TextTyped /\ Base /\ active \in Chan /\ LogTyped BY DEF TextWell, TextTyped, Base
<1>3. Len(home) \in Nat /\ home' \in Seq(Chan) /\ Len(home') = t /\ home'[t] = active /\ \A u \in 1..Len(home) : home'[u] = home[u]
  BY <1>1, <1>2 DEF TextTyped
<1> HIDE DEF t
<1>4. TextTyped'
  <2>1. Base' BY <1>1, <1>2, BaseSame
  <2>2. \A i \in DOMAIN log : log[i].text \in Nat BY <1>2, LogRows
  <2>3. hasty' \in BOOLEAN BY <1>1, <1>2 DEF TextTyped, Selecting
  <2>4. Len(home') = Len(home) + 1 BY <1>3 DEF t
  <2>5. composer' \in 0..Len(home') BY <1>1, <1>3, <2>4
  <2>6. drafts' \in [Chan -> 0..Len(home')]
    <3>1. \A c \in Chan : drafts[c] \in 0..Len(home') BY <1>2, <1>3, <2>4 DEF TextTyped
    <3> QED BY <1>1, <1>2, <3>1 DEF TextTyped
  <2>7. \A i \in DOMAIN log : log[i].text <= Len(home') BY <1>2, <1>3, <2>2, <2>4 DEF TextTyped
  <2>8. \A k \in calls : k.op = "send" => k.text \in 1..Len(home') BY <1>2, <1>3, <2>4 DEF TextTyped
  <2> QED BY <1>1, <1>2, <1>3, <2>1, <2>3, <2>5, <2>6, <2>7, <2>8 DEF TextTyped
<1> SUFFICES ASSUME ~hasty' PROVE (TextHome /\ TextThere)' BY <1>4 DEF TextWell
<1>5. ~hasty /\ ~Selecting BY <1>1, <1>2 DEF TextTyped, Selecting
<1>6. TextHome /\ TextThere BY <1>5 DEF TextWell
<1>7. Selecting' = Selecting BY <1>1 DEF Selecting
<1>8. \A u : Safe(u)' = Safe(u) BY <1>1 DEF Safe, Sends, IsPosted
<1>9. t = Len(home) + 1 BY DEF t
<1>10. TextHome'
  <2>1. (\A d \in Chan : drafts[d] # 0 => home[drafts[d]] = d)' BY <1>1, <1>2, <1>3, <1>6, <1>9 DEF TextTyped, TextHome
  <2>2. (\A k \in calls : k.op = "send" => home[k.text] = k.chan)' BY <1>1, <1>2, <1>3, <1>6, <1>9 DEF TextTyped, TextHome
  <2>3. (\A i \in DOMAIN log : log[i].text # 0 => home[log[i].text] = log[i].chan)'
    <3>0. \A i \in DOMAIN log : log[i].text \in Nat BY <1>2, LogRows
    <3>1. \A i \in DOMAIN log : log[i].text # 0 => log[i].text \in 1..Len(home)
      BY <1>2, <1>3, <3>0 DEF TextTyped
    <3> QED BY <1>1, <1>3, <1>6, <3>1 DEF TextHome
  <2> QED BY <1>1, <1>3, <1>6, <2>1, <2>2, <2>3 DEF TextHome
<1>11. TextThere'
  <2>1. (\A u \in DOMAIN home : composer = u \/ drafts[home[u]] = u \/ Safe(u))'
    <3> SUFFICES ASSUME NEW u \in DOMAIN home' PROVE (composer = u \/ drafts[home[u]] = u \/ Safe(u))' OBVIOUS
    <3>1. CASE u = t BY <1>1, <3>1
    <3>2. CASE u # t
      <4>1. u \in 1..Len(home) /\ u # 0 BY <1>3, <1>9, <3>2
      <4>2. drafts[home[u]] = u \/ Safe(u) BY <1>1, <1>2, <1>6, <4>1 DEF TextThere, TextTyped
      <4> QED BY <1>1, <1>3, <1>8, <4>1, <4>2
    <3> QED BY <3>1, <3>2
  <2>2. (~Selecting /\ drafts[active] # 0 => composer = drafts[active] \/ Safe(drafts[active]))'
    <3>1. drafts[active] # 0 => Safe(drafts[active]) BY <1>1, <1>5, <1>6 DEF TextThere
    <3> QED BY <1>1, <1>8, <3>1
  <2>3. (\A k \in calls : k.op = "send" /\ k.served = "yes" => IsPosted(k.text))'
    BY <1>1, <1>6 DEF TextThere, IsPosted
  <2> QED BY <1>5, <1>7, <2>1, <2>2, <2>3 DEF TextThere
<1> QED BY <1>10, <1>11

LEMMA AddedCall ==
  ASSUME Good(calls), NEW k, CallTyped(k), \A j \in calls : j.n # k.n, calls' = calls \cup {k}
  PROVE  Good(calls')
BY MoreIs

LEMMA EnterKeepsText == ASSUME TextWell, Enter PROVE TextWell'
<1>0. TextTyped /\ Base BY DEF TextWell, TextTyped
<1>a. PICK t : t = composer OBVIOUS
<1>1. PICK temp : calls' = calls \cup {[Asked(calls, "send", active, 0) EXCEPT !.text = t, !.temp = temp]}
  BY <1>a DEF Enter
<1>2. PICK a : a = Asked(calls, "send", active, 0) OBVIOUS
<1>3. NewCall(a, calls, "send", active, 0) BY <1>0, <1>2, AskedIs DEF Base, Good, CallOp
<1>4. PICK k : k = [a EXCEPT !.text = t, !.temp = temp] OBVIOUS
<1>5. k = [n |-> a.n, op |-> a.op, chan |-> a.chan, at |-> a.at, text |-> t, temp |-> temp, select |-> a.select,
           served |-> a.served, page |-> a.page, stale |-> a.stale]
  BY <1>3, <1>4 DEF NewCall, CallTyped, CallShape
<1>6. CallTyped(k)
  <2>1. CallShape(k) BY <1>5 DEF CallShape
  <2> QED BY <1>3, <1>5, <2>1 DEF NewCall, CallTyped
<1>7. k.op = "send" /\ k.chan = active /\ k.text = t /\ k.select = FALSE /\ k.served = "no" /\ \A j \in calls : j.n # k.n
  BY <1>3, <1>5 DEF NewCall
<1>8. calls' = calls \cup {k} BY <1>1, <1>2, <1>4
<1>9. /\ t # 0 /\ composer' = 0 /\ hasty' = (hasty \/ Selecting)
      /\ UNCHANGED <<log, in, active, drafts, home>>
  BY <1>a DEF Enter, server
<1>10. Good(calls') BY <1>0, <1>6, <1>7, <1>8, AddedCall DEF Base
<1>11. t \in 1..Len(home) BY <1>a, <1>0, <1>9 DEF TextTyped
<1>12. TextTyped'
  <2>1. Base' BY <1>0, <1>9, <1>10 DEF Base, LogTyped, FramesTyped
  <2>2. hasty' \in BOOLEAN BY <1>0, <1>9 DEF TextTyped, Selecting
  <2>3. (\A j \in calls : (j.op = "send" => j.text \in 1..Len(home)) /\ (j.select => j.op = "load"))'
    BY <1>0, <1>7, <1>8, <1>9, <1>11 DEF TextTyped
  <2> QED BY <1>0, <1>9, <2>1, <2>2, <2>3 DEF TextTyped
<1> SUFFICES ASSUME ~hasty' PROVE (TextHome /\ TextThere)' BY <1>12 DEF TextWell
<1>13. ~hasty /\ ~Selecting BY <1>0, <1>9 DEF TextTyped, Selecting
<1>14. TextHome /\ TextThere BY <1>13 DEF TextWell
<1>15. home[t] = active BY <1>a, <1>9, <1>13, <1>14 DEF TextHome
<1>16. ~Selecting' BY <1>7, <1>8, <1>13 DEF Selecting
<1>17. \A u : Safe(u) => Safe(u)' BY <1>8, <1>9 DEF Safe, Sends, IsPosted
<1>18. Safe(t)' BY <1>7, <1>8 DEF Safe, Sends
<1>19. TextHome' BY <1>7, <1>8, <1>9, <1>14, <1>15 DEF TextHome
<1>20. TextThere'
  <2>1. (\A u \in DOMAIN home : composer = u \/ drafts[home[u]] = u \/ Safe(u))'
    BY <1>a, <1>9, <1>14, <1>17, <1>18 DEF TextThere
  <2>2. (drafts[active] # 0 => Safe(drafts[active]))'
    BY <1>a, <1>9, <1>13, <1>14, <1>17, <1>18 DEF TextThere
  <2>3. (\A j \in calls : j.op = "send" /\ j.served = "yes" => IsPosted(j.text))'
    BY <1>7, <1>8, <1>9, <1>14 DEF TextThere, IsPosted
  <2> QED BY <1>16, <2>1, <2>2, <2>3 DEF TextThere
<1> QED BY <1>19, <1>20

LEMMA SelectKeepsText == ASSUME TextWell, NEW c \in Chan, SelectChannel(c) PROVE TextWell'
<1>0. TextTyped /\ Base BY DEF TextWell, TextTyped
<1>1. /\ active' = c /\ drafts' = IF c # active THEN [drafts EXCEPT ![active] = composer] ELSE drafts
      /\ calls' = calls \cup {[Asked(calls, "load", c, 0) EXCEPT !.select = TRUE]}
      /\ hasty' = (hasty \/ Selecting \/ (c = active /\ composer # 0))
      /\ UNCHANGED <<log, in, composer, home>>
  BY DEF SelectChannel, LoadChannel, server
<1>2. PICK a : a = Asked(calls, "load", c, 0) OBVIOUS
<1>3. NewCall(a, calls, "load", c, 0) BY <1>0, <1>2, AskedIs DEF Base, Good, CallOp
<1>4. PICK k : k = [a EXCEPT !.select = TRUE] OBVIOUS
<1>5. k = [n |-> a.n, op |-> a.op, chan |-> a.chan, at |-> a.at, text |-> a.text, temp |-> a.temp, select |-> TRUE,
           served |-> a.served, page |-> a.page, stale |-> a.stale]
  BY <1>3, <1>4 DEF NewCall, CallTyped, CallShape
<1>6. CallTyped(k)
  <2>1. CallShape(k) BY <1>5 DEF CallShape
  <2> QED BY <1>3, <1>5, <2>1 DEF NewCall, CallTyped
<1>7. k.op = "load" /\ k.chan = c /\ k.select = TRUE /\ \A j \in calls : j.n # k.n
  BY <1>3, <1>5 DEF NewCall
<1>8. calls' = calls \cup {k} BY <1>1, <1>2, <1>4
<1>9. Good(calls') BY <1>0, <1>6, <1>7, <1>8, AddedCall DEF Base
<1>10. TextTyped'
  <2>1. Base' BY <1>0, <1>1, <1>9 DEF Base, LogTyped, FramesTyped
  <2>2. hasty' \in BOOLEAN BY <1>0, <1>1 DEF TextTyped, Selecting
  <2>3. (\A j \in calls : (j.op = "send" => j.text \in 1..Len(home)) /\ (j.select => j.op = "load"))'
    BY <1>0, <1>1, <1>7, <1>8 DEF TextTyped
  <2>4. drafts' \in [Chan -> 0..Len(home)] BY <1>0, <1>1 DEF TextTyped, Base
  <2> QED BY <1>0, <1>1, <2>1, <2>2, <2>3, <2>4 DEF TextTyped
<1> SUFFICES ASSUME ~hasty' PROVE (TextHome /\ TextThere)' BY <1>10 DEF TextWell
<1>13. ~hasty /\ ~Selecting /\ (c = active => composer = 0) BY <1>0, <1>1 DEF TextTyped, Selecting
<1>14. TextHome /\ TextThere BY <1>13 DEF TextWell
<1>16. Selecting' BY <1>7, <1>8 DEF Selecting
<1>17. \A u : Safe(u) => Safe(u)' BY <1>1, <1>8 DEF Safe, Sends, IsPosted
<1>18. drafts \in [Chan -> 0..Len(home)] /\ active \in Chan BY <1>0 DEF TextTyped, Base
<1>19. TextHome'
  <2>1. (\A d \in Chan : drafts[d] # 0 => home[drafts[d]] = d)'
    BY <1>1, <1>13, <1>14, <1>18 DEF TextHome
  <2>2. (\A j \in calls : j.op = "send" => home[j.text] = j.chan)' BY <1>1, <1>7, <1>8, <1>14 DEF TextHome
  <2>3. (\A j \in calls : j.select => j.chan = active)' BY <1>1, <1>7, <1>8, <1>13 DEF Selecting
  <2> QED BY <1>1, <1>14, <1>16, <2>1, <2>2, <2>3 DEF TextHome
<1>20. TextThere'
  <2>1. (\A u \in DOMAIN home : composer = u \/ drafts[home[u]] = u \/ Safe(u))'
    <3> SUFFICES ASSUME NEW u \in DOMAIN home PROVE (composer = u \/ drafts[home[u]] = u \/ Safe(u))' BY <1>1
    <3>1. home[u] \in Chan /\ u # 0 BY <1>0 DEF TextTyped
    <3>2. composer = u \/ drafts[home[u]] = u \/ Safe(u) BY <1>14 DEF TextThere
    <3>3. CASE drafts[home[u]] = u /\ home[u] = active
      <4>1. composer = u \/ Safe(u) BY <1>13, <1>14, <3>1, <3>3 DEF TextThere
      <4> QED BY <1>1, <1>17, <4>1
    <3> QED BY <1>1, <1>17, <1>18, <3>1, <3>2, <3>3
  <2>2. (composer # 0 => drafts[home[composer]] = composer \/ Safe(composer))'
    BY <1>1, <1>13, <1>14, <1>18 DEF TextHome
  <2>3. (\A j \in calls : j.op = "send" /\ j.served = "yes" => IsPosted(j.text))'
    BY <1>1, <1>7, <1>8, <1>14 DEF TextThere, IsPosted
  <2> QED BY <1>16, <2>1, <2>2, <2>3 DEF TextThere
<1> QED BY <1>19, <1>20

LEMMA JumpKeepsText == ASSUME TextWell, NEW i, JumpToMessage(i) PROVE TextWell'
<1>0. TextTyped /\ Base BY DEF TextWell, TextTyped
<1> DEFINE c == log[i].chan
<1>1. /\ active' = c /\ i \in DOMAIN log
      /\ calls' = calls \cup {Asked(calls, "around", c, i)}
      /\ hasty' = (hasty \/ (c # active /\ (composer # 0 \/ drafts[c] # 0 \/ Selecting)))
      /\ UNCHANGED <<log, in, composer, drafts, home>>
  BY DEF JumpToMessage, server, text
<1>2. c \in Chan BY <1>0, <1>1, LogRows DEF Base
<1>3. PICK d : d = c OBVIOUS
<1> HIDE DEF c
<1>4. Keeps(calls, calls') BY <1>0, <1>1, <1>2, MoreKeeps DEF Base, CallOp
<1>5. LogKept({0}) BY <1>0, <1>1, LogSame DEF Base
<1>6. Base' BY <1>0, <1>1, <1>2, <1>3, <1>4 DEF Base, Keeps, LogTyped, FramesTyped
<1>7. TextTyped'
  <2>1. ASSUME NEW m \in calls' PROVE (m.op = "send" => m.text \in 1..Len(home')) /\ (m.select => m.op = "load")
    <3>1. CASE Lasts(m)
      <4>1. PICK k \in calls : SameCall(k, m) BY <1>4, <3>1, CallsStay
      <4> QED BY <1>0, <1>1, <4>1 DEF TextTyped, SameCall
    <3> QED BY <3>1 DEF Lasts
  <2>2. hasty' \in BOOLEAN BY <1>0, <1>1 DEF TextTyped, Selecting
  <2> QED BY <1>0, <1>1, <1>6, <2>1, <2>2 DEF TextTyped
<1> SUFFICES ASSUME ~hasty' PROVE (TextHome /\ TextThere)' BY <1>7 DEF TextWell
<1>8. ~hasty /\ (d # active => composer = 0 /\ drafts[d] = 0 /\ ~Selecting)
  BY <1>0, <1>1, <1>3 DEF TextTyped, Selecting
<1>9. TextHome /\ TextThere BY <1>8 DEF TextWell
<1>10. Selecting' = Selecting BY <1>4, SelectingStays
<1>11. \A t : Safe(t) => Safe(t)' BY <1>4, <1>5, SafeStays
<1>12. active' = d BY <1>1, <1>3
<1>13. TextHome'
  <2>1. \A k \in calls' : k.op = "send" => home[k.text] = k.chan
    BY <1>4, <1>9, CallsStay DEF TextHome, SameCall, Lasts
  <2>2. \A m \in calls' : m.select => m.chan = d
    <3> SUFFICES ASSUME NEW m \in calls', m.select PROVE m.chan = d OBVIOUS
    <3>1. PICK k \in calls : SameCall(k, m) BY <1>4, CallsStay DEF Lasts
    <3>2. k.select /\ k.chan = m.chan BY <3>1 DEF SameCall
    <3>3. Selecting BY <3>2 DEF Selecting
    <3> QED BY <1>8, <1>9, <3>2, <3>3 DEF TextHome
  <2> QED BY <1>1, <1>8, <1>9, <1>10, <1>12, <2>1, <2>2 DEF TextHome
<1>14. TextThere'
  <2>1. \A k \in calls' : k.op = "send" /\ k.served = "yes" => IsPosted(k.text)'
    <3> SUFFICES ASSUME NEW m \in calls', m.op = "send", m.served = "yes" PROVE IsPosted(m.text)' OBVIOUS
    <3>1. PICK k \in calls : SameCall(k, m) /\ m.served = k.served BY <1>4, CallsStay DEF Lasts
    <3>2. IsPosted(k.text) BY <1>9, <3>1 DEF TextThere, SameCall
    <3>3. IsPosted(k.text)' BY <1>5, <3>2, PostedStays
    <3> QED BY <3>1, <3>3 DEF SameCall
  <2> QED BY <1>1, <1>8, <1>9, <1>10, <1>11, <1>12, <2>1 DEF TextThere
<1> QED BY <1>13, <1>14

LEMMA LoadKeepsText == ASSUME TextWell, NEW k \in calls, AnswerLoad(k) PROVE TextWell'
<1>0. TextTyped /\ Base BY DEF TextWell, TextTyped
<1>1. /\ k.op = "load" /\ composer' = (IF k.select THEN drafts[k.chan] ELSE composer)
      /\ calls' = calls \ {k}
      /\ UNCHANGED <<log, in, active, drafts, home, hasty>>
  BY DEF AnswerLoad, server
<1>2. CallTyped(k) BY <1>0 DEF Base, Good, CallsTyped
<1>3. k.chan \in Chan /\ k.select \in BOOLEAN BY <1>2 DEF CallTyped
<1>4. Good(calls') BY <1>0, <1>1, LessIs DEF Base
<1>5. Base' BY <1>0, <1>1, <1>4 DEF Base, LogTyped, FramesTyped
<1>6. TextTyped'
  <2>1. composer' \in 0..Len(home) BY <1>0, <1>1, <1>3 DEF TextTyped
  <2> QED BY <1>0, <1>1, <1>5, <2>1 DEF TextTyped
<1> SUFFICES ASSUME ~hasty' PROVE (TextHome /\ TextThere)' BY <1>6 DEF TextWell
<1>7. TextHome /\ TextThere BY <1>1 DEF TextWell
<1>8. \A t : Safe(t) = Safe(t)' BY <1>1 DEF Safe, Sends, IsPosted
<1>9. (\A j \in calls : j.op = "send" => home[j.text] = j.chan)' BY <1>1, <1>7 DEF TextHome
<1>10. (\A j \in calls : j.select => j.chan = active)' BY <1>1, <1>7 DEF TextHome
<1>11. (\A j \in calls : j.op = "send" /\ j.served = "yes" => IsPosted(j.text))'
  BY <1>1, <1>7 DEF TextThere, IsPosted
<1>12. (\A i \in DOMAIN log : log[i].text # 0 => home[log[i].text] = log[i].chan)' BY <1>1, <1>7 DEF TextHome
<1>13. CASE k.select
  <2>1. Selecting BY <1>13 DEF Selecting
  <2>2. k.chan = active /\ composer' = drafts[active] BY <1>1, <1>7, <1>13 DEF TextHome
  <2>3. drafts[active] # 0 => home[drafts[active]] = active BY <1>2, <1>3, <1>7, <2>2 DEF TextHome
  <2>4. TextHome' BY <1>1, <1>7, <1>9, <1>10, <1>12, <2>2, <2>3 DEF TextHome
  <2>5. (\A t \in DOMAIN home : composer = t \/ drafts[home[t]] = t \/ Safe(t))'
    <3> SUFFICES ASSUME NEW t \in DOMAIN home PROVE drafts[home[t]] = t \/ Safe(t) BY <1>1, <1>8
    <3>1. t # 0 BY <1>0 DEF TextTyped
    <3>2. CASE composer = t BY <1>7, <2>1, <3>1, <3>2 DEF TextThere
    <3>3. CASE composer # t BY <1>7, <3>3 DEF TextThere
    <3> QED BY <3>2, <3>3
  <2>6. TextThere' BY <1>1, <1>8, <1>11, <2>2, <2>3, <2>5 DEF TextThere
  <2> QED BY <2>4, <2>6
<1>14. CASE ~k.select
  <2>1. Selecting' = Selecting BY <1>1, <1>14 DEF Selecting
  <2>2. UNCHANGED composer BY <1>1, <1>14
  <2>3. TextHome' BY <1>1, <1>7, <1>9, <1>10, <1>12, <2>1, <2>2 DEF TextHome
  <2>4. TextThere' BY <1>1, <1>7, <1>8, <1>11, <2>1, <2>2 DEF TextThere
  <2> QED BY <2>3, <2>4
<1> QED BY <1>3, <1>13, <1>14

LEMMA FailKeepsText == ASSUME TextWell, NEW k \in calls, Fail(k) PROVE TextWell'
<1>0. TextTyped /\ Base BY DEF TextWell, TextTyped
<1>1. PICK m : m = [k EXCEPT !.served = "failed"] OBVIOUS
<1>2. calls' = (calls \ {k}) \cup {m} /\ UNCHANGED <<log, in, active, composer, drafts, home, hasty>>
  BY <1>1 DEF Fail, server, text, ghosts
<1>3. CallTyped(k) BY <1>0 DEF Base, Good, CallsTyped
<1>4. CallTyped(m) /\ SameCall(k, m) /\ m.served = "failed" BY <1>1, <1>3, ServedIs
<1>5. Good(calls') BY <1>0, <1>2, <1>4, ExchangeIs DEF Base, SameCall
<1>6. Base' BY <1>0, <1>2, <1>5 DEF Base, LogTyped, FramesTyped
<1>7. TextTyped'
  <2>1. (\A j \in calls : (j.op = "send" => j.text \in 1..Len(home)) /\ (j.select => j.op = "load"))'
    BY <1>0, <1>2, <1>4 DEF TextTyped, SameCall
  <2> QED BY <1>0, <1>2, <1>6, <2>1 DEF TextTyped
<1> SUFFICES ASSUME ~hasty' PROVE (TextHome /\ TextThere)' BY <1>7 DEF TextWell
<1>8. TextHome /\ TextThere BY <1>2 DEF TextWell
<1>9. Selecting' = Selecting BY <1>2, <1>4 DEF Selecting, SameCall
<1>10. \A t : Safe(t) => Safe(t)' BY <1>2, <1>4 DEF Safe, Sends, IsPosted, SameCall
<1>11. TextHome' BY <1>2, <1>4, <1>8, <1>9 DEF TextHome, SameCall
<1>12. (\A j \in calls : j.op = "send" /\ j.served = "yes" => IsPosted(j.text))'
  BY <1>2, <1>4, <1>8 DEF TextThere, IsPosted
<1>13. TextThere' BY <1>2, <1>8, <1>9, <1>10, <1>12 DEF TextThere
<1> QED BY <1>11, <1>13

\* What serving a send comes to: one more message, the send served, calls overtaken.
LEMMA ServeSendIs ==
  ASSUME Base, NEW k \in calls, ServeSend(k), k.text \in Nat
  PROVE  \E K, m : /\ m = [k EXCEPT !.served = "yes", !.at = Len(log) + 1]
                   /\ CallTyped(m) /\ SameCall(k, m) /\ m.served = "yes" /\ k.op = "send" /\ k.served = "no"
                   /\ K = (calls \ {k}) \cup {m} /\ Good(K) /\ Keeps(K, calls')
                   /\ log' = Append(log, [chan |-> k.chan, text |-> k.text, ver |-> Posted])
                   /\ log' \in Seq(LogRow) /\ FramesTyped'
                   /\ UNCHANGED <<active, composer, drafts, home, hasty>>
<1>1. CallTyped(k) BY DEF Base, Good, CallsTyped
<1>2. PICK m : m = [k EXCEPT !.served = "yes", !.at = Len(log) + 1] OBVIOUS
<1>3. CallTyped(m) /\ SameCall(k, m) /\ m.served = "yes"
  <2>1. PICK i : i = Len(log) + 1 OBVIOUS
  <2>2. m = [k EXCEPT !.served = "yes", !.at = i] BY <1>2, <2>1
  <2> QED BY <1>1, <2>2, PlacedIs, ZenonT(30)
<1>4. PICK K : K = (calls \ {k}) \cup {m} OBVIOUS
<1>5. Good(K) BY <1>3, <1>4, ExchangeIs DEF Base, SameCall
<1>6. /\ k.op = "send" /\ k.served = "no" /\ Broadcast(Frame("new", k.chan, Len(log) + 1, Posted), K)
      /\ log' = Append(log, [chan |-> k.chan, text |-> k.text, ver |-> Posted])
      /\ UNCHANGED <<active, composer, drafts, home, hasty>>
  BY <1>2, <1>4 DEF ServeSend, Create, text
<1>7. k.chan \in Chan BY <1>1 DEF CallTyped
<1>8. Frame("new", k.chan, Len(log) + 1, Posted) \in FrameSet BY <1>7 DEF Frame, FrameSet, Base, LogTyped
<1>9. Keeps(K, calls') /\ FramesTyped' BY <1>5, <1>6, <1>8, BroadcastKeeps DEF Base
<1>10. [chan |-> k.chan, text |-> k.text, ver |-> Posted] \in LogRow BY <1>7 DEF LogRow
<1>11. log' \in Seq(LogRow) BY <1>6, <1>10 DEF Base, LogTyped
<1> QED BY <1>2, <1>3, <1>4, <1>5, <1>6, <1>9, <1>11

LEMMA ServeSendKeepsText == ASSUME TextWell, NEW k \in calls, ServeSend(k) PROVE TextWell'
<1>0. TextTyped /\ Base BY DEF TextWell, TextTyped
<1>a. k.op = "send" BY DEF ServeSend
<1>b. Len(home) \in Nat /\ k.text \in 1..Len(home) BY <1>0, <1>a DEF TextTyped
<1>c. k.text \in Nat BY <1>b
<1>1. PICK K, m : /\ CallTyped(m) /\ SameCall(k, m) /\ m.served = "yes" /\ k.op = "send" /\ k.served = "no"
                  /\ K = (calls \ {k}) \cup {m} /\ Good(K) /\ Keeps(K, calls')
                  /\ log' = Append(log, [chan |-> k.chan, text |-> k.text, ver |-> Posted])
                  /\ log' \in Seq(LogRow) /\ FramesTyped'
                  /\ UNCHANGED <<active, composer, drafts, home, hasty>>
  BY <1>0, <1>c, ServeSendIs
<1>2. DOMAIN log' = 1..Len(log) + 1 /\ DOMAIN log = 1..Len(log) /\ Len(log) \in Nat
      /\ (\A i \in DOMAIN log : log'[i] = log[i])
      /\ log'[Len(log) + 1] = [chan |-> k.chan, text |-> k.text, ver |-> Posted]
  BY <1>0, <1>1 DEF Base, LogTyped
<1>3. \A i \in DOMAIN log' : i \in DOMAIN log \/ i = Len(log) + 1 BY <1>2
<1>4. IsPosted(k.text)' BY <1>2 DEF IsPosted
<1>5. LogKept({k.text}) BY <1>1, <1>2, <1>3 DEF LogKept
<1>6. Base' BY <1>0, <1>1 DEF Base, LogTyped, Keeps
<1>7. \A j \in calls' : Lasts(j) => \E l \in calls : SameCall(l, j) /\ (j.op = "send" => j.served = l.served \/ l = k)
  <2> SUFFICES ASSUME NEW j \in calls', Lasts(j)
               PROVE \E l \in calls : SameCall(l, j) /\ (j.op = "send" => j.served = l.served \/ l = k) OBVIOUS
  <2>1. PICK x \in K : SameCall(x, j) /\ (j.op = "send" => j.served = x.served) BY <1>1 DEF Keeps
  <2>2. CASE x = m BY <1>1, <2>1, <2>2 DEF SameCall
  <2>3. CASE x # m BY <1>1, <2>1, <2>3
  <2> QED BY <2>2, <2>3
<1>8. TextTyped'
  <2>1. ASSUME NEW j \in calls' PROVE (j.op = "send" => j.text \in 1..Len(home)) /\ (j.select => j.op = "load")
    <3>1. CASE Lasts(j)
      <4>1. PICK l \in calls : SameCall(l, j) BY <1>7, <3>1
      <4> QED BY <1>0, <4>1 DEF TextTyped, SameCall
    <3> QED BY <3>1 DEF Lasts
  <2>2. ASSUME NEW i \in DOMAIN log' PROVE log'[i].text <= Len(home)
    BY <1>0, <1>b, <1>2, <1>3 DEF TextTyped
  <2> QED BY <1>0, <1>1, <1>6, <2>1, <2>2 DEF TextTyped
<1> SUFFICES ASSUME ~hasty' PROVE (TextHome /\ TextThere)' BY <1>8 DEF TextWell
<1>9. TextHome /\ TextThere BY <1>1 DEF TextWell
<1>10. Selecting' = Selecting
  <2>1. Selecting' => Selecting
    <3> SUFFICES ASSUME NEW j \in calls', j.select PROVE Selecting BY DEF Selecting
    <3>1. PICK l \in calls : SameCall(l, j) BY <1>7 DEF Lasts
    <3> QED BY <3>1 DEF SameCall, Selecting
  <2>2. Selecting => Selecting'
    <3> SUFFICES ASSUME NEW l \in calls, l.select PROVE Selecting' BY DEF Selecting
    <3>1. PICK x \in K : SameCall(l, x) BY <1>1 DEF SameCall
    <3>2. Lasts(x) BY <3>1 DEF Lasts, SameCall
    <3>3. PICK j \in calls' : SameCall(x, j) BY <1>1, <3>2 DEF Keeps
    <3> QED BY <3>1, <3>3 DEF SameCall, Selecting
  <2> QED BY <2>1, <2>2 DEF Selecting
<1>11. \A t : Safe(t) => Safe(t)'
  <2> SUFFICES ASSUME NEW t, Safe(t) PROVE Safe(t)' OBVIOUS
  <2>1. CASE IsPosted(t) BY <1>5, <2>1, PostedStays DEF Safe
  <2>2. CASE Sends(t)
    <3>1. PICK l \in calls : l.op = "send" /\ l.text = t BY <2>2 DEF Sends
    <3>2. CASE l = k BY <1>4, <3>1, <3>2 DEF Safe
    <3>3. CASE l # k
      <4>1. l \in K BY <1>1, <3>3
      <4>2. PICK j \in calls' : SameCall(l, j) BY <1>1, <3>1, <4>1 DEF Keeps, Lasts
      <4> QED BY <3>1, <4>2 DEF Safe, Sends, SameCall
    <3> QED BY <3>2, <3>3
  <2> QED BY <2>1, <2>2 DEF Safe
<1>12. TextHome'
  <2>1. \A j \in calls' : j.op = "send" => home[j.text] = j.chan BY <1>7, <1>9 DEF TextHome, SameCall, Lasts
  <2>2. \A j \in calls' : j.select => j.chan = active BY <1>7, <1>9 DEF TextHome, SameCall, Lasts
  <2>3. \A i \in DOMAIN log' : log'[i].text # 0 => home[log'[i].text] = log'[i].chan
    <3>1. home[k.text] = k.chan BY <1>9, <1>a DEF TextHome
    <3> QED BY <1>2, <1>3, <1>9, <3>1 DEF TextHome
  <2> QED BY <1>1, <1>9, <1>10, <2>1, <2>2, <2>3 DEF TextHome
<1>13. TextThere'
  <2>1. \A j \in calls' : j.op = "send" /\ j.served = "yes" => IsPosted(j.text)'
    <3> SUFFICES ASSUME NEW j \in calls', j.op = "send", j.served = "yes" PROVE IsPosted(j.text)' OBVIOUS
    <3>1. PICK l \in calls : SameCall(l, j) /\ (j.served = l.served \/ l = k) BY <1>7 DEF Lasts
    <3>2. CASE l = k BY <1>4, <3>1, <3>2 DEF SameCall
    <3>3. CASE l # k
      <4>1. IsPosted(l.text) BY <1>9, <3>1, <3>3 DEF TextThere, SameCall
      <4>2. IsPosted(l.text)' BY <1>5, <4>1, PostedStays
      <4> QED BY <3>1, <4>2 DEF SameCall
    <3> QED BY <3>2, <3>3
  <2> QED BY <1>1, <1>9, <1>10, <1>11, <2>1 DEF TextThere
<1> QED BY <1>12, <1>13

LEMMA SentKeepsText == ASSUME TextWell, NEW k \in calls, k.op = "send", k.served = "yes", AnswerSend(k) PROVE TextWell'
<1>0. TextTyped /\ Base BY DEF TextWell, TextTyped
<1>1. PICK F : F = {Frame("new", k.chan, k.at, Posted)} OBVIOUS
<1>2. PICK K : K = calls \ {k} OBVIOUS
<1>3. calls' = Overtaken(K, F) /\ UNCHANGED <<log, in, active, composer, drafts, home, hasty>>
  BY <1>1, <1>2 DEF AnswerSend, Sent, server
<1>4. Good(K) BY <1>0, <1>2, LessIs DEF Base
<1>5. Keeps(K, calls') BY <1>3, <1>4, OvertakenKeeps
<1>6. Base' BY <1>0, <1>3, <1>5 DEF Base, Keeps, LogTyped, FramesTyped
<1>7. \A j \in calls' : Lasts(j) => \E l \in calls : SameCall(l, j) /\ (j.op = "send" => j.served = l.served)
  BY <1>2, <1>5 DEF Keeps
<1>8. TextTyped'
  <2>1. ASSUME NEW j \in calls' PROVE (j.op = "send" => j.text \in 1..Len(home)) /\ (j.select => j.op = "load")
    <3>1. CASE Lasts(j)
      <4>1. PICK l \in calls : SameCall(l, j) BY <1>7, <3>1
      <4> QED BY <1>0, <4>1 DEF TextTyped, SameCall
    <3> QED BY <3>1 DEF Lasts
  <2> QED BY <1>0, <1>3, <1>6, <2>1 DEF TextTyped
<1> SUFFICES ASSUME ~hasty' PROVE (TextHome /\ TextThere)' BY <1>8 DEF TextWell
<1>9. TextHome /\ TextThere BY <1>3 DEF TextWell
<1>10. ~k.select BY <1>0 DEF TextTyped
<1>11. Selecting' = Selecting
  <2>1. Selecting' => Selecting
    <3> SUFFICES ASSUME NEW j \in calls', j.select PROVE Selecting BY DEF Selecting
    <3>1. PICK l \in calls : SameCall(l, j) BY <1>7 DEF Lasts
    <3> QED BY <3>1 DEF SameCall, Selecting
  <2>2. Selecting => Selecting'
    <3> SUFFICES ASSUME NEW l \in calls, l.select PROVE Selecting' BY DEF Selecting
    <3>1. l \in K BY <1>2, <1>10
    <3>2. PICK j \in calls' : SameCall(l, j) BY <1>5, <3>1 DEF Keeps, Lasts
    <3> QED BY <3>2 DEF SameCall, Selecting
  <2> QED BY <2>1, <2>2 DEF Selecting
<1>12. \A t : IsPosted(t)' = IsPosted(t) BY <1>3 DEF IsPosted
<1>13. \A t : Safe(t) => Safe(t)'
  <2> SUFFICES ASSUME NEW t, Sends(t) PROVE Safe(t)' BY <1>12 DEF Safe
  <2>1. PICK l \in calls : l.op = "send" /\ l.text = t BY DEF Sends
  <2>2. CASE l = k BY <1>9, <1>12, <2>1, <2>2 DEF TextThere, Safe
  <2>3. CASE l # k
    <3>1. l \in K BY <1>2, <2>3
    <3>2. PICK j \in calls' : SameCall(l, j) BY <1>5, <2>1, <3>1 DEF Keeps, Lasts
    <3> QED BY <2>1, <3>2 DEF Safe, Sends, SameCall
  <2> QED BY <2>2, <2>3
<1>14. TextHome'
  <2>1. \A j \in calls' : j.op = "send" => home[j.text] = j.chan BY <1>7, <1>9 DEF TextHome, SameCall, Lasts
  <2>2. \A j \in calls' : j.select => j.chan = active BY <1>7, <1>9 DEF TextHome, SameCall, Lasts
  <2> QED BY <1>3, <1>9, <1>11, <2>1, <2>2 DEF TextHome
<1>15. TextThere'
  <2>1. \A j \in calls' : j.op = "send" /\ j.served = "yes" => IsPosted(j.text)'
    BY <1>7, <1>9, <1>12 DEF TextThere, SameCall, Lasts
  <2> QED BY <1>3, <1>9, <1>11, <1>13, <2>1 DEF TextThere
<1> QED BY <1>14, <1>15

LEMMA UnsentKeepsText ==
  ASSUME TextWell, NEW k \in calls, k.op = "send", k.served = "failed", AnswerSend(k) PROVE TextWell'
<1>0. TextTyped /\ Base BY DEF TextWell, TextTyped
<1>1. Unsent(k) /\ UNCHANGED <<log, in, active, home>> BY DEF AnswerSend, server
<1>2. calls' = calls \ {k} BY <1>1 DEF Unsent
<1>3. /\ k.chan = active => /\ composer' = k.text /\ drafts' = drafts
                            /\ hasty' = (hasty \/ composer # 0 \/ Selecting)
      /\ k.chan # active => /\ drafts' = [drafts EXCEPT ![k.chan] = k.text] /\ composer' = composer
                            /\ hasty' = (hasty \/ drafts[k.chan] \notin {0, k.text})
  BY <1>1 DEF Unsent
<1>4. CallTyped(k) BY <1>0 DEF Base, Good, CallsTyped
<1>5. k.chan \in Chan /\ k.text \in 1..Len(home) /\ ~k.select BY <1>0, <1>4 DEF CallTyped, TextTyped
<1>6. Good(calls') BY <1>0, <1>2, LessIs DEF Base
<1>7. Base' BY <1>0, <1>1, <1>6 DEF Base, LogTyped, FramesTyped
<1>8. TextTyped'
  <2>1. composer' \in 0..Len(home) /\ drafts' \in [Chan -> 0..Len(home)] BY <1>0, <1>3, <1>5 DEF TextTyped
  <2>2. hasty' \in BOOLEAN BY <1>0, <1>3 DEF TextTyped, Selecting
  <2> QED BY <1>0, <1>1, <1>2, <1>7, <2>1, <2>2 DEF TextTyped
<1> SUFFICES ASSUME ~hasty' PROVE (TextHome /\ TextThere)' BY <1>8 DEF TextWell
<1>9. ~hasty /\ (k.chan = active => composer = 0 /\ ~Selecting) /\ (k.chan # active => drafts[k.chan] \in {0, k.text})
  BY <1>0, <1>3 DEF TextTyped, Selecting
<1>10. TextHome /\ TextThere BY <1>9 DEF TextWell
<1>11. Selecting' = Selecting BY <1>2, <1>5 DEF Selecting
<1>12. home[k.text] = k.chan BY <1>10 DEF TextHome
<1>13. \A t : Safe(t) => Safe(t)' \/ t = k.text
  <2> SUFFICES ASSUME NEW t, Safe(t), t # k.text PROVE Safe(t)' OBVIOUS
  <2> QED BY <1>1, <1>2 DEF Safe, Sends, IsPosted
<1>14. drafts \in [Chan -> 0..Len(home)] BY <1>0 DEF TextTyped
<1>15. \A d \in Chan : drafts'[d] = drafts[d] \/ (d = k.chan /\ drafts'[d] = k.text /\ d # active)
  BY <1>3, <1>14
<1>16. \A d \in Chan : drafts'[d] = drafts[d] \/ (d = k.chan /\ drafts[d] = 0 /\ drafts'[d] = k.text)
  BY <1>9, <1>15
<1>17. composer' = k.text \/ (drafts'[k.chan] = k.text /\ k.chan # active) BY <1>3, <1>5, <1>14
<1>18. composer' = composer \/ (composer = 0 /\ composer' = k.text /\ k.chan = active /\ ~Selecting) BY <1>3, <1>9
<1>19. TextHome'
  <2>1. (\A d \in Chan : drafts[d] # 0 => home[drafts[d]] = d)' BY <1>1, <1>10, <1>12, <1>15 DEF TextHome
  <2>2. (composer # 0 => home[composer] = active \/ Selecting)' BY <1>1, <1>10, <1>11, <1>12, <1>18 DEF TextHome
  <2> QED BY <1>1, <1>2, <1>10, <2>1, <2>2 DEF TextHome
<1>20. TextThere'
  <2>0. \A t \in DOMAIN home : home[t] \in Chan /\ t # 0 BY <1>0 DEF TextTyped
  <2>1. (\A t \in DOMAIN home : composer = t \/ drafts[home[t]] = t \/ Safe(t))'
    <3> SUFFICES ASSUME NEW t \in DOMAIN home PROVE (composer = t \/ drafts[home[t]] = t \/ Safe(t))' BY <1>1
    <3>1. CASE t = k.text BY <1>1, <1>12, <1>17, <3>1
    <3>2. CASE t # k.text
      <4>1. composer = t => composer' = t BY <1>18, <2>0
      <4>2. drafts[home[t]] = t => drafts'[home[t]] = t BY <1>16, <2>0
      <4>3. composer = t \/ drafts[home[t]] = t \/ Safe(t) BY <1>10 DEF TextThere
      <4> QED BY <1>1, <1>13, <3>2, <4>1, <4>2, <4>3
    <3> QED BY <3>1, <3>2
  <2>2. (Selecting /\ composer # 0 => drafts[home[composer]] = composer \/ Safe(composer))'
    <3> SUFFICES ASSUME Selecting, composer' # 0 PROVE (drafts[home[composer]] = composer \/ Safe(composer))'
      BY <1>11
    <3>1. composer' = composer BY <1>18
    <3>2. composer \in DOMAIN home BY <1>0, <3>1 DEF TextTyped
    <3>3. drafts[home[composer]] = composer \/ Safe(composer) BY <1>10, <3>1 DEF TextThere
    <3>4. CASE composer = k.text
      <4>1. composer' # 0 /\ k.chan # active BY <1>9, <3>1
      <4> QED BY <1>1, <1>3, <1>5, <1>12, <1>14, <3>1, <3>4, <4>1
    <3>5. CASE composer # k.text
      <4>1. drafts[home[composer]] = composer => drafts'[home[composer]] = composer BY <1>16, <2>0, <3>1, <3>2
      <4>2. Safe(composer) => Safe(composer)' BY <1>1, <1>2, <3>1, <3>5 DEF Safe, Sends, IsPosted
      <4> QED BY <1>1, <3>1, <3>3, <4>1, <4>2
    <3> QED BY <3>4, <3>5
  <2>3. (~Selecting /\ drafts[active] # 0 => composer = drafts[active] \/ Safe(drafts[active]))'
    <3> SUFFICES ASSUME ~Selecting, drafts'[active] # 0 PROVE (composer = drafts[active] \/ Safe(drafts[active]))'
      BY <1>1, <1>11
    <3>1. active \in Chan BY <1>0 DEF Base
    <3>2. drafts'[active] = drafts[active] BY <1>15, <3>1
    <3>3. PICK t : t = drafts[active] OBVIOUS
    <3>4. composer = t \/ Safe(t) BY <1>10, <3>2, <3>3 DEF TextThere
    <3>5. home[t] = active BY <1>10, <3>1, <3>2, <3>3 DEF TextHome
    <3>6. CASE t = k.text
      <4>1. k.chan = active BY <1>12, <3>5, <3>6
      <4> QED BY <1>1, <1>3, <3>2, <3>3, <3>6, <4>1
    <3>7. CASE t # k.text
      <4>1. composer = t => composer' = t BY <1>18, <3>2, <3>3
      <4>2. drafts'[active'] = t BY <1>1, <3>2, <3>3
      <4>3. Safe(t) => Safe(t)' BY <1>13, <3>7
      <4>4. composer' = t \/ Safe(t)' BY <3>4, <4>1, <4>3
      <4> QED BY <4>2, <4>4 DEF Safe, Sends, IsPosted
    <3> QED BY <3>6, <3>7
  <2>4. (\A j \in calls : j.op = "send" /\ j.served = "yes" => IsPosted(j.text))'
    BY <1>1, <1>2, <1>10 DEF TextThere, IsPosted
  <2> QED BY <2>1, <2>2, <2>3, <2>4 DEF TextThere
<1> QED BY <1>19, <1>20

\* What the parts of the composer's step come to for the text.
TextStep ==
  \/ PaneStep \/ Enter
  \/ \E c \in Chan : SelectChannel(c)
  \/ \E i \in Id : JumpToMessage(i)
  \/ \E k \in calls : AnswerLoad(k) \/ ServeSend(k) \/ Fail(k) \/ AnswerSend(k)
  \/ StillText /\ UNCHANGED <<log, in, calls, link, window, strayed>>

LEMMA StepOfText == ASSUME ComposerStep PROVE TextStep
<1>1. CASE PaneStep BY <1>1 DEF TextStep
<1>2. CASE UploadAndInsert BY <1>2 DEF UploadAndInsert, TextStep, StillText, paneVars, server, socket, pane, text, ghosts
<1>3. CASE SendWithTiles BY <1>3 DEF SendWithTiles, TextStep
<1>4. ASSUME NEW i \in DOMAIN upload, UploadDone(i) \/ UploadFails(i) \/ RemoveTile(i) PROVE TextStep
  BY <1>4 DEF UploadDone, UploadFails, RemoveTile, TextStep, StillText, paneVars, server, socket, pane, text, ghosts
<1>5. ASSUME NEW c \in Chan, SelectAndStash(c) PROVE TextStep BY <1>5 DEF SelectAndStash, TextStep
<1>6. ASSUME NEW i \in Id, JumpWithTray(i) PROVE TextStep BY <1>6 DEF JumpWithTray, TextStep
<1>7. ASSUME NEW k \in calls, LoadAndUnstash(k) \/ ServeWithTiles(k) \/ FailWithTiles(k) \/ AnswerWithTiles(k)
      PROVE  TextStep
  BY <1>7 DEF LoadAndUnstash, ServeWithTiles, FailWithTiles, AnswerWithTiles, TextStep
<1> QED BY <1>1, <1>2, <1>3, <1>4, <1>5, <1>6, <1>7 DEF ComposerStep

LEMMA PaneStepKeepsText == ASSUME TextWell, PaneStep PROVE TextWell'
<1>0. TextTyped /\ Base BY DEF TextWell, TextTyped
<1>1. UNCHANGED log => LogKept({0}) BY <1>0, LogSame DEF Base
<1>2. UNCHANGED in => FramesTyped' BY <1>0 DEF Base, FramesTyped
<1>3. CASE LoadOlderMessages \/ LoadNewerMessages
  BY <1>0, <1>1, <1>2, <1>3, AskingKeeps, StillKeepsText
<1>4. CASE Type BY <1>4, TypeKeepsText
<1>5. ASSUME NEW k \in calls, ServeList(k) PROVE TextWell'
  BY <1>0, <1>1, <1>2, <1>5, ServingKeeps, StillKeepsText
<1>6. ASSUME NEW k \in calls, AnswerAround(k) \/ AnswerOlder(k) \/ AnswerNewer(k) PROVE TextWell'
  <2>1. ~k.select BY <1>0, <1>6 DEF AnswerAround, AnswerOlder, AnswerNewer, TextTyped
  <2> QED BY <1>0, <1>1, <1>2, <1>6, <2>1, LandingKeeps, StillKeepsText
<1>7. ASSUME NEW c \in Chan, Post(c) PROVE TextWell'
  BY <1>0, <1>7, PostKeeps, StillKeepsText
<1>8. ASSUME NEW i \in Id, NEW ver \in {Edited, Deleted}, Change(i, ver) PROVE TextWell'
  <2>1. LogKept({}) => LogKept({0}) BY DEF LogKept
  <2> QED BY <1>0, <1>8, <2>1, ChangeKeeps, StillKeepsText
<1>9. ASSUME NEW near \in BOOLEAN, Take(near) PROVE TextWell'
  BY <1>0, <1>1, <1>9, TakingKeeps, StillKeepsText
<1>10. ASSUME NEW near \in BOOLEAN, Drop \/ Sleep \/ Connect \/ Resync(near) PROVE TextWell'
  BY <1>0, <1>1, <1>10, SocketKeeps, StillKeepsText
<1> QED BY <1>3, <1>4, <1>5, <1>6, <1>7, <1>8, <1>9, <1>10 DEF PaneStep

LEMMA StepKeepsText == ASSUME TextWell, TextStep PROVE TextWell'
<1>0. TextTyped /\ Base BY DEF TextWell, TextTyped
<1>1. CASE PaneStep BY <1>1, PaneStepKeepsText
<1>2. CASE Enter BY <1>2, EnterKeepsText
<1>3. ASSUME NEW c \in Chan, SelectChannel(c) PROVE TextWell' BY <1>3, SelectKeepsText
<1>4. ASSUME NEW i \in Id, JumpToMessage(i) PROVE TextWell' BY <1>4, JumpKeepsText
<1>5. ASSUME NEW k \in calls, AnswerLoad(k) \/ ServeSend(k) \/ Fail(k) PROVE TextWell'
  BY <1>5, LoadKeepsText, ServeSendKeepsText, FailKeepsText
<1>6. ASSUME NEW k \in calls, AnswerSend(k) PROVE TextWell'
  BY <1>6, SentKeepsText, UnsentKeepsText DEF AnswerSend
<1>7. CASE StillText /\ UNCHANGED <<log, in, calls, link, window, strayed>>
  <2>1. LogKept({0}) BY <1>0, <1>7, LogSame DEF Base
  <2>2. Keeps(calls, calls') BY <1>0, <1>7, KeepsAll DEF Base
  <2>3. FramesTyped' BY <1>0, <1>7 DEF Base, FramesTyped
  <2> QED BY <1>7, <2>1, <2>2, <2>3, StillKeepsText
<1> QED BY <1>1, <1>2, <1>3, <1>4, <1>5, <1>6, <1>7 DEF TextStep

LEMMA NextStep == ASSUME [Next]_vars PROVE TextStep
<1>1. CASE ComposerStep BY <1>1, StepOfText
<1>2. CASE UNCHANGED composerVars
  BY <1>2 DEF composerVars, paneVars, server, socket, pane, text, ghosts, TextStep, StillText
<1>3. ASSUME NEW i \in Id, PickHit(i) PROVE TextStep BY <1>3 DEF PickHit, JumpWithTray, TextStep
<1>4. ASSUME NEW x, FailSearch(x) PROVE TextStep
  BY <1>4 DEF FailSearch, server, socket, pane, text, ghosts, TextStep, StillText
<1> QED BY <1>1, <1>2, <1>3, <1>4 DEF Next, OpenSearch, CloseSearch, Debounced, RunNow, More, OnInput, ServeSearch, Land, vars

LEMMA InitText == ASSUME Init PROVE TextWell
<1>1. PaneInit BY DEF Init, ComposerInit
<1>2. limit \in Limits /\ limit.old \in Nat
  <2>1. limit \in Limits BY <1>1 DEF PaneInit
  <2>2. 0..MaxLog \subseteq Nat BY BoundsAssumption
  <2> QED BY <2>1, <2>2, BoundsAssumption
<1>3. LogTyped /\ (\A i \in DOMAIN log : log[i].text = 0)
  <2>1. log = [i \in 1..limit.old |-> [chan |-> First, text |-> 0, ver |-> Posted]] BY <1>1 DEF PaneInit
  <2>2. [chan |-> First, text |-> 0, ver |-> Posted] \in LogRow BY ChanAssumption DEF LogRow
  <2> QED BY <1>2, <2>1, <2>2 DEF LogTyped
<1>4. CallsTyped({}) BY FS_EmptySet DEF CallsTyped
<1>5. PICK k : k = Asked({}, "load", First, 0) OBVIOUS
<1>6. NewCall(k, {}, "load", First, 0) BY <1>4, <1>5, AskedIs, ChanAssumption DEF CallOp
<1>7. calls = {} \/ calls = {k} BY <1>1, <1>5 DEF PaneInit
<1>8. Good({}) BY <1>4 DEF Good, Differ
<1>9. Good({k}) BY <1>6, <1>8, MoreIs DEF NewCall
<1>10. Good(calls) /\ \A j \in calls : j.op = "load" /\ ~j.select BY <1>6, <1>7, <1>8, <1>9 DEF NewCall
<1>11. in = <<>> /\ active = First /\ composer = 0 /\ drafts = [c \in Chan |-> 0] /\ home = <<>> /\ hasty = FALSE
  BY <1>1 DEF PaneInit
<1>12. Base
  <2>1. FramesTyped BY <1>11 DEF FramesTyped
  <2> QED BY <1>3, <1>10, <1>11, <2>1, ChanAssumption DEF Base
<1>13. TextTyped
  <2>1. home \in Seq(Chan) /\ Len(home) = 0 BY <1>11
  <2>a. home \in Seq(Chan) BY <2>1
  <2>2. composer \in 0..Len(home) BY <1>11, <2>1
  <2>b. drafts \in [Chan -> 0..Len(home)] BY <1>11, <2>1
  <2>3. \A i \in DOMAIN log : log[i].text <= Len(home) BY <1>3, <2>1
  <2>4. \A j \in calls : (j.op = "send" => j.text \in 1..Len(home)) /\ (j.select => j.op = "load") BY <1>10
  <2>5. hasty \in BOOLEAN BY <1>11
  <2> QED BY <1>12, <2>a, <2>b, <2>2, <2>3, <2>4, <2>5 DEF TextTyped
<1>14. TextHome BY <1>3, <1>10, <1>11 DEF TextHome
<1>15. TextThere
  <2>1. DOMAIN home = {} BY <1>11
  <2>2. composer = 0 /\ drafts[active] = 0 BY <1>11, ChanAssumption
  <2> QED BY <1>10, <2>1, <2>2 DEF TextThere
<1> QED BY <1>13, <1>14, <1>15 DEF TextWell

LEMMA TextWellIsKept == ASSUME TextWell PROVE TextKept
<1> SUFFICES ASSUME ~hasty, NEW t \in DOMAIN home
             PROVE LET c == home[t]
                       sending == {k \in calls : k.op = "send" /\ k.text = t}
                       there == {i \in DOMAIN log : log[i].text = t}
                   IN  /\ composer = t \/ drafts[c] = t \/ sending # {} \/ there # {}
                       /\ composer = t => active = c \/ Selecting
                       /\ \A d \in Chan : drafts[d] = t => d = c
                       /\ \A k \in sending : k.chan = c
                       /\ \A i \in there : log[i].chan = c
  BY DEF TextKept
<1>1. TextTyped /\ TextHome /\ TextThere BY DEF TextWell
<1>2. t # 0 BY <1>1 DEF TextTyped
<1>3. Safe(t) => {k \in calls : k.op = "send" /\ k.text = t} # {} \/ {i \in DOMAIN log : log[i].text = t} # {}
  BY DEF Safe, Sends, IsPosted
<1>4. composer = t \/ drafts[home[t]] = t \/ Safe(t) BY <1>1 DEF TextThere
<1> QED BY <1>1, <1>2, <1>3, <1>4 DEF TextHome

\* A text is in the composer, a draft, on its way or posted, and only in the
\* channel it was typed in, whatever fails and wherever the user goes (drafts.js,
\* selectChannel, the failed send).
THEOREM TextsAreKept == Spec => []TextKept
<1>1. Init => TextWell BY InitText
<1>2. TextWell /\ [Next]_vars => TextWell' BY NextStep, StepKeepsText
<1>3. TextWell => TextKept BY TextWellIsKept
<1> QED BY <1>1, <1>2, <1>3, PTL DEF Spec

-----------------------------------------------------------------------------
(***************************************************************************)
(* The tiles.                                                              *)
(***************************************************************************)
Standing == {"uploading", "done", "stuck", "removed"}
Rides(i) == \E k \in calls : k.op = "send" /\ i \in riding[k.n]
Out(i) == Rides(i) \/ \E d \in Chan : <<i, d>> \in posted
Back(i) == i \in tray \/ \E d \in Chan : i \in stash[d] /\ (d # active \/ Selecting)
TilesTyped ==
  /\ origin \in Seq(Chan) /\ upload \in Seq(Standing) /\ Len(upload) = Len(origin)
  /\ tray \in SUBSET DOMAIN origin /\ stash \in [Chan -> SUBSET DOMAIN origin]
  /\ \A n \in DOMAIN riding : riding[n] \subseteq DOMAIN origin /\ \E k \in calls : k.op = "send" /\ k.n = n
  /\ \A k \in calls : k.op = "send" => k.n \in DOMAIN riding
  /\ posted \in SUBSET ((DOMAIN origin) \X Chan) /\ rash \in BOOLEAN
TilesHome ==
  /\ alias # NoChan => alias = active /\ stash[active] = tray
  /\ \A i \in tray : origin[i] = active
  /\ \A d \in Chan : \A i \in stash[d] : origin[i] = d
  /\ \A i \in DOMAIN origin, d \in Chan : <<i, d>> \in posted => origin[i] = d
  /\ \A k \in calls : k.op = "send" => \A i \in riding[k.n] : origin[i] = k.chan
TilesThere ==
  /\ \A i \in DOMAIN origin : i \in tray \/ i \in stash[origin[i]] \/ Out(i) \/ upload[i] = "removed" \/ i \in gone
  /\ ~Selecting => \A i \in stash[active] : i \in tray \/ Out(i) \/ upload[i] = "removed" \/ i \in gone
  /\ Selecting => tray \subseteq stash[active]
  /\ \A k \in calls : k.op = "send" /\ k.served = "yes" => \A i \in riding[k.n] : <<i, k.chan>> \in posted
TilesAgain ==
  /\ \A i \in DOMAIN origin : Out(i) /\ Back(i) => i \in again
  /\ \A k \in calls : k.op = "send" /\ k.served = "failed" => riding[k.n] \subseteq again
TilesWell == TilesTyped /\ (~hasty /\ ~rash => TilesHome /\ TilesThere /\ TilesAgain)

LEMMA RidesStay ==
  ASSUME Keeps(calls, calls'), UNCHANGED riding, NEW i
  PROVE  Rides(i)' = Rides(i)
<1>1. ASSUME Rides(i) PROVE Rides(i)'
  <2>1. PICK k \in calls : k.op = "send" /\ i \in riding[k.n] BY <1>1 DEF Rides
  <2>2. PICK m \in calls' : SameCall(k, m) BY <2>1 DEF Keeps, Lasts
  <2> QED BY <2>1, <2>2 DEF Rides, SameCall
<1>2. ASSUME Rides(i)' PROVE Rides(i)
  <2>1. PICK m \in calls' : m.op = "send" /\ i \in riding[m.n] BY <1>2 DEF Rides
  <2>2. PICK k \in calls : SameCall(k, m) BY <2>1 DEF Keeps, Lasts
  <2> QED BY <2>1, <2>2 DEF Rides, SameCall
<1> QED BY <1>1, <1>2 DEF Rides

LEMMA StillKeepsTiles ==
  ASSUME TilesWell, Keeps(calls, calls'), UNCHANGED <<tiles, marks, active>>, hasty => hasty'
  PROVE  TilesWell'
<1>1. UNCHANGED <<tray, stash, alias, upload, riding, origin, posted, gone, again, rash>> BY DEF tiles, marks
<1>2. ASSUME NEW m \in calls', m.op = "send"
      PROVE  \E k \in calls : k.op = "send" /\ m.n = k.n /\ m.chan = k.chan /\ m.served = k.served
  BY <1>2 DEF Keeps, Lasts, SameCall
<1>3. ASSUME NEW k \in calls, k.op = "send"
      PROVE  \E m \in calls' : m.op = "send" /\ m.n = k.n
  BY <1>3 DEF Keeps, Lasts, SameCall
<1>4. TilesTyped'
  <2>1. (\A n \in DOMAIN riding : riding[n] \subseteq DOMAIN origin /\ \E k \in calls : k.op = "send" /\ k.n = n)'
    BY <1>1, <1>3 DEF TilesTyped, TilesWell
  <2>2. (\A k \in calls : k.op = "send" => k.n \in DOMAIN riding)' BY <1>1, <1>2 DEF TilesTyped, TilesWell
  <2> QED BY <1>1, <2>1, <2>2 DEF TilesTyped, TilesWell
<1> SUFFICES ASSUME ~hasty', ~rash' PROVE (TilesHome /\ TilesThere /\ TilesAgain)' BY <1>4 DEF TilesWell
<1>5. TilesHome /\ TilesThere /\ TilesAgain BY <1>1 DEF TilesWell
<1>6. Selecting' = Selecting BY SelectingStays
<1>7. \A i : Out(i)' = Out(i) BY <1>1, RidesStay DEF Out
<1>8. \A i : Back(i)' = Back(i) BY <1>1, <1>6 DEF Back
<1>9. TilesHome' BY <1>1, <1>2, <1>5 DEF TilesHome
<1>10. TilesThere'
  <2>1. (\A k \in calls : k.op = "send" /\ k.served = "yes" => \A i \in riding[k.n] : <<i, k.chan>> \in posted)'
    BY <1>1, <1>2, <1>5 DEF TilesThere
  <2> QED BY <1>1, <1>5, <1>6, <1>7, <2>1 DEF TilesThere
<1>11. TilesAgain'
  <2>1. (\A k \in calls : k.op = "send" /\ k.served = "failed" => riding[k.n] \subseteq again)'
    BY <1>1, <1>2, <1>5 DEF TilesAgain
  <2> QED BY <1>1, <1>5, <1>7, <1>8, <2>1 DEF TilesAgain
<1> QED BY <1>9, <1>10, <1>11

\* The pane's own steps leave the calls that matter here alone.
LEMMA PaneStepKeeps ==
  ASSUME TextTyped, PaneStep
  PROVE  Keeps(calls, calls') /\ UNCHANGED active /\ (hasty => hasty')
<1>0. Base BY DEF TextTyped
<1>1. CASE LoadOlderMessages \/ LoadNewerMessages BY <1>0, <1>1, AskingKeeps DEF StillText
<1>2. CASE Type
  <2>1. UNCHANGED <<calls, active>> /\ hasty' = (hasty \/ Selecting) BY <1>2 DEF Type, pane
  <2> QED BY <1>0, <2>1, KeepsAll DEF Base
<1>3. ASSUME NEW k \in calls, ServeList(k) PROVE Keeps(calls, calls') /\ StillText
  BY <1>0, <1>3, ServingKeeps
<1>4. ASSUME NEW k \in calls, AnswerAround(k) \/ AnswerOlder(k) \/ AnswerNewer(k) PROVE Keeps(calls, calls') /\ StillText
  <2>1. ~k.select BY <1>0, <1>4 DEF AnswerAround, AnswerOlder, AnswerNewer, TextTyped
  <2> QED BY <1>0, <1>4, <2>1, LandingKeeps
<1>5. ASSUME NEW c \in Chan, Post(c) PROVE Keeps(calls, calls') /\ StillText BY <1>0, <1>5, PostKeeps
<1>6. ASSUME NEW i \in Id, NEW ver \in {Edited, Deleted}, Change(i, ver) PROVE Keeps(calls, calls') /\ StillText
  BY <1>0, <1>6, ChangeKeeps
<1>7. ASSUME NEW near \in BOOLEAN, Take(near) PROVE Keeps(calls, calls') /\ StillText BY <1>0, <1>7, TakingKeeps
<1>8. ASSUME NEW near \in BOOLEAN, Drop \/ Sleep \/ Connect \/ Resync(near) PROVE Keeps(calls, calls') /\ StillText
  BY <1>0, <1>8, SocketKeeps
<1> QED BY <1>1, <1>2, <1>3, <1>4, <1>5, <1>6, <1>7, <1>8 DEF PaneStep, StillText

-----------------------------------------------------------------------------
(* The tray. *)
LEMMA StageKeepsTiles == ASSUME TextTyped, TilesWell, UploadAndInsert PROVE TilesWell'
<1> DEFINE i == Len(upload) + 1
<1>0. TilesTyped /\ active \in Chan BY DEF TilesWell, TextTyped, Base
<1>1. /\ upload' = Append(upload, "uploading") /\ origin' = Append(origin, active)
      /\ tray' = tray \cup {i} /\ stash' = (IF alias = NoChan THEN stash ELSE [stash EXCEPT ![alias] = tray \cup {i}])
      /\ rash' = (rash \/ Selecting)
      /\ UNCHANGED <<active, calls, hasty, alias, riding, posted, gone, again>>
  BY DEF UploadAndInsert, TrayIs, paneVars, pane, ghosts
<1>a. Len(origin) \in Nat /\ i = Len(origin) + 1 /\ Len(upload) = Len(origin) /\ origin \in Seq(Chan) /\ upload \in Seq(Standing)
  BY <1>0 DEF TilesTyped
<1>2. Len(origin) \in Nat /\ i = Len(origin) + 1 /\ DOMAIN origin = 1..Len(origin) /\ DOMAIN origin' = 1..i
      /\ DOMAIN origin' = DOMAIN origin \cup {i} /\ i \notin DOMAIN origin
      /\ origin'[i] = active /\ upload'[i] = "uploading"
      /\ (\A j \in DOMAIN origin : origin'[j] = origin[j] /\ upload'[j] = upload[j])
  <2>1. i = Len(origin) + 1 /\ DOMAIN origin = 1..Len(origin) /\ DOMAIN upload = 1..Len(origin) BY <1>a
  <2>2. DOMAIN origin' = 1..i /\ origin'[i] = active /\ (\A j \in DOMAIN origin : origin'[j] = origin[j])
    BY <1>0, <1>1, <1>a
  <2>3. upload'[i] = "uploading" /\ (\A j \in DOMAIN upload : upload'[j] = upload[j]) BY <1>1, <1>a
  <2>4. 1..i = 1..Len(origin) \cup {i} /\ i \notin 1..Len(origin) BY <1>a
  <2> QED BY <1>a, <2>1, <2>2, <2>3, <2>4
<1>3. /\ origin' \in Seq(Chan) /\ upload' \in Seq(Standing) /\ Len(upload') = Len(origin')
  <2>1. origin' \in Seq(Chan) /\ Len(origin') = Len(origin) + 1 BY <1>0, <1>1, <1>a
  <2>2. upload' \in Seq(Standing) /\ Len(upload') = Len(upload) + 1
    <3>1. "uploading" \in Standing BY DEF Standing
    <3> QED BY <1>1, <1>a, <3>1
  <2> QED BY <1>a, <2>1, <2>2
<1> HIDE DEF i
<1>4. TilesTyped'
  <2>1. tray' \in SUBSET DOMAIN origin' BY <1>0, <1>1, <1>2 DEF TilesTyped
  <2>2. stash' \in [Chan -> SUBSET DOMAIN origin']
    <3>1. \A c \in Chan : stash[c] \subseteq DOMAIN origin' BY <1>0, <1>2 DEF TilesTyped
    <3>2. tray \cup {i} \subseteq DOMAIN origin' BY <1>1, <2>1
    <3> QED BY <1>0, <1>1, <3>1, <3>2 DEF TilesTyped
  <2>3. (\A n \in DOMAIN riding : riding[n] \subseteq DOMAIN origin /\ \E k \in calls : k.op = "send" /\ k.n = n)'
    BY <1>0, <1>1, <1>2 DEF TilesTyped
  <2>4. posted' \in SUBSET ((DOMAIN origin') \X Chan) BY <1>0, <1>1, <1>2 DEF TilesTyped
  <2>5. rash' \in BOOLEAN BY <1>0, <1>1 DEF TilesTyped, Selecting
  <2> QED BY <1>0, <1>1, <1>3, <2>1, <2>2, <2>3, <2>4, <2>5 DEF TilesTyped
<1> SUFFICES ASSUME ~hasty', ~rash' PROVE (TilesHome /\ TilesThere /\ TilesAgain)' BY <1>4 DEF TilesWell
<1>5. ~hasty /\ ~rash /\ ~Selecting BY <1>0, <1>1 DEF TilesTyped, Selecting
<1>6. TilesHome /\ TilesThere /\ TilesAgain BY <1>5 DEF TilesWell
<1>7. \A j \in DOMAIN origin : Out(j)' = Out(j) BY <1>1 DEF Out, Rides
<1>8. ~Out(i)
  <2>1. ~Rides(i) BY <1>0, <1>2 DEF Rides, TilesTyped
  <2>2. \A d \in Chan : <<i, d>> \notin posted BY <1>0, <1>2 DEF TilesTyped
  <2> QED BY <2>1, <2>2 DEF Out
<1>9. Selecting' = FALSE BY <1>1, <1>5 DEF Selecting
<1>10. /\ stash \in [Chan -> SUBSET DOMAIN origin]
       /\ \A d \in Chan : stash'[d] = stash[d] \/ (d = active /\ stash'[d] = tray' /\ stash[d] = tray)
  BY <1>0, <1>1, <1>6 DEF TilesTyped, TilesHome
<1>11. TilesHome'
  <2>1. (alias # NoChan => alias = active /\ stash[active] = tray)' BY <1>0, <1>1, <1>6, <1>10 DEF TilesHome
  <2>2. \A j \in tray' : origin'[j] = active BY <1>0, <1>1, <1>2, <1>6 DEF TilesTyped, TilesHome
  <2>3. \A d \in Chan : \A j \in stash'[d] : origin'[j] = d BY <1>2, <1>6, <1>10, <2>2 DEF TilesHome
  <2>4. (\A j \in DOMAIN origin, d \in Chan : <<j, d>> \in posted => origin[j] = d)'
    BY <1>0, <1>1, <1>2, <1>6 DEF TilesTyped, TilesHome
  <2>5. (\A k \in calls : k.op = "send" => \A j \in riding[k.n] : origin[j] = k.chan)'
    BY <1>0, <1>1, <1>2, <1>6 DEF TilesTyped, TilesHome
  <2> QED BY <1>1, <2>1, <2>2, <2>3, <2>4, <2>5 DEF TilesHome
<1>12. TilesThere'
  <2>1. ASSUME NEW j \in DOMAIN origin'
        PROVE  (j \in tray \/ j \in stash[origin[j]] \/ Out(j) \/ upload[j] = "removed" \/ j \in gone)'
    <3>1. CASE j = i BY <1>1, <3>1
    <3>2. CASE j # i
      <4>1. j \in DOMAIN origin /\ origin[j] \in Chan BY <1>0, <1>2, <3>2 DEF TilesTyped
      <4> QED BY <1>1, <1>2, <1>6, <1>7, <1>10, <4>1 DEF TilesThere
    <3> QED BY <3>1, <3>2
  <2>2. ASSUME NEW j \in stash'[active]
        PROVE  (j \in tray \/ Out(j) \/ upload[j] = "removed" \/ j \in gone)'
    <3>1. CASE j \in stash[active]
      <4>1. j \in DOMAIN origin BY <1>0, <1>10, <3>1
      <4> QED BY <1>1, <1>2, <1>5, <1>6, <1>7, <3>1, <4>1 DEF TilesThere
    <3>2. CASE j \notin stash[active] BY <1>0, <1>10, <3>2
    <3> QED BY <3>1, <3>2
  <2>3. (\A k \in calls : k.op = "send" /\ k.served = "yes" => \A j \in riding[k.n] : <<j, k.chan>> \in posted)'
    BY <1>1, <1>6 DEF TilesThere
  <2> QED BY <1>1, <1>9, <2>1, <2>2, <2>3 DEF TilesThere
<1>13. TilesAgain'
  <2>1. ASSUME NEW j \in DOMAIN origin', Out(j)', Back(j)' PROVE j \in again'
    <3>1. j # i BY <1>1, <1>8, <2>1 DEF Out, Rides, i
    <3>2. j \in DOMAIN origin /\ Out(j) BY <1>2, <1>7, <2>1, <3>1
    <3>3. Back(j) BY <1>1, <1>9, <1>10, <2>1, <3>1 DEF Back
    <3> QED BY <1>1, <1>6, <3>2, <3>3 DEF TilesAgain
  <2>2. (\A k \in calls : k.op = "send" /\ k.served = "failed" => riding[k.n] \subseteq again)'
    BY <1>1, <1>6 DEF TilesAgain
  <2> QED BY <2>1, <2>2 DEF TilesAgain
<1> QED BY <1>11, <1>12, <1>13

\* A tile is done, or is not in the tray any more and was removed or is stuck.
LEMMA TileKeepsTiles ==
  ASSUME TextTyped, TilesWell, NEW i \in DOMAIN upload, UploadDone(i) \/ UploadFails(i) \/ RemoveTile(i) PROVE TilesWell'
<1>0. TilesTyped /\ active \in Chan BY DEF TilesWell, TextTyped, Base
<1>1. /\ UNCHANGED <<active, calls, hasty, alias, riding, origin, posted, gone, again, rash>>
      /\ \E v \in Standing : upload' = [upload EXCEPT ![i] = v] /\ (i \in tray \ tray' => v = "removed")
      /\ upload[i] \in {"uploading", "done"}
      /\ \/ UNCHANGED <<tray, stash>>
         \/ tray' = tray \ {i} /\ stash' = IF alias = NoChan THEN stash ELSE [stash EXCEPT ![alias] = tray \ {i}]
  BY DEF UploadDone, UploadFails, RemoveTile, TrayIs, paneVars, pane, ghosts, marks, Standing
<1>2. PICK v \in Standing : upload' = [upload EXCEPT ![i] = v] /\ (i \in tray \ tray' => v = "removed") BY <1>1
<1>3. /\ upload' \in Seq(Standing) /\ Len(upload') = Len(upload) /\ upload'[i] = v
      /\ \A j \in DOMAIN upload : j # i => upload'[j] = upload[j]
  BY <1>0, <1>2 DEF TilesTyped
<1>a. DOMAIN upload = DOMAIN origin BY <1>0 DEF TilesTyped
<1>4. \A j \in DOMAIN origin : upload[j] = "removed" => upload'[j] = "removed" BY <1>1, <1>3, <1>a
<1>5. TilesTyped'
  <2>1. stash' \in [Chan -> SUBSET DOMAIN origin]
    <3>1. tray \ {i} \in SUBSET DOMAIN origin BY <1>0 DEF TilesTyped
    <3> QED BY <1>0, <1>1, <3>1 DEF TilesTyped
  <2>2. tray' \in SUBSET DOMAIN origin BY <1>0, <1>1 DEF TilesTyped
  <2> QED BY <1>0, <1>1, <1>3, <2>1, <2>2 DEF TilesTyped
<1> SUFFICES ASSUME ~hasty', ~rash' PROVE (TilesHome /\ TilesThere /\ TilesAgain)' BY <1>5 DEF TilesWell
<1>6. TilesHome /\ TilesThere /\ TilesAgain BY <1>1 DEF TilesWell
<1>7. \A j : Out(j)' = Out(j) BY <1>1 DEF Out, Rides
<1>8. Selecting' = Selecting BY <1>1 DEF Selecting
<1>9. /\ stash \in [Chan -> SUBSET DOMAIN origin] /\ tray' \subseteq tray
      /\ \A d \in Chan : stash'[d] = stash[d] \/ (d = active /\ alias = active /\ stash'[d] = tray' /\ stash[d] = tray)
      /\ \A j \in tray : j \in tray' \/ upload'[j] = "removed"
  <2>1. \A j \in tray : j \in tray' \/ (j = i /\ j \in tray \ tray') BY <1>1
  <2> QED BY <1>0, <1>1, <1>2, <1>3, <1>6, <2>1 DEF TilesTyped, TilesHome
<1>10. TilesHome'
  <2>1. (alias # NoChan => alias = active /\ stash[active] = tray)'
    <3>1. CASE UNCHANGED <<tray, stash>> BY <1>1, <1>6, <3>1 DEF TilesHome
    <3>2. CASE tray' = tray \ {i} /\ stash' = IF alias = NoChan THEN stash ELSE [stash EXCEPT ![alias] = tray \ {i}]
      BY <1>0, <1>1, <1>6, <1>9, <3>2 DEF TilesHome
    <3> QED BY <1>1, <3>1, <3>2
  <2> QED BY <1>1, <1>6, <1>9, <2>1 DEF TilesHome
<1>11. TilesThere'
  <2>1. ASSUME NEW j \in DOMAIN origin
        PROVE  (j \in tray \/ j \in stash[origin[j]] \/ Out(j) \/ upload[j] = "removed" \/ j \in gone)'
    <3>1. origin[j] \in Chan BY <1>0 DEF TilesTyped
    <3> QED BY <1>1, <1>4, <1>6, <1>7, <1>9, <3>1 DEF TilesThere
  <2>2. ASSUME ~Selecting, active \in Chan, NEW j \in stash'[active]
        PROVE  (j \in tray \/ Out(j) \/ upload[j] = "removed" \/ j \in gone)'
    <3>1. stash'[active] \subseteq stash[active] BY <1>9, <2>2
    <3>2. j \in DOMAIN origin /\ j \in stash[active] BY <1>9, <2>2, <3>1
    <3> QED BY <1>1, <1>4, <1>6, <1>7, <1>9, <2>2, <3>2 DEF TilesThere
  <2>3. (\A k \in calls : k.op = "send" /\ k.served = "yes" => \A j \in riding[k.n] : <<j, k.chan>> \in posted)'
    BY <1>1, <1>6 DEF TilesThere
  <2>4. (Selecting => tray \subseteq stash[active])' BY <1>0, <1>1, <1>6, <1>8, <1>9 DEF TilesThere
  <2> QED BY <1>0, <1>1, <1>6, <1>8, <1>9, <2>1, <2>2, <2>3, <2>4 DEF TilesThere
<1>12. TilesAgain'
  <2>1. \A j : Back(j)' => Back(j) BY <1>1, <1>8, <1>9 DEF Back
  <2> QED BY <1>1, <1>6, <1>7, <2>1 DEF TilesAgain
<1> QED BY <1>10, <1>11, <1>12

\* A call that is neither a send nor waits for one is asked for.
LEMMA SelectTilesCalls ==
  ASSUME Base, NEW c \in Chan, SelectChannel(c)
  PROVE  \E k : /\ calls' = calls \cup {k} /\ k.op = "load" /\ k.select = TRUE
<1>1. PICK a : a = Asked(calls, "load", c, 0) OBVIOUS
<1>2. NewCall(a, calls, "load", c, 0) BY <1>1, AskedIs DEF Base, Good, CallOp
<1>3. PICK k : k = [a EXCEPT !.select = TRUE] OBVIOUS
<1>4. k = [n |-> a.n, op |-> a.op, chan |-> a.chan, at |-> a.at, text |-> a.text, temp |-> a.temp, select |-> TRUE,
           served |-> a.served, page |-> a.page, stale |-> a.stale]
  BY <1>2, <1>3 DEF NewCall, CallTyped, CallShape
<1>5. k.op = "load" /\ k.select = TRUE BY <1>2, <1>4 DEF NewCall
<1>6. calls' = calls \cup {k} BY <1>1, <1>3 DEF SelectChannel, LoadChannel
<1> QED BY <1>5, <1>6

LEMMA SelectKeepsTiles == ASSUME TextTyped, TilesWell, NEW c \in Chan, SelectAndStash(c) PROVE TilesWell'
<1>0. TilesTyped /\ active \in Chan /\ hasty \in BOOLEAN BY DEF TilesWell, TextTyped, Base
<1>1. PICK k : calls' = calls \cup {k} /\ k.op = "load" /\ k.select = TRUE
  BY SelectTilesCalls DEF SelectAndStash, TextTyped
<1>2. /\ active' = c /\ hasty' = (hasty \/ Selecting \/ (c = active /\ composer # 0))
      /\ UNCHANGED <<upload, riding, origin, posted, gone>>
  BY DEF SelectAndStash, SelectChannel
<1>3. /\ c # active => /\ stash' = [stash EXCEPT ![active] = tray] /\ tray' = {} /\ alias' = NoChan
                       /\ UNCHANGED <<rash, again>>
      /\ c = active => /\ rash' = (rash \/ (tray # {} /\ alias # c)) /\ again' = again \cup stash[c]
                       /\ UNCHANGED <<tray, stash, alias>>
  BY DEF SelectAndStash, Stash
<1>4. TilesTyped'
  <2>1. tray' \in SUBSET DOMAIN origin /\ stash' \in [Chan -> SUBSET DOMAIN origin] /\ rash' \in BOOLEAN
    BY <1>0, <1>3 DEF TilesTyped
  <2> QED BY <1>0, <1>1, <1>2, <2>1 DEF TilesTyped
<1> SUFFICES ASSUME ~hasty', ~rash' PROVE (TilesHome /\ TilesThere /\ TilesAgain)' BY <1>4 DEF TilesWell
<1>5. ~hasty /\ ~rash /\ ~Selecting
  <2>1. ~hasty /\ ~Selecting BY <1>0, <1>2 DEF Selecting
  <2>2. rash \in BOOLEAN BY <1>0 DEF TilesTyped
  <2>3. rash => rash' BY <1>3, <2>2
  <2> QED BY <2>1, <2>2, <2>3
<1>6. TilesHome /\ TilesThere /\ TilesAgain BY <1>5 DEF TilesWell
<1>7. \A j : Out(j)' = Out(j) BY <1>1, <1>2 DEF Out, Rides
<1>8. Selecting' BY <1>1 DEF Selecting
<1>9. stash \in [Chan -> SUBSET DOMAIN origin] BY <1>0 DEF TilesTyped
<1>a. (\A j \in calls : j.op = "send" /\ j.served = "yes" => \A i \in riding[j.n] : <<i, j.chan>> \in posted)'
  BY <1>1, <1>2, <1>6 DEF TilesThere
<1>b. (\A j \in calls : j.op = "send" => \A i \in riding[j.n] : origin[i] = j.chan)'
  BY <1>1, <1>2, <1>6 DEF TilesHome
<1>c. again \subseteq again' BY <1>3
<1>d. (\A j \in calls : j.op = "send" /\ j.served = "failed" => riding[j.n] \subseteq again)'
  BY <1>1, <1>2, <1>6, <1>c DEF TilesAgain
<1>10. CASE c # active
  <2>1. \A d \in Chan : d # active => stash'[d] = stash[d] BY <1>3, <1>9, <1>10
  <2>2. stash'[active] = tray BY <1>0, <1>3, <1>9, <1>10
  <2>3. tray' = {} /\ alias' = NoChan BY <1>3, <1>10
  <2>4. \A d \in Chan : \A i \in stash'[d] : origin[i] = d BY <1>6, <2>1, <2>2 DEF TilesHome
  <2>5. TilesHome' BY <1>2, <1>6, <1>b, <2>3, <2>4 DEF TilesHome
  <2>6. ASSUME NEW i \in DOMAIN origin
        PROVE (i \in tray \/ i \in stash[origin[i]] \/ Out(i) \/ upload[i] = "removed" \/ i \in gone)'
    <3>1. origin[i] \in Chan BY <1>0 DEF TilesTyped
    <3>2. CASE origin[i] = active
      <4>1. i \in tray \/ Out(i) \/ upload[i] = "removed" \/ i \in gone BY <1>5, <1>6, <3>2 DEF TilesThere
      <4> QED BY <1>2, <1>7, <2>2, <3>2, <4>1
    <3>3. CASE origin[i] # active
      <4>1. i \notin tray BY <1>6, <3>3 DEF TilesHome
      <4> QED BY <1>2, <1>6, <1>7, <2>1, <3>1, <3>3, <4>1 DEF TilesThere
    <3> QED BY <3>2, <3>3
  <2>7. TilesThere' BY <1>2, <1>8, <1>a, <2>3, <2>6 DEF TilesThere
  <2>8. \A i : Back(i)' => Back(i) BY <1>0, <2>1, <2>2, <2>3 DEF Back
  <2>9. TilesAgain' BY <1>2, <1>6, <1>7, <1>c, <1>d, <2>8 DEF TilesAgain
  <2> QED BY <2>5, <2>7, <2>9
<1>11. CASE c = active
  <2>1. UNCHANGED <<tray, stash, alias, active>> /\ again' = again \cup stash[active] BY <1>2, <1>3, <1>11
  <2>2. tray \subseteq stash[active]
    <3>1. tray = {} \/ alias = active BY <1>3, <1>11
    <3>2. active # NoChan BY <1>0, NoChanAssumption
    <3> QED BY <1>6, <3>1, <3>2 DEF TilesHome
  <2>3. TilesHome' BY <1>2, <1>6, <1>b, <2>1 DEF TilesHome
  <2>4. TilesThere' BY <1>2, <1>6, <1>7, <1>8, <1>a, <2>1, <2>2 DEF TilesThere
  <2>5. \A i : Back(i)' => Back(i) \/ i \in stash[active] BY <2>1 DEF Back
  <2>6. TilesAgain' BY <1>2, <1>6, <1>7, <1>d, <2>1, <2>5 DEF TilesAgain
  <2> QED BY <2>3, <2>4, <2>6
<1> QED BY <1>10, <1>11

LEMMA JumpKeepsTiles == ASSUME TextTyped, TilesWell, NEW m, JumpWithTray(m) PROVE TilesWell'
<1>0. TilesTyped /\ Base /\ active \in Chan /\ hasty \in BOOLEAN BY DEF TilesWell, TextTyped, Base
<1>1. /\ active' = log[m].chan /\ m \in DOMAIN log
      /\ calls' = calls \cup {Asked(calls, "around", log[m].chan, m)}
      /\ hasty' = (hasty \/ (log[m].chan # active /\ (composer # 0 \/ drafts[log[m].chan] # 0 \/ Selecting)))
  BY DEF JumpWithTray, JumpToMessage
<1>2. active' \in Chan BY <1>0, <1>1, LogRows DEF Base
<1>3. Keeps(calls, calls') BY <1>0, <1>1, <1>2, MoreKeeps DEF Base, CallOp
<1>4. hasty => hasty' BY <1>1
<1>5. /\ rash' = (rash \/ (active' # active /\ (tray # {} \/ alias # NoChan \/ stash[active'] # {} \/ Selecting)))
      /\ again' = IF active' # active THEN again \cup stash[active] ELSE again
      /\ UNCHANGED <<tray, stash, alias, upload, riding, origin, posted, gone>>
  BY DEF JumpWithTray, tiles
<1>6. CASE active' = active
  <2>1. rash' = rash BY <1>0, <1>5, <1>6 DEF TilesTyped
  <2> QED BY <1>3, <1>4, <1>5, <1>6, <2>1, StillKeepsTiles DEF tiles, marks
<1>7. CASE active' # active
  <2>1. ASSUME NEW j \in calls', j.op = "send"
        PROVE  \E k \in calls : k.op = "send" /\ j.n = k.n /\ j.chan = k.chan /\ j.served = k.served
    BY <1>3, <2>1 DEF Keeps, Lasts, SameCall
  <2>2. ASSUME NEW k \in calls, k.op = "send" PROVE \E j \in calls' : j.op = "send" /\ j.n = k.n
    BY <1>3, <2>2 DEF Keeps, Lasts, SameCall
  <2>3. TilesTyped'
    <3>1. (\A n \in DOMAIN riding : riding[n] \subseteq DOMAIN origin /\ \E k \in calls : k.op = "send" /\ k.n = n)'
      BY <1>0, <1>5, <2>2 DEF TilesTyped
    <3>2. (\A k \in calls : k.op = "send" => k.n \in DOMAIN riding)' BY <1>0, <1>5, <2>1 DEF TilesTyped
    <3>3. rash' \in BOOLEAN BY <1>0, <1>5 DEF TilesTyped, Selecting
    <3> QED BY <1>0, <1>5, <3>1, <3>2, <3>3 DEF TilesTyped
  <2> SUFFICES ASSUME ~hasty', ~rash' PROVE (TilesHome /\ TilesThere /\ TilesAgain)' BY <2>3 DEF TilesWell
  <2>4. ~hasty /\ ~rash /\ tray = {} /\ alias = NoChan /\ stash[active'] = {} /\ ~Selecting
    BY <1>0, <1>4, <1>5, <1>7 DEF TilesTyped, Selecting
  <2>5. TilesHome /\ TilesThere /\ TilesAgain BY <2>4 DEF TilesWell
  <2>6. Selecting' = Selecting BY <1>3, SelectingStays
  <2>7. \A i : Out(i)' = Out(i) BY <1>3, <1>5, RidesStay DEF Out
  <2>8. TilesHome' BY <1>5, <2>1, <2>4, <2>5 DEF TilesHome
  <2>9. TilesThere'
    <3>1. (\A k \in calls : k.op = "send" /\ k.served = "yes" => \A i \in riding[k.n] : <<i, k.chan>> \in posted)'
      BY <1>5, <2>1, <2>5 DEF TilesThere
    <3> QED BY <1>5, <2>4, <2>5, <2>6, <2>7, <3>1 DEF TilesThere
  <2>10. TilesAgain'
    <3>1. \A i : Back(i)' => Back(i) \/ i \in stash[active] BY <1>0, <1>5, <2>4, <2>6 DEF Back
    <3>2. (\A k \in calls : k.op = "send" /\ k.served = "failed" => riding[k.n] \subseteq again)'
      BY <1>5, <2>1, <2>5 DEF TilesAgain
    <3> QED BY <1>5, <1>7, <2>5, <2>7, <3>1, <3>2 DEF TilesAgain
  <2> QED BY <2>8, <2>9, <2>10
<1> QED BY <1>6, <1>7

LEMMA UnstashKeepsTiles == ASSUME TextWell, TilesWell, NEW k \in calls, LoadAndUnstash(k) PROVE TilesWell'
<1>0. TilesTyped /\ Base /\ active \in Chan BY DEF TilesWell, TextWell, TextTyped, Base
<1>1. /\ k.op = "load" /\ calls' = calls \ {k} /\ UNCHANGED <<active, hasty>>
      /\ UNCHANGED <<upload, riding, origin, posted, gone, again, rash, stash>>
  BY DEF LoadAndUnstash, AnswerLoad, marks, Unstash
<1>2. /\ k.select => tray' = stash[k.chan] /\ alias' = IF stash[k.chan] # {} \/ alias = k.chan THEN k.chan ELSE NoChan
      /\ ~k.select => UNCHANGED <<tray, alias>>
  BY DEF LoadAndUnstash, Unstash
<1>3. CallTyped(k) BY <1>0 DEF Base, Good, CallsTyped
<1>4. CASE ~k.select
  <2>1. Keeps(calls, calls') BY <1>0, <1>1, <1>4, LessKeeps DEF Base, Lasts
  <2> QED BY <1>1, <1>2, <1>4, <2>1, StillKeepsTiles DEF tiles, marks
<1>5. CASE k.select
  <2>1. TilesTyped'
    <3>1. tray' \in SUBSET DOMAIN origin BY <1>0, <1>2, <1>3, <1>5 DEF TilesTyped, CallTyped
    <3> QED BY <1>0, <1>1, <3>1 DEF TilesTyped
  <2> SUFFICES ASSUME ~hasty', ~rash' PROVE (TilesHome /\ TilesThere /\ TilesAgain)' BY <2>1 DEF TilesWell
  <2>2. TilesHome /\ TilesThere /\ TilesAgain /\ TextHome BY <1>1 DEF TilesWell, TextWell
  <2>3. k.chan = active BY <1>5, <2>2 DEF TextHome
  <2>4. tray' = stash[active] /\ alias' \in {active, NoChan} BY <1>2, <1>5, <2>3
  <2>5. Selecting BY <1>5 DEF Selecting
  <2>6. tray \subseteq tray' BY <2>2, <2>4, <2>5 DEF TilesThere
  <2>7. \A i : Out(i)' = Out(i) BY <1>1 DEF Out, Rides
  <2>8. TilesHome' BY <1>0, <1>1, <2>2, <2>4 DEF TilesHome
  <2>9. TilesThere' BY <1>1, <2>2, <2>4, <2>6, <2>7 DEF TilesThere
  <2>10. \A i : Back(i)' => Back(i) BY <1>0, <1>1, <2>4, <2>5 DEF Back
  <2>11. TilesAgain' BY <1>1, <2>2, <2>7, <2>10 DEF TilesAgain
  <2> QED BY <2>8, <2>9, <2>11
<1> QED BY <1>4, <1>5

-----------------------------------------------------------------------------
(* The sends. *)
LEMMA SendTilesCalls ==
  ASSUME Base, Enter
  PROVE  \E k : /\ calls' = calls \cup {k} /\ k.op = "send" /\ k.chan = active /\ k.served = "no" /\ k.select = FALSE
                /\ k.n = Asked(calls, "send", active, 0).n /\ \A j \in calls : j.n # k.n
<1>1. PICK temp : calls' = calls \cup {[Asked(calls, "send", active, 0) EXCEPT !.text = composer, !.temp = temp]}
  BY DEF Enter
<1>2. PICK a : a = Asked(calls, "send", active, 0) OBVIOUS
<1>3. NewCall(a, calls, "send", active, 0) BY <1>2, AskedIs DEF Base, Good, CallOp
<1>4. PICK k : k = [a EXCEPT !.text = composer, !.temp = temp] OBVIOUS
<1>5. k = [n |-> a.n, op |-> a.op, chan |-> a.chan, at |-> a.at, text |-> composer, temp |-> temp, select |-> a.select,
           served |-> a.served, page |-> a.page, stale |-> a.stale]
  BY <1>3, <1>4 DEF NewCall, CallTyped, CallShape
<1>6. k.op = "send" /\ k.chan = active /\ k.served = "no" /\ k.select = FALSE /\ k.n = a.n /\ \A j \in calls : j.n # k.n
  BY <1>3, <1>5 DEF NewCall
<1>7. calls' = calls \cup {k} BY <1>1, <1>2, <1>4
<1> QED BY <1>2, <1>6, <1>7

LEMMA EnterKeepsTiles == ASSUME TextTyped, TilesWell, SendWithTiles PROVE TilesWell'
<1>0. TilesTyped /\ Base /\ active \in Chan /\ hasty \in BOOLEAN BY DEF TilesWell, TextTyped, Base
<1>1. PICK k : /\ calls' = calls \cup {k} /\ k.op = "send" /\ k.chan = active /\ k.served = "no" /\ k.select = FALSE
               /\ k.n = Asked(calls, "send", active, 0).n /\ \A j \in calls : j.n # k.n
  BY <1>0, SendTilesCalls DEF SendWithTiles
<1>2. /\ riding' = [m \in DOMAIN riding \cup {k.n} |-> IF m = k.n THEN tray ELSE riding[m]]
      /\ tray' = {} /\ alias' = NoChan
      /\ UNCHANGED <<stash, upload, origin, posted, gone, again, rash>>
  BY <1>1 DEF SendWithTiles, marks
<1>3. active' = active /\ hasty' = (hasty \/ Selecting) BY DEF SendWithTiles, Enter
<1>4. DOMAIN riding' = DOMAIN riding \cup {k.n} /\ riding'[k.n] = tray
      /\ \A n \in DOMAIN riding : n # k.n => riding'[n] = riding[n]
  BY <1>2
<1>5. \A j \in calls : j.op = "send" => j.n \in DOMAIN riding /\ riding'[j.n] = riding[j.n]
  BY <1>0, <1>1, <1>4 DEF TilesTyped
<1>6. TilesTyped'
  <2>1. (\A n \in DOMAIN riding : riding[n] \subseteq DOMAIN origin /\ \E j \in calls : j.op = "send" /\ j.n = n)'
    <3> SUFFICES ASSUME NEW n \in DOMAIN riding'
                 PROVE  riding'[n] \subseteq DOMAIN origin /\ \E j \in calls' : j.op = "send" /\ j.n = n
      BY <1>2
    <3>1. CASE n = k.n BY <1>0, <1>1, <1>4, <3>1 DEF TilesTyped
    <3>2. CASE n # k.n BY <1>0, <1>1, <1>4, <3>2 DEF TilesTyped
    <3> QED BY <3>1, <3>2
  <2>2. (\A j \in calls : j.op = "send" => j.n \in DOMAIN riding)' BY <1>1, <1>4, <1>5
  <2> QED BY <1>0, <1>2, <2>1, <2>2 DEF TilesTyped
<1> SUFFICES ASSUME ~hasty', ~rash' PROVE (TilesHome /\ TilesThere /\ TilesAgain)' BY <1>6 DEF TilesWell
<1>7. ~hasty /\ ~rash /\ ~Selecting BY <1>0, <1>2, <1>3 DEF Selecting
<1>8. TilesHome /\ TilesThere /\ TilesAgain BY <1>7 DEF TilesWell
<1>9. ~Selecting' BY <1>1, <1>7 DEF Selecting
<1>10. \A i : Rides(i)' = (Rides(i) \/ i \in tray) BY <1>1, <1>4, <1>5 DEF Rides
<1>11. \A i : Out(i)' = (Out(i) \/ i \in tray) BY <1>2, <1>10 DEF Out
<1>12. TilesHome'
  <2>1. (\A j \in calls : j.op = "send" => \A i \in riding[j.n] : origin[i] = j.chan)'
    BY <1>1, <1>2, <1>4, <1>5, <1>8 DEF TilesHome
  <2> QED BY <1>2, <1>8, <2>1 DEF TilesHome
<1>13. TilesThere'
  <2>1. (\A j \in calls : j.op = "send" /\ j.served = "yes" => \A i \in riding[j.n] : <<i, j.chan>> \in posted)'
    BY <1>1, <1>2, <1>5, <1>8 DEF TilesThere
  <2> QED BY <1>2, <1>3, <1>7, <1>8, <1>9, <1>11, <2>1 DEF TilesThere
<1>14. TilesAgain'
  <2>1. ASSUME NEW i \in DOMAIN origin, Out(i)', Back(i)' PROVE i \in again
    <3>1. PICK d \in Chan : i \in stash[d] /\ d # active BY <1>2, <1>3, <1>9, <2>1 DEF Back
    <3>2. i \notin tray BY <1>8, <3>1 DEF TilesHome
    <3>3. Out(i) /\ Back(i) BY <1>11, <2>1, <3>1, <3>2 DEF Back
    <3> QED BY <1>8, <3>3 DEF TilesAgain
  <2>2. (\A j \in calls : j.op = "send" /\ j.served = "failed" => riding[j.n] \subseteq again)'
    BY <1>1, <1>2, <1>5, <1>8 DEF TilesAgain
  <2> QED BY <1>2, <2>1, <2>2 DEF TilesAgain
<1> QED BY <1>12, <1>13, <1>14

LEMMA ServeKeepsTiles == ASSUME TextTyped, TilesWell, NEW k \in calls, ServeWithTiles(k) PROVE TilesWell'
<1>0. TilesTyped /\ Base /\ active \in Chan BY DEF TilesWell, TextTyped, Base
<1>a. k.op = "send" BY DEF ServeWithTiles, ServeSend
<1>b. Len(home) \in Nat /\ k.text \in 1..Len(home) BY <1>a DEF TextTyped
<1>c. k.text \in Nat BY <1>b
<1>d. CallTyped(k) BY <1>0 DEF Base, Good, CallsTyped
<1>1. PICK K, m : /\ CallTyped(m) /\ SameCall(k, m) /\ m.served = "yes" /\ k.op = "send" /\ k.served = "no"
                  /\ K = (calls \ {k}) \cup {m} /\ Good(K) /\ Keeps(K, calls')
                  /\ UNCHANGED <<active, hasty>>
  BY <1>0, <1>c, ServeSendIs DEF ServeWithTiles
<1>2. posted' = posted \cup (riding[k.n] \X {k.chan})
      /\ UNCHANGED <<tray, stash, alias, upload, riding, origin, gone, again, rash>>
  BY DEF ServeWithTiles, tiles
<1>3. ASSUME NEW j \in calls', Lasts(j)
      PROVE  \E l \in calls : SameCall(l, j) /\ (j.op = "send" => j.served = l.served \/ (l = k /\ j.served = "yes"))
  <2>1. PICK x \in K : SameCall(x, j) /\ (j.op = "send" => j.served = x.served) BY <1>1, <1>3 DEF Keeps
  <2>2. CASE x = m BY <1>1, <2>1, <2>2 DEF SameCall
  <2>3. CASE x # m BY <1>1, <2>1, <2>3
  <2> QED BY <2>2, <2>3
<1>4. ASSUME NEW l \in calls, Lasts(l) PROVE \E j \in calls' : SameCall(l, j)
  <2>1. PICK x \in K : SameCall(l, x) BY <1>1 DEF SameCall
  <2>2. Lasts(x) BY <1>4, <2>1 DEF Lasts, SameCall
  <2>3. PICK j \in calls' : SameCall(x, j) BY <1>1, <2>2 DEF Keeps
  <2> QED BY <2>1, <2>3 DEF SameCall
<1>e. riding[k.n] \subseteq DOMAIN origin /\ k.chan \in Chan BY <1>0, <1>a, <1>d DEF TilesTyped, CallTyped
<1>5. TilesTyped'
  <2>1. (\A n \in DOMAIN riding : riding[n] \subseteq DOMAIN origin /\ \E j \in calls : j.op = "send" /\ j.n = n)'
    BY <1>0, <1>2, <1>4 DEF TilesTyped, Lasts, SameCall
  <2>2. (\A j \in calls : j.op = "send" => j.n \in DOMAIN riding)'
    BY <1>0, <1>2, <1>3 DEF TilesTyped, Lasts, SameCall
  <2>3. posted' \in SUBSET ((DOMAIN origin) \X Chan) BY <1>0, <1>2, <1>e DEF TilesTyped
  <2> QED BY <1>0, <1>2, <2>1, <2>2, <2>3 DEF TilesTyped
<1> SUFFICES ASSUME ~hasty', ~rash' PROVE (TilesHome /\ TilesThere /\ TilesAgain)' BY <1>5 DEF TilesWell
<1>6. TilesHome /\ TilesThere /\ TilesAgain BY <1>1, <1>2 DEF TilesWell
<1>7. Selecting' = Selecting
  <2>1. Selecting => Selecting' BY <1>4 DEF Selecting, SameCall, Lasts
  <2>2. Selecting' => Selecting BY <1>3 DEF Selecting, SameCall, Lasts
  <2> QED BY <2>1, <2>2 DEF Selecting
<1>8. \A i : Rides(i)' = Rides(i)
  <2>1. \A i : Rides(i) => Rides(i)'
    <3> SUFFICES ASSUME NEW i, Rides(i) PROVE Rides(i)' OBVIOUS
    <3>1. PICK l \in calls : l.op = "send" /\ i \in riding[l.n] BY DEF Rides
    <3>2. PICK j \in calls' : SameCall(l, j) BY <1>4, <3>1 DEF Lasts
    <3> QED BY <1>2, <3>1, <3>2 DEF Rides, SameCall
  <2>2. \A i : Rides(i)' => Rides(i)
    <3> SUFFICES ASSUME NEW i, Rides(i)' PROVE Rides(i) OBVIOUS
    <3>1. PICK j \in calls' : j.op = "send" /\ i \in riding'[j.n] BY DEF Rides
    <3>2. PICK l \in calls : SameCall(l, j) BY <1>3, <3>1 DEF Lasts
    <3> QED BY <1>2, <3>1, <3>2 DEF Rides, SameCall
  <2> QED BY <2>1, <2>2 DEF Rides
<1>9. \A i : Out(i)' = Out(i)
  <2>1. \A i : i \in riding[k.n] => Rides(i) BY <1>a DEF Rides
  <2>2. \A i, d : <<i, d>> \in posted' => <<i, d>> \in posted \/ i \in riding[k.n] BY <1>2
  <2>3. \A i : Out(i) => Out(i)' BY <1>2, <1>8 DEF Out
  <2>4. \A i : Out(i)' => Out(i) BY <1>8, <2>1, <2>2 DEF Out
  <2> QED BY <2>3, <2>4 DEF Out
<1>10. TilesHome'
  <2>1. (\A j \in calls : j.op = "send" => \A i \in riding[j.n] : origin[i] = j.chan)'
    BY <1>2, <1>3, <1>6 DEF TilesHome, SameCall, Lasts
  <2>2. \A i \in DOMAIN origin, d \in Chan : <<i, d>> \in posted' => origin[i] = d
    <3>1. \A i \in riding[k.n] : origin[i] = k.chan BY <1>6, <1>a DEF TilesHome
    <3> QED BY <1>2, <1>6, <3>1 DEF TilesHome
  <2> QED BY <1>1, <1>2, <1>6, <2>1, <2>2 DEF TilesHome
<1>11. TilesThere'
  <2>1. \A j \in calls' : j.op = "send" /\ j.served = "yes" => \A i \in riding[j.n] : <<i, j.chan>> \in posted'
    <3> SUFFICES ASSUME NEW j \in calls', j.op = "send", j.served = "yes", NEW i \in riding[j.n]
                 PROVE <<i, j.chan>> \in posted' OBVIOUS
    <3>1. PICK l \in calls : SameCall(l, j) /\ (j.served = l.served \/ (l = k /\ j.served = "yes")) BY <1>3 DEF Lasts
    <3>2. CASE l = k BY <1>2, <3>1, <3>2 DEF SameCall
    <3>3. CASE l # k BY <1>2, <1>6, <3>1, <3>3 DEF SameCall, TilesThere
    <3> QED BY <3>2, <3>3
  <2> QED BY <1>1, <1>2, <1>6, <1>7, <1>9, <2>1 DEF TilesThere
<1>12. TilesAgain'
  <2>1. \A i : Back(i)' = Back(i) BY <1>1, <1>2, <1>7 DEF Back
  <2>2. \A j \in calls' : j.op = "send" /\ j.served = "failed" => riding[j.n] \subseteq again
    BY <1>3, <1>6 DEF TilesAgain, SameCall, Lasts
  <2> QED BY <1>2, <1>6, <1>9, <2>1, <2>2 DEF TilesAgain
<1> QED BY <1>10, <1>11, <1>12

LEMMA FailKeepsTiles == ASSUME TextTyped, TilesWell, NEW k \in calls, FailWithTiles(k) PROVE TilesWell'
<1>0. TilesTyped /\ Base BY DEF TilesWell, TextTyped
<1>1. PICK m : m = [k EXCEPT !.served = "failed"] OBVIOUS
<1>2. calls' = (calls \ {k}) \cup {m} /\ UNCHANGED <<active, hasty>>
  BY <1>1 DEF FailWithTiles, Fail, ghosts
<1>3. CallTyped(k) BY <1>0 DEF Base, Good, CallsTyped
<1>4. CallTyped(m) /\ SameCall(k, m) /\ m.served = "failed" BY <1>1, <1>3, ServedIs
<1>5. again' = (IF k.op = "send" THEN again \cup riding[k.n] ELSE again)
      /\ UNCHANGED <<tray, stash, alias, upload, riding, origin, posted, gone, rash>>
  BY DEF FailWithTiles, tiles
<1>6. TilesTyped'
  <2>1. (\A n \in DOMAIN riding : riding[n] \subseteq DOMAIN origin /\ \E j \in calls : j.op = "send" /\ j.n = n)'
    BY <1>0, <1>2, <1>4, <1>5 DEF TilesTyped, SameCall
  <2>2. (\A j \in calls : j.op = "send" => j.n \in DOMAIN riding)'
    BY <1>0, <1>2, <1>4, <1>5 DEF TilesTyped, SameCall
  <2> QED BY <1>0, <1>5, <2>1, <2>2 DEF TilesTyped
<1> SUFFICES ASSUME ~hasty', ~rash' PROVE (TilesHome /\ TilesThere /\ TilesAgain)' BY <1>6 DEF TilesWell
<1>7. TilesHome /\ TilesThere /\ TilesAgain BY <1>2, <1>5 DEF TilesWell
<1>8. Selecting' = Selecting BY <1>2, <1>4 DEF Selecting, SameCall
<1>9. \A i : Rides(i)' = Rides(i) BY <1>2, <1>4, <1>5 DEF Rides, SameCall
<1>10. \A i : Out(i)' = Out(i) /\ Back(i)' = Back(i) BY <1>2, <1>5, <1>8, <1>9 DEF Out, Back
<1>11. TilesHome' BY <1>2, <1>4, <1>5, <1>7 DEF TilesHome, SameCall
<1>12. TilesThere'
  <2>1. (\A j \in calls : j.op = "send" /\ j.served = "yes" => \A i \in riding[j.n] : <<i, j.chan>> \in posted)'
    BY <1>2, <1>4, <1>5, <1>7 DEF TilesThere
  <2> QED BY <1>2, <1>5, <1>7, <1>8, <1>10, <2>1 DEF TilesThere
<1>13. TilesAgain'
  <2>1. (\A j \in calls : j.op = "send" /\ j.served = "failed" => riding[j.n] \subseteq again)'
    BY <1>2, <1>4, <1>5, <1>7 DEF TilesAgain, SameCall
  <2> QED BY <1>5, <1>7, <1>10, <2>1 DEF TilesAgain
<1> QED BY <1>11, <1>12, <1>13

LEMMA AnswerKeepsTiles == ASSUME TextTyped, TilesWell, NEW k \in calls, AnswerWithTiles(k) PROVE TilesWell'
<1>0. TilesTyped /\ Base /\ hasty \in BOOLEAN BY DEF TilesWell, TextTyped
<1>a. k.op = "send" /\ k.served \in {"yes", "failed"} BY DEF AnswerWithTiles, AnswerSend
<1>b. PICK S : S = riding[k.n] OBVIOUS
<1>c. S \subseteq DOMAIN origin /\ k.n \in DOMAIN riding BY <1>0, <1>a, <1>b DEF TilesTyped
<1>d. ~k.select BY <1>a DEF TextTyped
<1>1. /\ riding' = [m \in DOMAIN riding \ {k.n} |-> riding[m]]
      /\ IF k.served = "failed" /\ k.chan = active
           THEN tray' = S /\ alias' = NoChan /\ rash' = (rash \/ tray # {}) /\ gone' = gone
           ELSE UNCHANGED <<tray, alias>> /\ rash' = rash /\ gone' = IF k.served = "failed" THEN gone \cup S ELSE gone
      /\ UNCHANGED <<stash, upload, origin, posted, again, active>>
  <2>1. rash \in BOOLEAN BY <1>0 DEF TilesTyped
  <2> QED BY <1>b, <2>1 DEF AnswerWithTiles, AnswerSend
<1>2. PICK K : K = calls \ {k} OBVIOUS
<1>3. Good(K) BY <1>0, <1>2, LessIs DEF Base
<1>4. Keeps(K, calls') /\ (hasty => hasty')
      /\ (k.served = "failed" /\ k.chan = active /\ ~hasty' => ~Selecting)
  <2>1. CASE k.served = "yes"
    <3>1. calls' = Overtaken(K, {Frame("new", k.chan, k.at, Posted)}) /\ hasty' = hasty
      BY <1>2, <2>1 DEF AnswerWithTiles, AnswerSend, Sent
    <3> QED BY <1>3, <2>1, <3>1, OvertakenKeeps
  <2>2. CASE k.served = "failed"
    <3>1. Unsent(k) BY <2>2 DEF AnswerWithTiles, AnswerSend
    <3>2. calls' = K /\ (k.chan = active => hasty' = (hasty \/ composer # 0 \/ Selecting))
          /\ (k.chan # active => hasty' = (hasty \/ drafts[k.chan] \notin {0, k.text}))
      BY <1>2, <3>1 DEF Unsent
    <3>3. Keeps(K, calls') BY <1>3, <3>2, KeepsAll
    <3>4. hasty => hasty' BY <3>2
    <3> QED BY <3>2, <3>3, <3>4 DEF Selecting
  <2> QED BY <1>a, <2>1, <2>2
<1>5. ASSUME NEW j \in calls', Lasts(j)
      PROVE  \E l \in calls : SameCall(l, j) /\ (j.op = "send" => j.served = l.served) /\ l.n # k.n /\ l # k
  <2>1. PICK l \in K : SameCall(l, j) /\ (j.op = "send" => j.served = l.served) BY <1>4, <1>5 DEF Keeps
  <2>2. l.n # k.n BY <1>0, <1>2, <2>1 DEF Base, Good, Differ
  <2> QED BY <1>2, <2>1, <2>2
<1>6. ASSUME NEW l \in calls, Lasts(l), l # k PROVE \E j \in calls' : SameCall(l, j)
  BY <1>2, <1>4, <1>6 DEF Keeps
<1>7. DOMAIN riding' = DOMAIN riding \ {k.n} /\ \A n \in DOMAIN riding' : riding'[n] = riding[n] BY <1>1
<1>8. TilesTyped'
  <2>1. (\A n \in DOMAIN riding : riding[n] \subseteq DOMAIN origin /\ \E j \in calls : j.op = "send" /\ j.n = n)'
    <3> SUFFICES ASSUME NEW n \in DOMAIN riding'
                 PROVE  riding[n] \subseteq DOMAIN origin /\ \E j \in calls' : j.op = "send" /\ j.n = n
      BY <1>1, <1>7
    <3>1. n \in DOMAIN riding /\ n # k.n BY <1>7
    <3>2. PICK l \in calls : l.op = "send" /\ l.n = n BY <1>0, <3>1 DEF TilesTyped
    <3>3. PICK j \in calls' : SameCall(l, j) BY <1>6, <3>1, <3>2 DEF Lasts
    <3> QED BY <1>0, <3>1, <3>2, <3>3 DEF TilesTyped, SameCall
  <2>2. (\A j \in calls : j.op = "send" => j.n \in DOMAIN riding)'
    <3> SUFFICES ASSUME NEW j \in calls', j.op = "send" PROVE j.n \in DOMAIN riding' OBVIOUS
    <3>1. PICK l \in calls : SameCall(l, j) /\ l.n # k.n BY <1>5 DEF Lasts
    <3> QED BY <1>0, <1>7, <3>1 DEF TilesTyped, SameCall
  <2>3. rash' \in BOOLEAN BY <1>0, <1>1 DEF TilesTyped
  <2>4. tray' \in SUBSET DOMAIN origin BY <1>0, <1>1, <1>c DEF TilesTyped
  <2> QED BY <1>0, <1>1, <2>1, <2>2, <2>3, <2>4 DEF TilesTyped
<1> SUFFICES ASSUME ~hasty', ~rash' PROVE (TilesHome /\ TilesThere /\ TilesAgain)' BY <1>8 DEF TilesWell
<1>9. ~hasty /\ ~rash BY <1>0, <1>1, <1>4 DEF TilesTyped
<1>10. TilesHome /\ TilesThere /\ TilesAgain BY <1>9 DEF TilesWell
<1>11. Selecting' = Selecting
  <2>1. Selecting => Selecting' BY <1>6, <1>d DEF Selecting, SameCall, Lasts
  <2>2. Selecting' => Selecting BY <1>5 DEF Selecting, SameCall, Lasts
  <2> QED BY <2>1, <2>2 DEF Selecting
<1>12. \A j \in calls' : j.op = "send" => \E l \in calls : SameCall(l, j) /\ j.served = l.served /\ l.op = "send"
                                            /\ riding'[j.n] = riding[l.n]
  <2> SUFFICES ASSUME NEW j \in calls', j.op = "send"
               PROVE \E l \in calls : SameCall(l, j) /\ j.served = l.served /\ l.op = "send" /\ riding'[j.n] = riding[l.n]
    OBVIOUS
  <2>1. PICK l \in calls : SameCall(l, j) /\ j.served = l.served /\ l.n # k.n BY <1>5 DEF Lasts
  <2>2. j.n \in DOMAIN riding' BY <1>8 DEF TilesTyped
  <2> QED BY <1>7, <2>1, <2>2 DEF SameCall
<1>13. \A i : Rides(i)' => Rides(i)
  <2> SUFFICES ASSUME NEW i, Rides(i)' PROVE Rides(i) OBVIOUS
  <2>1. PICK j \in calls' : j.op = "send" /\ i \in riding'[j.n] BY DEF Rides
  <2> QED BY <1>12, <2>1 DEF Rides
<1>14. \A i : Rides(i) => Rides(i)' \/ i \in S
  <2> SUFFICES ASSUME NEW i, Rides(i), i \notin S PROVE Rides(i)' OBVIOUS
  <2>1. PICK l \in calls : l.op = "send" /\ i \in riding[l.n] BY DEF Rides
  <2>2. l # k BY <1>b, <2>1
  <2>3. PICK j \in calls' : SameCall(l, j) BY <1>6, <2>1, <2>2 DEF Lasts
  <2>4. j.op = "send" /\ j.n = l.n BY <2>1, <2>3 DEF SameCall
  <2>5. j.n \in DOMAIN riding' BY <1>8, <2>4 DEF TilesTyped
  <2> QED BY <1>7, <2>1, <2>4, <2>5 DEF Rides
<1>15. \A i : Out(i)' => Out(i) BY <1>1, <1>13 DEF Out
<1>16. \A i : Out(i) => Out(i)' \/ i \in S BY <1>1, <1>14 DEF Out
<1>17. \A i \in S : origin[i] = k.chan BY <1>10, <1>a, <1>b DEF TilesHome
<1>18. (\A j \in calls : j.op = "send" => \A i \in riding[j.n] : origin[i] = j.chan)'
  BY <1>1, <1>10, <1>12 DEF TilesHome, SameCall
<1>19. (\A j \in calls : j.op = "send" /\ j.served = "yes" => \A i \in riding[j.n] : <<i, j.chan>> \in posted)'
  <2> SUFFICES ASSUME NEW j \in calls', j.op = "send", j.served = "yes", NEW i \in riding'[j.n]
               PROVE <<i, j.chan>> \in posted BY <1>1
  <2>1. PICK l \in calls : SameCall(l, j) /\ j.served = l.served /\ l.op = "send" /\ riding'[j.n] = riding[l.n] BY <1>12
  <2> QED BY <1>10, <2>1 DEF TilesThere, SameCall
<1>20. (\A j \in calls : j.op = "send" /\ j.served = "failed" => riding[j.n] \subseteq again)'
  <2> SUFFICES ASSUME NEW j \in calls', j.op = "send", j.served = "failed" PROVE riding'[j.n] \subseteq again BY <1>1
  <2>1. PICK l \in calls : SameCall(l, j) /\ j.served = l.served /\ l.op = "send" /\ riding'[j.n] = riding[l.n] BY <1>12
  <2> QED BY <1>10, <2>1 DEF TilesAgain
<1>21. CASE k.served = "yes"
  <2>1. UNCHANGED <<tray, alias, gone>> BY <1>1, <1>21
  <2>2. \A i \in S : Out(i)'
    <3>0. k.chan \in Chan BY <1>0 DEF Base, Good, CallsTyped, CallTyped
    <3>1. \A i \in S : <<i, k.chan>> \in posted BY <1>10, <1>21, <1>a, <1>b DEF TilesThere
    <3> QED BY <1>1, <3>0, <3>1 DEF Out
  <2>3. \A i : Out(i)' = Out(i)
    <3>1. \A i : Out(i) => Out(i)' BY <1>16, <2>2
    <3> QED BY <1>15, <3>1 DEF Out
  <2>4. \A i : Back(i)' = Back(i) BY <1>1, <1>11, <2>1 DEF Back
  <2>5. TilesHome' BY <1>1, <1>10, <1>18, <2>1 DEF TilesHome
  <2>6. TilesThere' BY <1>1, <1>10, <1>11, <1>19, <2>1, <2>3 DEF TilesThere
  <2>7. TilesAgain' BY <1>1, <1>10, <1>20, <2>3, <2>4 DEF TilesAgain
  <2> QED BY <2>5, <2>6, <2>7
<1>22. CASE k.served = "failed" /\ k.chan = active
  <2>1. tray = {} /\ tray' = S /\ alias' = NoChan /\ gone' = gone /\ ~Selecting BY <1>1, <1>4, <1>22
  <2>2. TilesHome' BY <1>1, <1>10, <1>17, <1>18, <1>22, <2>1 DEF TilesHome
  <2>3. TilesThere' BY <1>1, <1>10, <1>11, <1>16, <1>19, <2>1 DEF TilesThere
  <2>4. S \subseteq again BY <1>10, <1>22, <1>a, <1>b DEF TilesAgain
  <2>5. \A i : Back(i)' => Back(i) \/ i \in S BY <1>1, <1>11, <2>1 DEF Back
  <2>6. TilesAgain' BY <1>1, <1>10, <1>15, <1>20, <2>4, <2>5 DEF TilesAgain
  <2> QED BY <2>2, <2>3, <2>6
<1>23. CASE k.served = "failed" /\ k.chan # active
  <2>1. UNCHANGED <<tray, alias>> /\ gone' = gone \cup S BY <1>1, <1>23
  <2>2. TilesHome' BY <1>1, <1>10, <1>18, <2>1 DEF TilesHome
  <2>3. TilesThere' BY <1>1, <1>10, <1>11, <1>16, <1>19, <2>1 DEF TilesThere
  <2>4. \A i : Back(i)' = Back(i) BY <1>1, <1>11, <2>1 DEF Back
  <2>5. TilesAgain' BY <1>1, <1>10, <1>15, <1>20, <2>4 DEF TilesAgain
  <2> QED BY <2>2, <2>3, <2>5
<1> QED BY <1>a, <1>21, <1>22, <1>23

-----------------------------------------------------------------------------
LEMMA ComposerStepKeepsTiles == ASSUME TextWell, TilesWell, ComposerStep PROVE TilesWell'
<1>0. TextTyped BY DEF TextWell
<1>1. CASE PaneStep /\ UNCHANGED <<tiles, marks>> BY <1>0, <1>1, PaneStepKeeps, StillKeepsTiles
<1>2. CASE UploadAndInsert BY <1>0, <1>2, StageKeepsTiles
<1>3. CASE SendWithTiles BY <1>0, <1>3, EnterKeepsTiles
<1>4. ASSUME NEW i \in DOMAIN upload, UploadDone(i) \/ UploadFails(i) \/ RemoveTile(i) PROVE TilesWell'
  BY <1>0, <1>4, TileKeepsTiles
<1>5. ASSUME NEW c \in Chan, SelectAndStash(c) PROVE TilesWell' BY <1>0, <1>5, SelectKeepsTiles
<1>6. ASSUME NEW i \in Id, JumpWithTray(i) PROVE TilesWell' BY <1>0, <1>6, JumpKeepsTiles
<1>7. ASSUME NEW k \in calls, LoadAndUnstash(k) \/ ServeWithTiles(k) \/ FailWithTiles(k) \/ AnswerWithTiles(k)
      PROVE  TilesWell'
  BY <1>0, <1>7, UnstashKeepsTiles, ServeKeepsTiles, FailKeepsTiles, AnswerKeepsTiles
<1> QED BY <1>1, <1>2, <1>3, <1>4, <1>5, <1>6, <1>7 DEF ComposerStep

LEMMA NextKeepsTiles == ASSUME TextWell, TilesWell, [Next]_vars PROVE TilesWell'
<1>0. Base BY DEF TextWell, TextTyped
<1>1. CASE ComposerStep BY <1>1, ComposerStepKeepsTiles
<1>2. CASE UNCHANGED <<calls, active, hasty, tiles, marks>>
  <2>1. Keeps(calls, calls') BY <1>0, <1>2, KeepsAll DEF Base
  <2> QED BY <1>2, <2>1, StillKeepsTiles
<1>3. ASSUME NEW i \in Id, PickHit(i) PROVE TilesWell' BY <1>3, JumpKeepsTiles DEF PickHit, TextWell
<1>4. ASSUME NEW x, FailSearch(x) PROVE UNCHANGED <<calls, active, hasty, tiles, marks>>
  BY <1>4 DEF FailSearch, pane, ghosts
<1>5. UNCHANGED composerVars => UNCHANGED <<calls, active, hasty, tiles, marks>>
  BY DEF composerVars, paneVars, pane, ghosts
<1> QED BY <1>1, <1>2, <1>3, <1>4, <1>5
        DEF Next, OpenSearch, CloseSearch, Debounced, RunNow, More, OnInput, ServeSearch, Land, vars

LEMMA InitTiles == ASSUME Init PROVE TilesWell
<1>1. ComposerInit /\ PaneInit BY DEF Init, ComposerInit
<1>2. \A k \in calls : k.op # "send" /\ ~k.select
  <2>1. CallsTyped({}) BY FS_EmptySet DEF CallsTyped
  <2>2. PICK k : k = Asked({}, "load", First, 0) OBVIOUS
  <2>3. NewCall(k, {}, "load", First, 0) BY <2>1, <2>2, AskedIs, ChanAssumption DEF CallOp
  <2>4. calls = {} \/ calls = {k} BY <1>1, <2>2 DEF PaneInit
  <2> QED BY <2>3, <2>4 DEF NewCall
<1>3. /\ tray = {} /\ stash = [c \in Chan |-> {}] /\ alias = NoChan /\ upload = <<>> /\ riding = <<>>
      /\ origin = <<>> /\ posted = {} /\ gone = {} /\ again = {} /\ rash = FALSE
  BY <1>1 DEF ComposerInit
<1>4. TilesTyped
  <2>1. origin \in Seq(Chan) /\ upload \in Seq(Standing) /\ Len(upload) = Len(origin) BY <1>3
  <2>2. DOMAIN riding = {} BY <1>3
  <2>3. stash \in [Chan -> SUBSET DOMAIN origin] BY <1>3
  <2> QED BY <1>2, <1>3, <2>1, <2>2, <2>3 DEF TilesTyped
<1>5. ~Selecting BY <1>2 DEF Selecting
<1>6. \A c \in Chan : stash[c] = {} BY <1>3
<1>a. active = First /\ First \in Chan BY <1>1, ChanAssumption DEF PaneInit
<1>7. TilesHome BY <1>2, <1>3, <1>6 DEF TilesHome
<1>8. TilesThere
  <2>1. DOMAIN origin = {} BY <1>3
  <2>2. stash[active] = {} BY <1>6, <1>a
  <2> QED BY <1>2, <1>5, <2>1, <2>2 DEF TilesThere
<1>9. TilesAgain
  <2>1. DOMAIN origin = {} BY <1>3
  <2> QED BY <1>2, <2>1 DEF TilesAgain
<1> QED BY <1>4, <1>7, <1>8, <1>9 DEF TilesWell

LEMMA TilesWellIsKept == ASSUME TilesWell, ~hasty, ~rash PROVE TilesKept
<1>1. TilesTyped /\ TilesHome /\ TilesThere /\ TilesAgain BY DEF TilesWell
<1> SUFFICES ASSUME NEW i \in DOMAIN origin
             PROVE  LET c == origin[i]
                    IN  /\ upload[i] # "removed" /\ i \notin gone =>
                             i \in tray \cup stash[c] \cup UNION {riding[n] : n \in DOMAIN riding} \/ <<i, c>> \in posted
                        /\ i \in tray => active = c
                        /\ i \in tray /\ <<i, c>> \in posted => i \in again
                        /\ \A d \in Chan \ {c} : i \notin stash[d] /\ <<i, d>> \notin posted
  BY DEF TilesKept
<1>2. origin[i] \in Chan BY <1>1 DEF TilesTyped
<1>3. Rides(i) => i \in UNION {riding[n] : n \in DOMAIN riding} BY <1>1 DEF Rides, TilesTyped
<1>4. Out(i) => Rides(i) \/ <<i, origin[i]>> \in posted BY <1>1 DEF Out, TilesHome
<1>5. upload[i] # "removed" /\ i \notin gone => i \in tray \/ i \in stash[origin[i]] \/ Out(i) BY <1>1 DEF TilesThere
<1>6. i \in tray /\ <<i, origin[i]>> \in posted => i \in again
  <2>1. i \in tray => Back(i) BY DEF Back
  <2>2. <<i, origin[i]>> \in posted => Out(i) BY <1>2 DEF Out
  <2> QED BY <1>1, <2>1, <2>2 DEF TilesAgain
<1>7. i \in tray => active = origin[i] BY <1>1 DEF TilesHome
<1>8. \A d \in Chan \ {origin[i]} : i \notin stash[d] /\ <<i, d>> \notin posted BY <1>1 DEF TilesHome
<1> QED BY <1>3, <1>4, <1>5, <1>6, <1>7, <1>8

\* So are the tiles: staged, put aside, on their way or posted, in the channel they
\* were staged in, and not sent twice (attachments.js, selectChannel, the failed send).
THEOREM DraftsAreKept == Spec => []DraftKept
<1>1. Init => TextWell /\ TilesWell BY InitText, InitTiles
<1>2. TextWell /\ TilesWell /\ [Next]_vars => TextWell' /\ TilesWell' BY NextStep, StepKeepsText, NextKeepsTiles
<1>3. TextWell /\ TilesWell => DraftKept BY TextWellIsKept, TilesWellIsKept DEF DraftKept
<1> QED BY <1>1, <1>2, <1>3, PTL DEF Spec

-----------------------------------------------------------------------------
(***************************************************************************)
(* What a page of hits is.                                                 *)
(***************************************************************************)
LEMMA GreatestNat ==
  ASSUME NEW n \in Nat, NEW T \in SUBSET (0..n), T # {}
  PROVE  \E x \in T : \A y \in T : y <= x
<1> DEFINE U == {n - x : x \in T}
<1>1. U \in SUBSET Nat /\ U # {}
  <2>1. \A x \in T : x \in 0..n OBVIOUS
  <2>2. \A x \in T : n - x \in Nat BY <2>1
  <2> QED BY <2>2
<1>2. PICK u \in U : \A v \in U : u <= v
  <2> HIDE DEF U
  <2> QED BY <1>1, LeastNat
<1>3. PICK x \in T : u = n - x BY <1>2
<1>4. ASSUME NEW y \in T PROVE y <= x
  <2>1. n - y \in U /\ x \in 0..n /\ y \in 0..n OBVIOUS
  <2>2. n - x <= n - y BY <1>2, <1>3, <2>1
  <2> QED BY <2>1, <2>2
<1> QED BY <1>3, <1>4

Desc(h) == \A p, q \in DOMAIN h : p < q => h[p] > h[q]
Orders(f, n, T) == f \in [1..n -> T] /\ Desc(f)

\* A finite set of numbers has a descending order ...
LEMMA AnOrder ==
  ASSUME NEW n \in Nat
  PROVE  \A T \in SUBSET Nat : IsFiniteSet(T) /\ Cardinality(T) = n => \E f : Orders(f, n, T)
<1> DEFINE P(m) == \A T \in SUBSET Nat : IsFiniteSet(T) /\ Cardinality(T) = m => \E f : Orders(f, m, T)
           Bad == {m \in Nat : ~P(m)}
<1>1. SUFFICES Bad = {} OBVIOUS
<1>2. SUFFICES ASSUME Bad # {} PROVE FALSE OBVIOUS
<1>3. PICK m \in Bad : \A k \in Bad : m <= k
  <2>1. Bad \in SUBSET Nat OBVIOUS
  <2> HIDE DEF Bad
  <2> QED BY <1>2, <2>1, LeastNat
<1>4. PICK T \in SUBSET Nat : IsFiniteSet(T) /\ Cardinality(T) = m /\ ~(\E f : Orders(f, m, T)) BY <1>3
<1>5. m \in Nat BY <1>3
<1>6. m # 0
  <2> SUFFICES ASSUME m = 0 PROVE FALSE OBVIOUS
  <2>1. PICK f : f = [i \in 1..0 |-> i] OBVIOUS
  <2>2. DOMAIN f = {} BY <2>1
  <2>3. f \in [1..0 -> T] BY <2>1
  <2>4. Orders(f, 0, T) BY <2>2, <2>3 DEF Orders, Desc
  <2> QED BY <1>4, <2>4
<1>7. T # {} BY <1>4, <1>6, FS_EmptySet
<1>8. PICK x \in T : \A y \in T : x <= y BY <1>7, LeastNat
<1>9. PICK U : U = T \ {x} OBVIOUS
<1>10. IsFiniteSet(U) /\ Cardinality(U) = m - 1 /\ U \in SUBSET Nat BY <1>4, <1>8, <1>9, FS_RemoveElement
<1>11. PICK k : k = m - 1 OBVIOUS
<1>12. k \in Nat /\ k < m /\ m = k + 1 BY <1>5, <1>6, <1>11
<1>13. P(k)
  <2>1. k \notin Bad BY <1>3, <1>5, <1>12
  <2> QED BY <1>12, <2>1
<1>14. PICK g : Orders(g, k, U) BY <1>10, <1>11, <1>13
<1>15. PICK f : f = [p \in 1..m |-> IF p = m THEN x ELSE g[p]] OBVIOUS
<1> HIDE DEF P, Bad
<1>16. \A p \in 1..m : p = m \/ p \in 1..k BY <1>12
<1>17. f \in [1..m -> T]
  <2>1. \A p \in 1..k : g[p] \in T BY <1>9, <1>14 DEF Orders
  <2> QED BY <1>8, <1>15, <1>16, <2>1
<1>18. Desc(f)
  <2> SUFFICES ASSUME NEW p \in 1..m, NEW q \in 1..m, p < q PROVE f[p] > f[q] BY <1>17 DEF Desc
  <2>1. p \in 1..k /\ p # m /\ f[p] = g[p] BY <1>12, <1>15
  <2>2. g[p] \in U /\ DOMAIN g = 1..k BY <1>14, <2>1 DEF Orders
  <2>3. CASE q = m
    <3>1. g[p] \in T /\ g[p] # x /\ x \in Nat /\ g[p] \in Nat BY <1>8, <1>9, <2>2
    <3>2. x <= g[p] BY <1>8, <3>1
    <3> QED BY <1>15, <2>1, <2>3, <3>1, <3>2
  <2>4. CASE q # m
    <3>1. q \in 1..k /\ f[q] = g[q] BY <1>15, <1>16, <2>4
    <3> QED BY <1>14, <2>1, <2>2, <3>1 DEF Orders, Desc
  <2> QED BY <2>3, <2>4
<1> QED BY <1>4, <1>17, <1>18 DEF Orders

\* ... and it has all of it.
LEMMA DescendingIs ==
  ASSUME NEW T \in SUBSET Nat, IsFiniteSet(T)
  PROVE  /\ Descending(T) \in Seq(Nat) /\ Desc(Descending(T)) /\ Range(Descending(T)) = T
         /\ Len(Descending(T)) = Cardinality(T)
<1>1. PICK n : n = Cardinality(T) OBVIOUS
<1>2. n \in Nat BY <1>1, FS_CardinalityType
<1>3. PICK g : Orders(g, n, T) BY <1>1, <1>2, AnOrder
<1>4. PICK f : f = Descending(T) OBVIOUS
<1>5. f \in [1..n -> T] /\ Desc(f) BY <1>1, <1>3, <1>4 DEF Descending, Orders, Desc
<1>6. f \in Injection(1..n, T)
  <2>1. ASSUME NEW p \in 1..n, NEW q \in 1..n, f[p] = f[q] PROVE p = q
    <3>1. f[p] \in Nat /\ f[q] \in Nat /\ DOMAIN f = 1..n BY <1>5
    <3>2. ~(f[p] > f[q]) /\ ~(f[q] > f[p]) BY <2>1, <3>1
    <3>3. ~(p < q) /\ ~(q < p) BY <1>5, <3>1, <3>2 DEF Desc
    <3> QED BY <3>3
  <2> QED BY <1>5, <2>1 DEF Injection, IsInjective
<1>7. Cardinality(1..n) = n /\ IsFiniteSet(1..n) BY <1>2, FS_Interval
<1>8. f \in Surjection(1..n, T) BY <1>1, <1>6, <1>7, FS_Injection
<1>9. Range(f) = T BY <1>5, <1>8 DEF Range, Surjection
<1>10. f \in Seq(Nat) /\ Len(f) = n
  <2>1. f \in [1..n -> Nat] BY <1>5
  <2> QED BY <1>2, <2>1
<1> QED BY <1>1, <1>4, <1>5, <1>9, <1>10

\* The newest n of S: all of them, or exactly n.
NewestOf(S, n) == {i \in S : Cardinality({j \in S : j > i}) < n}
LEMMA NewestOfIs ==
  ASSUME NEW N \in Nat, NEW S \in SUBSET (1..N), NEW n \in Nat \ {0}
  PROVE  LET T == NewestOf(S, n)
         IN  /\ T \subseteq S /\ IsFiniteSet(T)
             /\ \A t \in T, i \in S : i > t => i \in T
             /\ Cardinality(T) # n => T = S
<1>1. IsFiniteSet(1..N) BY FS_Interval
<1>2. IsFiniteSet(S) BY <1>1, FS_Subset
<1> DEFINE Above(i) == {j \in S : j > i}
<1>3. \A i : IsFiniteSet(Above(i)) /\ Cardinality(Above(i)) \in Nat
  <2> TAKE i
  <2>1. Above(i) \in SUBSET S OBVIOUS
  <2> QED BY <1>2, <2>1, FS_Subset, FS_CardinalityType
<1>4. PICK T : T = NewestOf(S, n) OBVIOUS
<1>5. T \subseteq S /\ \A i \in S : i \in T <=> Cardinality(Above(i)) < n BY <1>4 DEF NewestOf
<1>6. IsFiniteSet(T) BY <1>2, <1>5, FS_Subset
<1>7. ASSUME NEW t \in T, NEW i \in S, i > t PROVE i \in T
  <2>0. t \in 1..N /\ i \in 1..N /\ \A j \in S : j \in Nat BY <1>5
  <2>1. Above(i) \subseteq Above(t)
    <3>1. \A j \in S : j > i => j > t BY <1>7, <2>0
    <3> QED BY <3>1
  <2>2. Cardinality(Above(i)) <= Cardinality(Above(t)) BY <1>3, <2>1, FS_Subset
  <2>3. Cardinality(Above(t)) < n BY <1>5
  <2> QED BY <1>3, <1>5, <2>2, <2>3
<1>8. ASSUME T # S PROVE Cardinality(T) = n
  <2>1. PICK i \in S \ T : \A j \in S \ T : j <= i
    <3>0. \A j \in S : j \in 0..N OBVIOUS
    <3>1. PICK R : R = S \ T OBVIOUS
    <3>2. R # {} BY <1>5, <1>8, <3>1
    <3>3. R \in SUBSET (0..N) BY <3>0, <3>1
    <3>4. \E i \in R : \A j \in R : j <= i BY <3>2, <3>3, GreatestNat
    <3> QED BY <3>1, <3>4
  <2>2. Above(i) = T
    <3>1. \A j \in S : j > i => j \in T BY <2>1
    <3>2. \A j \in T : j > i
      <4> TAKE j \in T
      <4>1. j \in Nat /\ i \in Nat /\ i # j /\ j \in S BY <1>5, <2>1
      <4>2. ~(i > j) BY <1>7, <2>1
      <4> QED BY <4>1, <4>2
    <3> QED BY <1>5, <3>1, <3>2
  <2>3. Cardinality(T) >= n /\ Cardinality(T) \in Nat
    <3>1. ~(Cardinality(Above(i)) < n) BY <1>5, <2>1
    <3> QED BY <1>3, <2>2, <3>1
  <2>4. T # {} BY <2>3, FS_EmptySet
  <2>5. PICK t \in T : \A y \in T : t <= y
    <3>1. T \in SUBSET Nat BY <1>5
    <3> QED BY <2>4, <3>1, LeastNat
  <2>6. Above(t) = T \ {t}
    <3>1. \A j \in T : j \in Nat /\ t <= j /\ t \in Nat BY <1>5, <2>5
    <3>2. \A j \in T \ {t} : j > t BY <3>1
    <3>3. \A j \in S : j > t => j \in T BY <1>7
    <3>4. ~(t > t) /\ T \subseteq S BY <1>5, <3>1
    <3> QED BY <3>2, <3>3, <3>4
  <2>7. Cardinality(Above(t)) = Cardinality(T) - 1 BY <1>6, <2>6, FS_RemoveElement
  <2>8. Cardinality(Above(t)) < n BY <1>5
  <2> QED BY <2>3, <2>7, <2>8
<1> HIDE DEF Above
<1> QED BY <1>4, <1>5, <1>6, <1>7, <1>8

-----------------------------------------------------------------------------
(***************************************************************************)
(* The search.                                                             *)
(***************************************************************************)
Live(q) == {i \in Matches[q] \cap DOMAIN log : log[i].ver # Deleted}
\* Hits of the query, newest first, none twice.
Found(q, h) == h \in Seq(Nat) /\ Desc(h) /\ Range(h) \subseteq Matches[q] \cap DOMAIN log
FetchShape(x) ==
  x = [seq |-> x.seq, query |-> x.query, before |-> x.before, reset |-> x.reset, served |-> x.served,
       page |-> x.page, log |-> x.log]
FetchTyped(x) ==
  /\ FetchShape(x) /\ x.seq \in Nat /\ x.query \in Query /\ x.before \in Nat /\ x.reset \in BOOLEAN
  /\ x.served \in {"no", "yes", "failed"}
\* A page that was served has what matched and was there, from its end to where it was asked for.
Paged(x) ==
  /\ Found(x.query, x.page) /\ x.log \in Nat /\ x.log <= Len(log) /\ x.before <= x.log
  /\ x.before # 0 => \A p \in DOMAIN x.page : x.page[p] < x.before
  /\ \A i \in Live(x.query) :
       /\ i <= x.log /\ (x.before = 0 \/ i < x.before)
       /\ Len(x.page) = SearchPage => i >= Last(x.page)
       => i \in Range(x.page)
SearchTyped ==
  /\ box \in Query \cup {Blank} /\ debounce \in BOOLEAN /\ failed \in BOOLEAN /\ more \in BOOLEAN
  /\ seq \in Nat /\ cursor \in Nat /\ cursor <= Len(log) /\ since \in Nat /\ since <= Len(log) /\ hits \in Seq(Nat)
  /\ \A x \in fetches : /\ FetchTyped(x) /\ x.seq <= seq /\ x.before <= Len(log)
                        /\ x.served = "yes" => Paged(x)
  /\ \A x, y \in fetches : x.seq = seq /\ y.seq = seq => x = y
\* The list has what answers the box, down to e.
Answers(e) ==
  Found(box, hits) /\ \A i \in Live(box) : i <= since /\ i >= e => i \in Range(hits)
Settled ==
  (\A x \in fetches : x.seq # seq) /\ ~failed =>
    IF box = Blank THEN hits = <<>> /\ more = FALSE
    ELSE /\ Answers(IF more THEN Last(hits) ELSE 0)
         /\ more => hits # <<>> /\ cursor = Last(hits)
Asking ==
  \A x \in fetches : x.seq = seq =>
    /\ x.query = box /\ more = FALSE
    /\ IF x.reset THEN x.before = 0
       ELSE ~failed => hits # <<>> /\ x.before = Last(hits) /\ Answers(Last(hits))
SearchWell == SearchTyped /\ (~debounce => Settled /\ Asking)

\* Messages are only added, and what is deleted stays so.
LogAges ==
  /\ Len(log) \in Nat /\ Len(log') \in Nat /\ Len(log) <= Len(log')
  /\ DOMAIN log = 1..Len(log) /\ DOMAIN log' = 1..Len(log')
  /\ \A i \in DOMAIN log : log[i].ver = Deleted => log'[i].ver = Deleted

LEMMA AppendAges ==
  ASSUME LogTyped, NEW r \in LogRow, log' = Append(log, r) PROVE LogAges
BY DEF LogTyped, LogAges

LEMMA SameAges == ASSUME LogTyped, UNCHANGED log PROVE LogAges
BY DEF LogTyped, LogAges

LEMMA ChangeAges ==
  ASSUME Base, NEW i \in Id, NEW ver \in {Edited, Deleted}, Change(i, ver) PROVE LogAges
<1>1. i \in DOMAIN log /\ log' = [log EXCEPT ![i].ver = ver] /\ log[i].ver < ver BY DEF Change
<1>2. PICK r \in LogRow : r = log[i] BY <1>1 DEF Base, LogTyped
<1>3. PICK q : q = [r EXCEPT !.ver = ver] OBVIOUS
<1>4. log' = [log EXCEPT ![i] = q] BY <1>1, <1>2, <1>3
<1>5. r.ver # Deleted
  <2>1. r.ver < ver BY <1>1, <1>2
  <2> QED BY <2>1 DEF Edited, Deleted
<1>6. Len(log) \in Nat /\ DOMAIN log = 1..Len(log) /\ Len(log') = Len(log) /\ DOMAIN log' = DOMAIN log
  BY <1>1, <1>4 DEF Base, LogTyped
<1>7. \A j \in DOMAIN log : j # i => log'[j] = log[j] BY <1>4
<1>8. ASSUME NEW j \in DOMAIN log, log[j].ver = Deleted PROVE log'[j].ver = Deleted
  BY <1>2, <1>5, <1>7, <1>8
<1> QED BY <1>6, <1>8 DEF LogAges

LEMMA ServeAges ==
  ASSUME Base, NEW k \in calls, ServeSend(k), k.text \in Nat PROVE LogAges
<1>1. CallTyped(k) BY DEF Base, Good, CallsTyped
<1>2. [chan |-> k.chan, text |-> k.text, ver |-> Posted] \in LogRow BY <1>1 DEF LogRow, CallTyped
<1>3. log' = Append(log, [chan |-> k.chan, text |-> k.text, ver |-> Posted]) BY DEF ServeSend, Create
<1> QED BY <1>2, <1>3, AppendAges DEF Base

LEMMA StepAges == ASSUME TextTyped, TextStep PROVE LogAges
<1>0. Base /\ LogTyped BY DEF TextTyped, Base
<1>1. CASE PaneStep
  <2>1. ASSUME NEW c \in Chan, Post(c) PROVE LogAges
    <3>1. [chan |-> c, text |-> 0, ver |-> Posted] \in LogRow BY DEF LogRow
    <3> QED BY <1>0, <2>1, <3>1, AppendAges DEF Post, Create
  <2>2. ASSUME NEW i \in Id, NEW ver \in {Edited, Deleted}, Change(i, ver) PROVE LogAges BY <1>0, <2>2, ChangeAges
  <2>3. ASSUME NEW near \in BOOLEAN, Take(near) \/ Resync(near) \/ Drop \/ Sleep \/ Connect PROVE UNCHANGED log
    BY <2>3 DEF Take, Resync, Drop, Sleep, Connect, Lose, server
  <2>4. ASSUME NEW k \in calls, ServeList(k) \/ AnswerAround(k) \/ AnswerOlder(k) \/ AnswerNewer(k) PROVE UNCHANGED log
    BY <2>4 DEF ServeList, AnswerAround, AnswerOlder, AnswerNewer, server
  <2>5. ASSUME LoadOlderMessages \/ LoadNewerMessages \/ Type PROVE UNCHANGED log
    BY <2>5 DEF LoadOlderMessages, LoadNewerMessages, Type, server
  <2> QED BY <1>0, <1>1, <2>1, <2>2, <2>3, <2>4, <2>5, SameAges DEF PaneStep
<1>2. ASSUME NEW k \in calls, ServeSend(k) PROVE LogAges
  <2>1. k.op = "send" BY <1>2 DEF ServeSend
  <2>2. k.text \in 1..Len(home) /\ Len(home) \in Nat BY <2>1 DEF TextTyped
  <2>3. k.text \in Nat BY <2>2
  <2> QED BY <1>0, <1>2, <2>3, ServeAges
<1>3. ASSUME NEW k \in calls, AnswerLoad(k) \/ Fail(k) \/ AnswerSend(k) PROVE UNCHANGED log
  BY <1>3 DEF AnswerLoad, Fail, AnswerSend, server
<1>4. ASSUME NEW c \in Chan, SelectChannel(c) PROVE UNCHANGED log BY <1>4 DEF SelectChannel, server
<1>5. ASSUME NEW i \in Id, JumpToMessage(i) PROVE UNCHANGED log BY <1>5 DEF JumpToMessage, server
<1>6. Enter => UNCHANGED log BY DEF Enter, server
<1> QED BY <1>0, <1>1, <1>2, <1>3, <1>4, <1>5, <1>6, SameAges DEF TextStep

LEMMA FoundStays == ASSUME LogAges, NEW q, NEW h, Found(q, h) PROVE Found(q, h)'
BY DEF LogAges, Found

LEMMA PagedStays == ASSUME LogAges, NEW x, Paged(x) PROVE Paged(x)'
<1>1. Found(x.query, x.page)' BY FoundStays DEF Paged
<1>2. \A i \in Live(x.query)' : i <= x.log => i \in Live(x.query)
  <2> SUFFICES ASSUME NEW i \in Live(x.query)', i <= x.log PROVE i \in Live(x.query) OBVIOUS
  <2>1. i \in DOMAIN log' /\ x.log \in Nat /\ x.log <= Len(log) BY DEF Live, Paged
  <2>2. i <= Len(log) BY <2>1 DEF LogAges
  <2> QED BY <2>2 DEF LogAges, Live
<1>3. x.log <= Len(log') BY DEF Paged, LogAges
<1> QED BY <1>1, <1>2, <1>3 DEF Paged

LEMMA AnswersStay ==
  ASSUME LogAges, SearchTyped, UNCHANGED <<box, hits, since>>, NEW e, Answers(e) PROVE Answers(e)'
<1>1. Found(box, hits)' BY FoundStays DEF Answers, Found, LogAges
<1>2. \A i \in Live(box)' : i <= since => i \in Live(box)
  <2> SUFFICES ASSUME NEW i \in Live(box)', i <= since PROVE i \in Live(box) OBVIOUS
  <2>1. i \in DOMAIN log' /\ since \in Nat /\ since <= Len(log) BY DEF Live, SearchTyped
  <2>2. i <= Len(log) BY <2>1 DEF LogAges
  <2> QED BY <2>2 DEF LogAges, Live
<1> QED BY <1>1, <1>2 DEF Answers, Live, LogAges

LEMMA AgesKeepsSearch ==
  ASSUME SearchWell, LogAges, UNCHANGED <<box, debounce, found>> PROVE SearchWell'
<1>0. UNCHANGED <<seq, cursor, hits, failed, more, fetches, since>> BY DEF found
<1>1. SearchTyped'
  <2>1. SearchTyped BY DEF SearchWell
  <2>2. \A n \in Nat : n <= Len(log) => n <= Len(log') BY DEF LogAges
  <2>3. (\A x \in fetches : /\ FetchTyped(x) /\ x.seq <= seq /\ x.before <= Len(log)
                            /\ x.served = "yes" => Paged(x))'
    <3> SUFFICES ASSUME NEW x \in fetches
                 PROVE  FetchTyped(x) /\ x.seq <= seq /\ x.before <= Len(log') /\ (x.served = "yes" => Paged(x)')
      BY <1>0
    <3>1. FetchTyped(x) /\ x.seq <= seq /\ x.before <= Len(log) /\ (x.served = "yes" => Paged(x)) BY <2>1 DEF SearchTyped
    <3>2. x.before \in Nat BY <3>1 DEF FetchTyped
    <3> QED BY <2>2, <3>1, <3>2, PagedStays
  <2>4. cursor' \in Nat /\ cursor' <= Len(log') /\ since' \in Nat /\ since' <= Len(log') BY <1>0, <2>1, <2>2 DEF SearchTyped
  <2>5. (\A x, y \in fetches : x.seq = seq /\ y.seq = seq => x = y)' BY <1>0, <2>1 DEF SearchTyped
  <2>6. /\ box' \in Query \cup {Blank} /\ debounce' \in BOOLEAN /\ failed' \in BOOLEAN /\ more' \in BOOLEAN
        /\ seq' \in Nat /\ hits' \in Seq(Nat)
    BY <1>0, <2>1 DEF SearchTyped
  <2> USE <2>4, <2>6
  <2>7. (/\ box \in Query \cup {Blank} /\ debounce \in BOOLEAN /\ failed \in BOOLEAN /\ more \in BOOLEAN)' OBVIOUS
  <2>8. (seq \in Nat /\ cursor \in Nat /\ cursor <= Len(log) /\ since \in Nat /\ since <= Len(log) /\ hits \in Seq(Nat))' OBVIOUS
  <2> QED BY <2>3, <2>5, <2>7, <2>8 DEF SearchTyped
<1>2. ASSUME ~debounce PROVE (Settled /\ Asking)'
  <2>1. Settled /\ Asking /\ SearchTyped BY <1>2 DEF SearchWell
  <2>2. \A e : Answers(e) => Answers(e)' BY <1>0, <2>1, AnswersStay
  <2>3. Settled' BY <1>0, <2>1, <2>2 DEF Settled
  <2>4. Asking' BY <1>0, <2>1, <2>2 DEF Asking
  <2> QED BY <2>3, <2>4
<1> QED BY <1>1, <1>2 DEF SearchWell

\* What SearchMessages gives, and its page.
LEMMA SearchMessagesIs ==
  ASSUME LogTyped, NEW q \in Query, NEW before \in Nat
  PROVE  LET S == {i \in Live(q) : before = 0 \/ i < before}
             h == SearchMessages(q, before)
         IN  /\ h \in Seq(Nat) /\ Desc(h) /\ Range(h) \subseteq S
             /\ \A i \in S : (Len(h) = SearchPage => i >= Last(h)) => i \in Range(h)
<1> DEFINE S == {i \in Live(q) : before = 0 \/ i < before}
           T == NewestOf(S, SearchPage)
<1>0. Len(log) \in Nat /\ DOMAIN log = 1..Len(log) BY DEF LogTyped
<1>1. S \in SUBSET (1..Len(log)) BY <1>0 DEF Live
<1>2. SearchMessages(q, before) = Descending(T)
  <2>1. S = {i \in Matches[q] \cap DOMAIN log : log[i].ver # Deleted /\ (before = 0 \/ i < before)} BY DEF Live
  <2> HIDE DEF S
  <2> QED BY <2>1 DEF SearchMessages, NewestOf
<1>3. SearchPage \in Nat \ {0} BY SearchAssumption
<1> HIDE DEF S
<1>4. T \subseteq S /\ IsFiniteSet(T) /\ (\A t \in T, i \in S : i > t => i \in T) /\ (Cardinality(T) # SearchPage => T = S)
  BY <1>0, <1>1, <1>3, NewestOfIs
<1> HIDE DEF T
<1>5. T \in SUBSET Nat BY <1>0, <1>1, <1>4
<1>6. PICK h : h = SearchMessages(q, before) OBVIOUS
<1>7. h \in Seq(Nat) /\ Desc(h) /\ Range(h) = T /\ Len(h) = Cardinality(T) BY <1>2, <1>4, <1>5, <1>6, DescendingIs
<1>8. ASSUME NEW i \in S, Len(h) = SearchPage => i >= Last(h) PROVE i \in Range(h)
  <2>1. CASE Len(h) # SearchPage BY <1>4, <1>7, <2>1
  <2>2. CASE Len(h) = SearchPage
    <3>1. Len(h) \in DOMAIN h BY <1>3, <1>7, <2>2
    <3>2. Last(h) \in T BY <1>7, <3>1 DEF Range, Last
    <3>0. i >= Last(h) BY <1>8, <2>2
    <3>5. Last(h) \in Nat BY <1>5, <3>2
    <3>6. i \in 1..Len(log) BY <1>1
    <3>3. i \in Nat /\ Last(h) \in Nat /\ i >= Last(h) BY <1>0, <3>0, <3>5, <3>6
    <3>4. i = Last(h) \/ i > Last(h) BY <3>3
    <3> QED BY <1>4, <1>7, <3>2, <3>4
  <2> QED BY <2>1, <2>2
<1> QED BY <1>4, <1>6, <1>7, <1>8 DEF S

-----------------------------------------------------------------------------
LEMMA PagedSame == ASSUME LogTyped, UNCHANGED log, NEW x, Paged(x) PROVE Paged(x)'
BY SameAges, PagedStays

LEMMA NewFetch ==
  ASSUME NEW s \in Nat, NEW q \in Query, NEW b \in Nat, NEW r \in BOOLEAN, NEW x,
         x = [seq |-> s, query |-> q, before |-> b, reset |-> r, served |-> "no", page |-> <<>>, log |-> 0]
  PROVE  FetchTyped(x) /\ x.seq = s /\ x.query = q /\ x.before = b /\ x.reset = r /\ x.served = "no"
BY DEF FetchTyped, FetchShape

\* Everything begins anew: the first page of what is in the box.
LEMMA ResetKeepsSearch ==
  ASSUME LogTyped, SearchWell, Run(box, TRUE), UNCHANGED <<box, log>>, debounce' \in BOOLEAN PROVE SearchWell'
<1>0. SearchTyped BY DEF SearchWell
<1>1. seq' = seq + 1 /\ more' = FALSE /\ cursor' = 0 /\ since' = since BY DEF Run
<1>2. seq' \in Nat /\ \A x \in fetches : x.seq \in Nat /\ x.seq < seq' BY <1>0, <1>1 DEF SearchTyped, FetchTyped
<1>3. CASE box = Blank
  <2>1. hits' = <<>> /\ failed' = FALSE /\ fetches' = fetches BY <1>3 DEF Run
  <2>2. \A x \in fetches' : FetchTyped(x) /\ x.seq <= seq' /\ x.before <= Len(log') /\ (x.served = "yes" => Paged(x)')
    BY <1>0, <1>2, <2>1, PagedSame DEF SearchTyped, FetchTyped
  <2>3. SearchTyped'
    <3>1. hits' \in Seq(Nat) BY <2>1
    <3>2. cursor' \in Nat /\ cursor' <= Len(log')
      <4>1. Len(log) >= since /\ since \in Nat BY <1>0 DEF SearchTyped
      <4> QED BY <1>0, <1>1, <4>1 DEF SearchTyped
    <3>3. \A x, y \in fetches' : x.seq = seq' /\ y.seq = seq' => x = y BY <1>2, <2>1
    <3> QED BY <1>0, <1>1, <1>2, <2>1, <2>2, <3>1, <3>2, <3>3 DEF SearchTyped
  <2>4. Settled' BY <1>1, <1>3, <2>1 DEF Settled
  <2>5. Asking' BY <1>2, <2>1 DEF Asking
  <2> QED BY <2>3, <2>4, <2>5 DEF SearchWell
<1>4. CASE box # Blank
  <2>0. box \in Query BY <1>0, <1>4 DEF SearchTyped
  <2>1. PICK x : x = [seq |-> seq', query |-> box, before |-> 0, reset |-> TRUE, served |-> "no", page |-> <<>>, log |-> 0] OBVIOUS
  <2>2. FetchTyped(x) /\ x.seq = seq' /\ x.query = box /\ x.before = 0 /\ x.reset = TRUE /\ x.served = "no"
    <3>1. PICK s \in Nat : s = seq' BY <1>2
    <3>2. 0 \in Nat /\ TRUE \in BOOLEAN OBVIOUS
    <3>3. x = [seq |-> s, query |-> box, before |-> 0, reset |-> TRUE, served |-> "no", page |-> <<>>, log |-> 0] BY <2>1, <3>1
    <3> QED BY <2>0, <3>1, <3>2, <3>3 DEF FetchTyped, FetchShape
  <2>3. fetches' = fetches \cup {x} /\ hits' = hits /\ failed' = failed BY <1>1, <1>4, <2>1 DEF Run
  <2>4. SearchTyped'
    <3>1. Len(log) >= since /\ since \in Nat BY <1>0 DEF SearchTyped
    <3>2. ASSUME NEW y \in fetches'
          PROVE FetchTyped(y) /\ y.seq <= seq' /\ y.before <= Len(log') /\ (y.served = "yes" => Paged(y)')
      <4>1. CASE y \in fetches BY <1>0, <1>2, <4>1, PagedSame DEF SearchTyped, FetchTyped
      <4>2. CASE y = x BY <1>0, <1>2, <2>2, <3>1, <4>2 DEF SearchTyped
      <4> QED BY <2>3, <4>1, <4>2
    <3>3. cursor' \in Nat /\ cursor' <= Len(log') BY <1>0, <1>1, <3>1 DEF SearchTyped
    <3>4. \A y, z \in fetches' : y.seq = seq' /\ z.seq = seq' => y = z BY <1>2, <2>3
    <3> QED BY <1>0, <1>1, <1>2, <2>3, <3>2, <3>3, <3>4 DEF SearchTyped
  <2>5. Settled' BY <2>2, <2>3 DEF Settled
  <2>6. Asking' BY <1>1, <1>2, <2>2, <2>3 DEF Asking
  <2> QED BY <2>4, <2>5, <2>6 DEF SearchWell
<1> QED BY <1>3, <1>4

LEMMA MoreKeepsSearch == ASSUME LogTyped, SearchWell, More PROVE SearchWell'
<1>0. SearchTyped BY DEF SearchWell
<1>1. /\ more /\ seq' = seq + 1 /\ more' = FALSE /\ cursor' = cursor /\ since' = since
      /\ UNCHANGED <<box, debounce, log>>
  BY DEF More, Run, composerVars, paneVars, server
<1>2. seq' \in Nat /\ \A x \in fetches : x.seq \in Nat /\ x.seq < seq' BY <1>0, <1>1 DEF SearchTyped, FetchTyped
<1>a. \A y \in fetches : FetchTyped(y) /\ y.seq <= seq' /\ y.before <= Len(log') /\ (y.served = "yes" => Paged(y)')
  BY <1>0, <1>1, <1>2, PagedSame DEF SearchTyped, FetchTyped
<1>3. CASE box = Blank
  <2>1. hits' = <<>> /\ failed' = FALSE /\ fetches' = fetches BY <1>3 DEF More, Run
  <2>2. SearchTyped'
    <3>1. hits' \in Seq(Nat) BY <2>1
    <3>2. \A x, y \in fetches' : x.seq = seq' /\ y.seq = seq' => x = y BY <1>2, <2>1
    <3> QED BY <1>0, <1>1, <1>2, <1>a, <2>1, <3>1, <3>2 DEF SearchTyped
  <2>3. Settled' BY <1>1, <1>3, <2>1 DEF Settled
  <2>4. Asking' BY <1>2, <2>1 DEF Asking
  <2> QED BY <2>2, <2>3, <2>4 DEF SearchWell
<1>4. CASE box # Blank
  <2>0. box \in Query BY <1>0, <1>4 DEF SearchTyped
  <2>1. PICK x : x = [seq |-> seq', query |-> box, before |-> cursor, reset |-> FALSE, served |-> "no", page |-> <<>>, log |-> 0] OBVIOUS
  <2>2. FetchTyped(x) /\ x.seq = seq' /\ x.query = box /\ x.before = cursor /\ x.reset = FALSE /\ x.served = "no"
    <3>1. cursor \in Nat BY <1>0 DEF SearchTyped
    <3>2. PICK s \in Nat : s = seq' BY <1>2
    <3>3. FALSE \in BOOLEAN OBVIOUS
    <3>4. x = [seq |-> s, query |-> box, before |-> cursor, reset |-> FALSE, served |-> "no", page |-> <<>>, log |-> 0] BY <2>1, <3>2
    <3> QED BY <2>0, <3>1, <3>2, <3>3, <3>4 DEF FetchTyped, FetchShape
  <2>3. fetches' = fetches \cup {x} /\ hits' = hits /\ failed' = failed BY <1>1, <1>4, <2>1 DEF More, Run
  <2>4. SearchTyped'
    <3>1. ASSUME NEW y \in fetches'
          PROVE FetchTyped(y) /\ y.seq <= seq' /\ y.before <= Len(log') /\ (y.served = "yes" => Paged(y)')
      <4>1. CASE y \in fetches BY <1>a, <4>1
      <4>2. CASE y = x BY <1>0, <1>1, <1>2, <2>2, <4>2 DEF SearchTyped
      <4> QED BY <2>3, <4>1, <4>2
    <3>2. \A y, z \in fetches' : y.seq = seq' /\ z.seq = seq' => y = z BY <1>2, <2>3
    <3> QED BY <1>0, <1>1, <1>2, <2>3, <3>1, <3>2 DEF SearchTyped
  <2> SUFFICES ASSUME ~debounce PROVE (Settled /\ Asking)' BY <1>1, <2>4 DEF SearchWell
  <2>5. Settled' BY <2>2, <2>3 DEF Settled
  <2>6. ~failed => hits # <<>> /\ cursor = Last(hits) /\ Answers(Last(hits))
    <3>1. Settled /\ Asking BY DEF SearchWell
    <3>2. \A y \in fetches : y.seq # seq BY <1>1, <3>1 DEF Asking
    <3> QED BY <1>1, <1>4, <3>1, <3>2 DEF Settled
  <2>7. Answers(Last(hits)) => Answers(Last(hits))' BY <1>1, <2>3 DEF Answers, Found, Live
  <2>8. Asking'
    <3> SUFFICES ASSUME NEW y \in fetches', y.seq = seq'
                 PROVE  /\ y.query = box /\ more' = FALSE
                        /\ IF y.reset THEN y.before = 0
                           ELSE ~failed => hits # <<>> /\ y.before = Last(hits) /\ Answers(Last(hits))'
      BY <1>1, <2>3 DEF Asking
    <3>1. y = x BY <1>2, <2>3
    <3> QED BY <1>1, <2>2, <2>6, <2>7, <3>1
  <2> QED BY <2>5, <2>8
<1> QED BY <1>3, <1>4

\* What leaves the search's own state alone.
LEMMA QuietKeepsSearch ==
  ASSUME TextTyped, SearchWell, TextStep, UNCHANGED <<box, debounce, found>> PROVE SearchWell'
BY StepAges, AgesKeepsSearch

LEMMA SearchTypedStays ==
  ASSUME SearchTyped, LogAges, UNCHANGED found, box' \in Query \cup {Blank}, debounce' \in BOOLEAN PROVE SearchTyped'
<1>0. UNCHANGED <<seq, cursor, hits, failed, more, fetches, since>> BY DEF found
<1>2. \A n \in Nat : n <= Len(log) => n <= Len(log') BY DEF LogAges
<1>3. \A x \in fetches' : FetchTyped(x) /\ x.seq <= seq' /\ x.before <= Len(log') /\ (x.served = "yes" => Paged(x)')
  <2> SUFFICES ASSUME NEW x \in fetches
               PROVE  FetchTyped(x) /\ x.seq <= seq /\ x.before <= Len(log') /\ (x.served = "yes" => Paged(x)')
    BY <1>0
  <2>1. FetchTyped(x) /\ x.seq <= seq /\ x.before <= Len(log) /\ (x.served = "yes" => Paged(x)) BY DEF SearchTyped
  <2>2. x.before \in Nat BY <2>1 DEF FetchTyped
  <2> QED BY <1>2, <2>1, <2>2, PagedStays
<1>4. cursor' \in Nat /\ cursor' <= Len(log') /\ since' \in Nat /\ since' <= Len(log') BY <1>0, <1>2 DEF SearchTyped
<1> QED BY <1>0, <1>3, <1>4 DEF SearchTyped

\* Nothing of the log is deleted by the search's own steps.
LEMMA SearchesKeepLog == ASSUME UNCHANGED composerVars PROVE UNCHANGED log
BY DEF composerVars, paneVars, server

LEMMA TypingKeepsSearch == ASSUME LogTyped, SearchWell, NEW q \in Query \cup {Blank}, OnInput(q) PROVE SearchWell'
<1>1. SearchTyped BY DEF SearchWell
<1>2. UNCHANGED log /\ UNCHANGED found /\ box' = q /\ debounce' = TRUE BY SearchesKeepLog DEF OnInput
<1>3. SearchTyped' BY <1>1, <1>2, SameAges, SearchTypedStays
<1> QED BY <1>2, <1>3 DEF SearchWell

LEMMA RunsKeepSearch == ASSUME LogTyped, SearchWell, OpenSearch \/ Debounced \/ RunNow PROVE SearchWell'
<1>1. debounce \in BOOLEAN BY DEF SearchWell, SearchTyped
<1>2. Run(box, TRUE) /\ UNCHANGED box /\ UNCHANGED composerVars /\ debounce' \in BOOLEAN
  BY <1>1 DEF OpenSearch, Debounced, RunNow
<1>3. UNCHANGED log BY <1>2, SearchesKeepLog
<1> QED BY <1>2, <1>3, ResetKeepsSearch

\* One of the fetches is replaced, its page served or failed.
LEMMA ServedKeepsSearch ==
  ASSUME LogTyped, SearchWell, UNCHANGED <<log, box, debounce, seq, cursor, hits, failed, more, since>>,
         NEW x \in fetches, NEW y, FetchTyped(y), y.seq = x.seq, y.query = x.query, y.before = x.before, y.reset = x.reset,
         y.served = "yes" => Paged(y), fetches' = (fetches \ {x}) \cup {y}
  PROVE  SearchWell'
<1>0. SearchTyped BY DEF SearchWell
<1>1. SearchTyped'
  <2>1. ASSUME NEW z \in fetches'
        PROVE FetchTyped(z) /\ z.seq <= seq' /\ z.before <= Len(log') /\ (z.served = "yes" => Paged(z)')
    <3>1. CASE z \in fetches BY <1>0, <3>1, PagedSame DEF SearchTyped
    <3>2. CASE z = y
      <4>1. x.seq <= seq /\ x.before <= Len(log) BY <1>0 DEF SearchTyped
      <4> QED BY <3>2, <4>1, PagedSame
    <3> QED BY <3>1, <3>2
  <2>2. \A u, v \in fetches' : u.seq = seq' /\ v.seq = seq' => u = v
    <3>1. \A u, v \in fetches : u.seq = seq /\ v.seq = seq => u = v BY <1>0 DEF SearchTyped
    <3> QED BY <3>1
  <2> QED BY <1>0, <2>1, <2>2 DEF SearchTyped
<1>2. ASSUME ~debounce PROVE (Settled /\ Asking)'
  <2>1. Settled /\ Asking BY <1>2 DEF SearchWell
  <2>2. \A e : Answers(e) => Answers(e)' BY <1>0, SameAges, AnswersStay
  <2>3. Settled'
    <3>1. (\A z \in fetches' : z.seq # seq') => \A z \in fetches : z.seq # seq OBVIOUS
    <3> QED BY <2>1, <2>2, <3>1 DEF Settled
  <2>4. Asking'
    <3> SUFFICES ASSUME NEW z \in fetches', z.seq = seq'
                 PROVE  /\ z.query = box' /\ more' = FALSE
                        /\ IF z.reset THEN z.before = 0
                           ELSE ~failed' => hits' # <<>> /\ z.before = Last(hits') /\ Answers(Last(hits))'
      BY DEF Asking
    <3>1. PICK w \in fetches : w.seq = z.seq /\ w.query = z.query /\ w.before = z.before /\ w.reset = z.reset OBVIOUS
    <3>2. /\ w.query = box /\ more = FALSE
          /\ IF w.reset THEN w.before = 0 ELSE ~failed => hits # <<>> /\ w.before = Last(hits) /\ Answers(Last(hits))
      BY <2>1, <3>1 DEF Asking
    <3> QED BY <2>2, <3>1, <3>2
  <2> QED BY <2>3, <2>4
<1> QED BY <1>1, <1>2 DEF SearchWell

LEMMA ServeKeepsSearch == ASSUME LogTyped, SearchWell, NEW x \in fetches, ServeSearch(x) PROVE SearchWell'
<1>0. SearchTyped /\ FetchTyped(x) /\ x.before <= Len(log) BY DEF SearchWell, SearchTyped
<1>1. x.query \in Query /\ x.before \in Nat /\ FetchShape(x) BY <1>0 DEF FetchTyped
<1>2. PICK h : h = SearchMessages(x.query, x.before) OBVIOUS
<1>3. PICK y : y = [x EXCEPT !.served = "yes", !.page = h, !.log = Len(log)] OBVIOUS
<1>4. /\ y.seq = x.seq /\ y.query = x.query /\ y.before = x.before /\ y.reset = x.reset /\ y.served = "yes"
      /\ y.page = h /\ y.log = Len(log) /\ FetchShape(y)
  BY <1>1, <1>3 DEF FetchShape
<1>5. FetchTyped(y) BY <1>0, <1>4 DEF FetchTyped
<1>6. fetches' = (fetches \ {x}) \cup {y} BY <1>2, <1>3 DEF ServeSearch
<1>7. Paged(y)
  <2> DEFINE S == {i \in Live(x.query) : x.before = 0 \/ i < x.before}
  <2>1. /\ h \in Seq(Nat) /\ Desc(h) /\ Range(h) \subseteq S
        /\ \A i \in S : (Len(h) = SearchPage => i >= Last(h)) => i \in Range(h)
    BY <1>1, <1>2, SearchMessagesIs
  <2>2. Len(log) \in Nat BY DEF LogTyped
  <2>3. Range(h) \subseteq Matches[x.query] \cap DOMAIN log BY <2>1 DEF Live
  <2>4. x.before # 0 => \A p \in DOMAIN h : h[p] < x.before
    <3>1. \A p \in DOMAIN h : h[p] \in S BY <2>1 DEF Range
    <3> QED BY <3>1
  <2>5. \A i \in Live(x.query) : (x.before = 0 \/ i < x.before) /\ (Len(h) = SearchPage => i >= Last(h)) => i \in Range(h)
    BY <2>1
  <2> HIDE DEF S
  <2> QED BY <1>0, <1>1, <1>4, <2>1, <2>2, <2>3, <2>4, <2>5 DEF Paged, Found
<1>8. UNCHANGED <<log, box, debounce, seq, cursor, hits, failed, more, since>> BY SearchesKeepLog DEF ServeSearch
<1> QED BY <1>4, <1>5, <1>6, <1>7, <1>8, ServedKeepsSearch

LEMMA FailKeepsSearch == ASSUME LogTyped, SearchWell, NEW x \in fetches, FailSearch(x) PROVE SearchWell'
<1>0. FetchTyped(x) BY DEF SearchWell, SearchTyped
<1>1. PICK y : y = [x EXCEPT !.served = "failed"] OBVIOUS
<1>2. /\ y.seq = x.seq /\ y.query = x.query /\ y.before = x.before /\ y.reset = x.reset /\ y.served = "failed"
      /\ FetchShape(y)
  BY <1>0, <1>1 DEF FetchTyped, FetchShape
<1>3. FetchTyped(y) BY <1>0, <1>2 DEF FetchTyped
<1>4. fetches' = (fetches \ {x}) \cup {y} BY <1>1 DEF FailSearch
<1>5. UNCHANGED <<log, box, debounce, seq, cursor, hits, failed, more, since>> BY DEF FailSearch, server
<1> QED BY <1>2, <1>3, <1>4, <1>5, ServedKeepsSearch

\* A page below the list, put after it.
LEMMA JoinIs ==
  ASSUME NEW h \in Seq(Nat), NEW g \in Seq(Nat), h # <<>>, Desc(h), Desc(g), \A p \in DOMAIN g : g[p] < Last(h)
  PROVE  LET j == h \o g
         IN  /\ j \in Seq(Nat) /\ Desc(j) /\ Range(j) = Range(h) \cup Range(g) /\ j # <<>>
             /\ Len(g) # 0 => Last(j) = Last(g)
             /\ Len(g) = 0 => Last(j) = Last(h)
<1>1. PICK j : j = h \o g OBVIOUS
<1>2. PICK m \in Nat, n \in Nat : m = Len(h) /\ n = Len(g) OBVIOUS
<1>3. /\ j \in Seq(Nat) /\ Len(j) = m + n /\ DOMAIN j = 1..(m + n) /\ DOMAIN h = 1..m /\ DOMAIN g = 1..n
      /\ m # 0
  BY <1>1, <1>2
<1>4. \A p \in 1..m : j[p] = h[p] BY <1>1, <1>2
<1>5. \A p \in 1..n : j[m + p] = g[p] BY <1>1, <1>2
<1>6. \A p \in 1..(m + n) : p \in 1..m \/ (p - m \in 1..n /\ p = m + (p - m)) BY <1>3
<1>7. Last(h) = h[m] /\ m \in 1..m BY <1>2, <1>3 DEF Last
<1>8. \A p \in 1..m : h[p] >= h[m] /\ h[p] \in Nat
  <2> TAKE p \in 1..m
  <2>1. p < m \/ p = m OBVIOUS
  <2>4. \A i \in DOMAIN h : h[i] \in Nat OBVIOUS
  <2>2. h[p] \in Nat /\ h[m] \in Nat BY <1>3, <1>7, <2>4
  <2>3. p < m => h[p] > h[m] BY <1>3, <1>7 DEF Desc
  <2> QED BY <2>1, <2>2, <2>3
<1>9. Desc(j)
  <2> SUFFICES ASSUME NEW p \in 1..(m + n), NEW q \in 1..(m + n), p < q PROVE j[p] > j[q] BY <1>3 DEF Desc
  <2>1. CASE q \in 1..m
    <3>1. p \in 1..m BY <2>1
    <3> QED BY <1>3, <1>4, <2>1, <3>1 DEF Desc
  <2>2. CASE q \notin 1..m
    <3>1. PICK b \in 1..n : q = m + b BY <1>6, <2>2
    <3>2. j[q] = g[b] /\ g[b] \in Nat BY <1>3, <1>5, <3>1
    <3>3. CASE p \in 1..m
      <4>1. g[b] < h[m] BY <1>3, <1>7, <3>1
      <4>2. h[p] >= h[m] /\ h[p] \in Nat /\ h[m] \in Nat /\ j[p] = h[p] BY <1>4, <1>7, <1>8, <3>3
      <4> QED BY <3>2, <4>1, <4>2
    <3>4. CASE p \notin 1..m
      <4>1. PICK a \in 1..n : p = m + a BY <1>6, <3>4
      <4>2. a < b BY <3>1, <4>1
      <4> QED BY <1>3, <1>5, <3>1, <3>2, <4>1, <4>2 DEF Desc
    <3> QED BY <3>3, <3>4
  <2> QED BY <2>1, <2>2
<1>10. Range(j) = Range(h) \cup Range(g)
  <2>1. \A p \in 1..m : p \in 1..(m + n) OBVIOUS
  <2>2. \A p \in 1..n : m + p \in 1..(m + n) OBVIOUS
  <2>3. Range(h) \subseteq Range(j) BY <1>3, <1>4, <2>1 DEF Range
  <2>4. Range(g) \subseteq Range(j) BY <1>3, <1>5, <2>2 DEF Range
  <2>5. Range(j) \subseteq Range(h) \cup Range(g)
    <3> SUFFICES ASSUME NEW p \in 1..(m + n) PROVE j[p] \in Range(h) \cup Range(g) BY <1>3 DEF Range
    <3>1. CASE p \in 1..m BY <1>3, <1>4, <3>1 DEF Range
    <3>2. CASE p \notin 1..m
      <4>1. PICK b \in 1..n : p = m + b BY <1>6, <3>2
      <4> QED BY <1>3, <1>5, <4>1 DEF Range
    <3> QED BY <3>1, <3>2
  <2> QED BY <2>3, <2>4, <2>5
<1>11. Last(j) = j[m + n] BY <1>3 DEF Last
<1>12. n # 0 => Last(j) = g[n] /\ Last(g) = g[n]
  <2>1. n # 0 => n \in 1..n OBVIOUS
  <2> QED BY <1>2, <1>5, <1>11, <2>1 DEF Last
<1>13. n = 0 => Last(j) = h[m] BY <1>4, <1>7, <1>11
<1>14. j # <<>> BY <1>3
<1> QED BY <1>1, <1>2, <1>3, <1>7, <1>9, <1>10, <1>12, <1>13, <1>14

LEMMA LastOf == ASSUME NEW h \in Seq(Nat), Len(h) # 0 PROVE Last(h) \in Range(h) /\ h # <<>>
<1>1. Len(h) \in DOMAIN h OBVIOUS
<1> QED BY <1>1 DEF Last, Range

LEMMA LandKeepsSearch == ASSUME LogTyped, SearchWell, NEW x \in fetches, Land(x) PROVE SearchWell'
<1>0. SearchTyped BY DEF SearchWell
<1>1. UNCHANGED <<log, box, debounce, seq>> /\ fetches' = fetches \ {x} BY SearchesKeepLog DEF Land
<1>2. FetchTyped(x) /\ (x.served = "yes" => Paged(x)) BY <1>0 DEF SearchTyped
<1>3. \A y \in fetches' : y \in fetches BY <1>1
<1>4. \A y \in fetches' : FetchTyped(y) /\ y.seq <= seq' /\ y.before <= Len(log') /\ (y.served = "yes" => Paged(y)')
  BY <1>0, <1>1, <1>3, PagedSame DEF SearchTyped
<1>5. \A y, z \in fetches' : y.seq = seq' /\ z.seq = seq' => y = z BY <1>0, <1>1, <1>3 DEF SearchTyped
<1>6. x.seq = seq => \A y \in fetches' : y.seq # seq' BY <1>0, <1>1 DEF SearchTyped
<1>7. x.seq = seq => Asking' BY <1>6 DEF Asking
<1>8. CASE x.seq # seq
  <2>1. UNCHANGED <<hits, failed, cursor, more, since>> BY <1>8 DEF Land, Latest
  <2>2. SearchTyped' BY <1>0, <1>1, <1>4, <1>5, <2>1 DEF SearchTyped
  <2>3. \A e : Answers(e) => Answers(e)' BY <1>0, <1>1, <2>1, SameAges, AnswersStay
  <2>4. (\A y \in fetches' : y.seq # seq') => (\A y \in fetches : y.seq # seq) BY <1>1, <1>8
  <2>5. Settled => Settled' BY <1>1, <2>1, <2>3, <2>4 DEF Settled
  <2>6. Asking => Asking' BY <1>1, <1>3, <2>1, <2>3 DEF Asking
  <2> QED BY <1>1, <2>2, <2>5, <2>6 DEF SearchWell
<1>9. CASE x.seq = seq /\ x.served = "failed"
  <2>1. hits' = <<>> /\ failed' = TRUE /\ UNCHANGED <<cursor, more, since>> BY <1>9 DEF Land, Latest
  <2>2. hits' \in Seq(Nat) BY <2>1
  <2>3. SearchTyped' BY <1>0, <1>1, <1>4, <1>5, <2>1, <2>2 DEF SearchTyped
  <2>4. Settled' BY <2>1 DEF Settled
  <2> QED BY <1>7, <1>9, <2>3, <2>4 DEF SearchWell
<1>10. CASE x.seq = seq /\ x.served = "yes"
  <2>1. /\ hits' = IF x.reset THEN x.page ELSE hits \o x.page
        /\ failed' = (failed /\ ~x.reset) /\ since' = IF x.reset THEN x.log ELSE since
        /\ IF Len(x.page) = SearchPage THEN cursor' = Last(x.page) /\ more' = TRUE ELSE UNCHANGED <<cursor, more>>
    BY <1>10 DEF Land, Latest
  <2>2. Paged(x) /\ x.page \in Seq(Nat) /\ Desc(x.page) /\ Range(x.page) \subseteq Matches[x.query] \cap DOMAIN log
        /\ x.log \in Nat /\ x.log <= Len(log)
    BY <1>2, <1>10 DEF Paged, Found
  <2>3. DOMAIN log = 1..Len(log) /\ Len(log) \in Nat BY DEF LogTyped
  <2>4. SearchPage \in Nat \ {0} BY SearchAssumption
  <2>5. Len(x.page) = SearchPage => Last(x.page) \in Range(x.page) /\ x.page # <<>> BY <2>2, <2>4, LastOf
  <2>6. SearchTyped'
    <3>1. hits' \in Seq(Nat) BY <1>0, <2>1, <2>2 DEF SearchTyped
    <3>2. Len(x.page) = SearchPage => Last(x.page) \in 1..Len(log) BY <2>2, <2>3, <2>5
    <3>3. cursor' \in Nat /\ cursor' <= Len(log') BY <1>0, <1>1, <2>1, <2>3, <3>2 DEF SearchTyped
    <3>4. since' \in Nat /\ since' <= Len(log') BY <1>0, <1>1, <2>1, <2>2 DEF SearchTyped
    <3>5. failed' \in BOOLEAN /\ more' \in BOOLEAN BY <1>0, <2>1 DEF SearchTyped
    <3> QED BY <1>0, <1>1, <1>4, <1>5, <3>1, <3>3, <3>4, <3>5 DEF SearchTyped
  <2> SUFFICES ASSUME ~debounce PROVE Settled' BY <1>1, <1>7, <1>10, <2>6 DEF SearchWell
  <2> SUFFICES ASSUME ~failed'
               PROVE  /\ box # Blank
                      /\ Answers(IF more THEN Last(hits) ELSE 0)'
                      /\ more' => hits' # <<>> /\ cursor' = Last(hits')
    BY <1>1 DEF Settled
  <2>7. /\ x.query = box /\ more = FALSE
        /\ IF x.reset THEN x.before = 0
           ELSE ~failed => hits # <<>> /\ x.before = Last(hits) /\ Answers(Last(hits))
    BY <1>10 DEF SearchWell, Asking
  <2>8. box # Blank BY <1>2, <2>7, SearchAssumption DEF FetchTyped
  <2>9. more' = (Len(x.page) = SearchPage) BY <2>1, <2>7
  <2>10. \A i \in Live(box) : /\ i <= x.log /\ (x.before = 0 \/ i < x.before)
                              /\ Len(x.page) = SearchPage => i >= Last(x.page)
                              => i \in Range(x.page)
    BY <2>2, <2>7 DEF Paged
  <2>11. Live(box)' = Live(box) /\ Live(box) \subseteq 1..Len(log) BY <1>1, <2>3 DEF Live
  <2>12. CASE x.reset
    <3>1. hits' = x.page /\ since' = x.log /\ x.before = 0 BY <2>1, <2>7, <2>12
    <3>2. Found(box, hits)' BY <1>1, <2>2, <2>7, <3>1 DEF Found
    <3>3. ASSUME NEW i \in Live(box), i <= since', i >= IF more' THEN Last(hits') ELSE 0 PROVE i \in Range(hits')
      BY <2>9, <2>10, <3>1, <3>3
    <3>4. more' => hits' # <<>> /\ cursor' = Last(hits') BY <2>1, <2>5, <2>9, <3>1
    <3> QED BY <2>8, <2>11, <3>2, <3>3, <3>4 DEF Answers
  <2>13. CASE ~x.reset
    <3>1. hits' = hits \o x.page /\ since' = since /\ ~failed BY <2>1, <2>13
    <3>2. hits # <<>> /\ x.before = Last(hits) /\ Answers(Last(hits)) BY <2>7, <2>13, <3>1
    <3>3. hits \in Seq(Nat) /\ Desc(hits) /\ Range(hits) \subseteq Matches[box] \cap DOMAIN log BY <3>2 DEF Answers, Found
    <3>4. Last(hits) \in 1..Len(log)
      <4>1. Len(hits) # 0 BY <3>2, <3>3
      <4> QED BY <2>3, <3>3, <4>1, LastOf
    <3>5. \A p \in DOMAIN x.page : x.page[p] < Last(hits) BY <2>2, <3>2, <3>4 DEF Paged
    <3>6. /\ hits' \in Seq(Nat) /\ Desc(hits') /\ Range(hits') = Range(hits) \cup Range(x.page) /\ hits' # <<>>
          /\ Len(x.page) # 0 => Last(hits') = Last(x.page)
      BY <2>2, <3>1, <3>2, <3>3, <3>5, JoinIs
    <3>7. Found(box, hits)' BY <1>1, <2>2, <2>7, <3>3, <3>6 DEF Found
    <3>8. ASSUME NEW i \in Live(box), i <= since, i >= IF more' THEN Last(hits') ELSE 0 PROVE i \in Range(hits')
      <4>1. i \in 1..Len(log) BY <2>11
      <4>2. CASE i >= Last(hits)
        <5>1. i \in Range(hits) BY <3>2, <3>8, <4>2 DEF Answers
        <5> QED BY <3>6, <5>1
      <4>3. CASE ~(i >= Last(hits))
        <5>1. i < x.before /\ i <= x.log
          <6>1. x.before <= x.log BY <2>2 DEF Paged
          <6> QED BY <2>2, <3>2, <3>4, <4>1, <4>3, <6>1
        <5>2. Len(x.page) = SearchPage => i >= Last(x.page) BY <2>4, <2>9, <3>6, <3>8
        <5>3. i \in Range(x.page) BY <2>10, <5>1, <5>2
        <5> QED BY <3>6, <5>3
      <4> QED BY <4>2, <4>3
    <3>9. more' => hits' # <<>> /\ cursor' = Last(hits') BY <2>1, <2>4, <2>9, <3>6
    <3> QED BY <2>8, <2>11, <3>1, <3>7, <3>8, <3>9 DEF Answers
  <2> QED BY <2>12, <2>13
<1> QED BY <1>2, <1>8, <1>9, <1>10 DEF Land, FetchTyped

LEMMA InitSearch == ASSUME Init PROVE SearchWell
<1>1. /\ box = Blank /\ debounce = FALSE /\ seq = 0 /\ cursor = 0 /\ hits = <<>> /\ failed = FALSE
      /\ more = FALSE /\ fetches = {} /\ since = 0
  BY DEF Init
<1>2. Len(log) \in Nat BY InitText DEF TextWell, TextTyped, Base, LogTyped
<1>3. hits \in Seq(Nat) BY <1>1
<1>4. SearchTyped
  <2>1. 0 \in Nat /\ 0 <= Len(log) BY <1>2
  <2>2. seq \in Nat /\ cursor \in Nat /\ cursor <= Len(log) /\ since \in Nat /\ since <= Len(log) BY <1>1, <2>1
  <2>3. box \in Query \cup {Blank} /\ debounce \in BOOLEAN /\ failed \in BOOLEAN /\ more \in BOOLEAN BY <1>1
  <2>4. \A x : x \notin fetches BY <1>1
  <2> QED BY <1>3, <2>2, <2>3, <2>4 DEF SearchTyped
<1>5. Settled BY <1>1 DEF Settled
<1>6. Asking BY <1>1 DEF Asking
<1> QED BY <1>4, <1>5, <1>6 DEF SearchWell

LEMMA NextKeepsSearch == ASSUME TextTyped, SearchWell, [Next]_vars PROVE SearchWell'
<1>0. LogTyped BY DEF TextTyped, Base
<1>1. TextStep BY NextStep
<1>2. CASE ComposerStep /\ UNCHANGED searchVars BY <1>1, <1>2, QuietKeepsSearch DEF searchVars, found
<1>3. CASE OpenSearch \/ Debounced \/ RunNow BY <1>0, <1>3, RunsKeepSearch
<1>4. CASE CloseSearch BY <1>1, <1>4, QuietKeepsSearch DEF CloseSearch
<1>5. CASE More BY <1>0, <1>5, MoreKeepsSearch
<1>6. ASSUME NEW q \in Query \cup {Blank}, OnInput(q) PROVE SearchWell' BY <1>0, <1>6, TypingKeepsSearch
<1>7. ASSUME NEW i \in Id, PickHit(i) PROVE SearchWell' BY <1>1, <1>7, QuietKeepsSearch DEF PickHit
<1>8. ASSUME NEW x \in fetches, ServeSearch(x) PROVE SearchWell' BY <1>0, <1>8, ServeKeepsSearch
<1>9. ASSUME NEW x \in fetches, FailSearch(x) PROVE SearchWell' BY <1>0, <1>9, FailKeepsSearch
<1>10. ASSUME NEW x \in fetches, Land(x) PROVE SearchWell' BY <1>0, <1>10, LandKeepsSearch
<1>11. CASE UNCHANGED vars BY <1>1, <1>11, QuietKeepsSearch DEF vars, searchVars, found
<1> QED BY <1>2, <1>3, <1>4, <1>5, <1>6, <1>7, <1>8, <1>9, <1>10, <1>11 DEF Next

LEMMA SearchWellAnswers == ASSUME TextTyped, SearchWell PROVE HitsAnswer
<1> DEFINE live == IF box = Blank THEN {} ELSE {i \in Matches[box] \cap DOMAIN log : log[i].ver # Deleted}
           end == IF more THEN Last(hits) ELSE 0
<1> SUFFICES ASSUME ~debounce, ~failed, \A x \in fetches : x.seq # seq
             PROVE  /\ \A p, q \in DOMAIN hits : p < q => hits[p] > hits[q]
                    /\ box = Blank => hits = <<>>
                    /\ box # Blank => Range(hits) \subseteq Matches[box]
                    /\ {i \in live : i <= since /\ i >= end} \subseteq Range(hits)
  BY DEF HitsAnswer
<1>1. Settled BY DEF SearchWell
<1>2. CASE box = Blank
  <2>1. hits = <<>> /\ live = {} BY <1>1, <1>2 DEF Settled
  <2> QED BY <1>2, <2>1
<1>3. CASE box # Blank
  <2>1. Answers(end) BY <1>1, <1>3 DEF Settled
  <2>2. live = Live(box) BY <1>3 DEF Live
  <2> HIDE DEF live, end
  <2> QED BY <1>3, <2>1, <2>2 DEF Answers, Found, Desc
<1> QED BY <1>2, <1>3

\* The list of hits answers the box whenever nothing is under way.
THEOREM HitsAreAnswers == Spec => []HitsAnswer
<1>1. Init => TextWell /\ SearchWell BY InitText, InitSearch
<1>2. TextWell /\ SearchWell /\ [Next]_vars => TextWell' /\ SearchWell'
  BY NextStep, StepKeepsText, NextKeepsSearch DEF TextWell
<1>3. TextWell /\ SearchWell => HitsAnswer BY SearchWellAnswers DEF TextWell
<1> QED BY <1>1, <1>2, <1>3, PTL DEF Spec

-----------------------------------------------------------------------------
(***************************************************************************)
(* The window.                                                             *)
(***************************************************************************)
MsgSet == [id : Nat, ver : {Posted, Edited, Deleted}]
Single(S) == \A m, x \in S : m.id = x.id => m = x
\* Messages of the channel, each once.
Msgs(S, c) == S \in SUBSET MsgSet /\ Single(S) /\ \A m \in S : m.id \in Own(c)

\* Everything about the frames under way that the window rests on.
FrameTrue(p) ==
  LET f == in[p]
  IN  /\ f.id \in DOMAIN log /\ f.chan = log[f.id].chan
      /\ f.type = "delete" => f.ver = Deleted
      /\ f.ver = log[f.id].ver \/ \E q \in DOMAIN in : q > p /\ in[q].id = f.id
      /\ f.type = "new" =>
           /\ \A q \in DOMAIN in : q < p => in[q].id # f.id
           /\ \A j \in DOMAIN log : j > f.id => \E q \in DOMAIN in : q > p /\ in[q].type = "new" /\ in[q].id = j
FramesTrue == (link # "up" => in = <<>>) /\ \A p \in DOMAIN in : FrameTrue(p)

Short(k) == Cardinality(k.page) < Page
\* What a served page knows, but for what is on its way.
PageFresh(k) == \A m \in k.page : m.ver = log[m.id].ver \/ Coming(m.id)
LoadWhole(k) ==
  \A i \in Own(k.chan) : Short(k) \/ i >= Oldest(k.page) =>
    i \in Ids(k.page) \/ (i > Newest(k.page) /\ Awaited(i))
OlderWhole(k) ==
  \A i \in Own(k.chan) : i < k.at /\ (Short(k) \/ i >= Oldest(k.page)) => i \in Ids(k.page)
NewerWhole(k) ==
  \A i \in Own(k.chan) : i > k.at =>
    /\ i <= Newest(k.page) => i \in Ids(k.page)
    /\ Short(k) => i \in Ids(k.page) \/ (i > Newest(k.page) /\ Awaited(i))
AroundWhole(k) ==
  \A i \in Own(k.chan) : i >= Oldest(k.page) /\ i <= Newest(k.page) => i \in Ids(k.page)
PageTrue(k) ==
  /\ PageFresh(k)
  /\ k.op = "load" => LoadWhole(k)
  /\ k.op = "older" => OlderWhole(k)
  /\ k.op = "newer" => NewerWhole(k)
  /\ k.op = "around" => AroundWhole(k)
PageTyped(k) ==
  /\ k.at \in 0..Len(log) /\ Msgs(k.page, k.chan)
  /\ k.op = "older" => \A m \in k.page : m.id < k.at
  /\ k.op = "newer" => \A m \in k.page : m.id > k.at
  /\ k.op = "send" /\ k.served = "yes" => k.at \in Own(k.chan)
CallWell(k) == PageTyped(k) /\ (k.op # "send" /\ k.served = "yes" /\ ~k.stale => PageTrue(k))

Whole(c) ==
  LET S == list[c]
  IN  /\ \A m \in S : m.ver = log[m.id].ver \/ Coming(m.id)
      /\ \A i \in Own(c) : i >= Oldest(S) /\ (c \in viewing => i <= Newest(S)) => i \in Ids(S) \/ Awaited(i)
      /\ c \in complete => \A i \in Own(c) : i >= Oldest(S) \/ Awaited(i)
ListTyped == list \in [Chan -> SUBSET MsgSet] /\ \A c \in Chan : Msgs(list[c], c)
\* The open channel, its window not about to be replaced.
Shown(c) == c = active /\ c \notin strayed /\ ~Opening(c)
WindowWell ==
  /\ ListTyped /\ FramesTrue /\ (\A k \in calls : CallWell(k))
  /\ \A c \in Chan : Shown(c) => Whole(c)

-----------------------------------------------------------------------------
LEMMA IdsIs == ASSUME NEW S \in SUBSET MsgSet PROVE Ids(S) \in SUBSET Nat /\ (S = {} <=> Ids(S) = {}) /\ \A m \in S : m.id \in Ids(S)
<1>1. \A m \in S : m.id \in Nat BY DEF MsgSet
<1> QED BY <1>1 DEF Ids

LEMMA OldestIs ==
  ASSUME NEW S \in SUBSET MsgSet
  PROVE  /\ Oldest(S) \in Nat
         /\ \A m \in S : Oldest(S) <= m.id
         /\ S = {} => Oldest(S) = 0
         /\ S # {} => Oldest(S) \in Ids(S) /\ \E m \in S : m.id = Oldest(S)
<1>1. CASE S = {} BY <1>1 DEF Oldest
<1>2. CASE S # {}
  <2>1. Oldest(S) = Min(Ids(S)) BY <1>2 DEF Oldest
  <2>2. Min(Ids(S)) \in Ids(S) /\ \A y \in Ids(S) : Min(Ids(S)) <= y BY <1>2, IdsIs, MinIs
  <2>3. \A m \in S : m.id \in Ids(S) BY IdsIs
  <2>4. \E m \in S : m.id = Oldest(S) BY <2>1, <2>2 DEF Ids
  <2> QED BY <1>2, <2>1, <2>2, <2>3, <2>4, IdsIs
<1> QED BY <1>1, <1>2

LEMMA NewestIs ==
  ASSUME NEW S \in SUBSET MsgSet, NEW n \in Nat, \A m \in S : m.id <= n
  PROVE  /\ Newest(S) \in 0..n
         /\ \A m \in S : m.id <= Newest(S)
         /\ S = {} => Newest(S) = 0
         /\ S # {} => Newest(S) \in Ids(S) /\ \E m \in S : m.id = Newest(S)
<1>1. CASE S = {} BY <1>1 DEF Newest
<1>2. CASE S # {}
  <2>1. Newest(S) = Max(Ids(S)) BY <1>2 DEF Newest
  <2>2. Ids(S) \in SUBSET (0..n) /\ Ids(S) # {}
    <3>1. \A m \in S : m.id \in Nat /\ m.id <= n BY DEF MsgSet
    <3>2. \A m \in S : m.id \in 0..n BY <3>1
    <3> QED BY <1>2, <3>2 DEF Ids
  <2>3. PICK x \in Ids(S) : \A y \in Ids(S) : y <= x
    <3> DEFINE T == Ids(S)
    <3> HIDE DEF T
    <3>1. T \in SUBSET (0..n) /\ T # {} BY <2>2 DEF T
    <3>2. \E x \in T : \A y \in T : y <= x BY <3>1, GreatestNat
    <3> QED BY <3>2 DEF T
  <2>4. \A y \in Ids(S) : y \in Nat BY <2>2
  <2>5. \A y \in Ids(S) : x >= y BY <2>3, <2>4
  <2>6. Max(Ids(S)) \in Ids(S) /\ \A y \in Ids(S) : Max(Ids(S)) >= y BY <2>5 DEF Max
  <2>7. \A m \in S : m.id \in Ids(S) BY IdsIs
  <2>8. \E m \in S : m.id = Newest(S) BY <2>1, <2>6 DEF Ids
  <2> QED BY <1>2, <2>1, <2>2, <2>4, <2>6, <2>7, <2>8
<1> QED BY <1>1, <1>2

LEMMA OwnIs ==
  ASSUME LogTyped
  PROVE  /\ Len(log) \in Nat /\ DOMAIN log = 1..Len(log)
         /\ \A c, i : i \in Own(c) <=> i \in 1..Len(log) /\ log[i].chan = c
         /\ \A i \in 1..Len(log) : log[i].ver \in {Posted, Edited, Deleted} /\ log[i].chan \in Chan
<1>1. Len(log) \in Nat /\ DOMAIN log = 1..Len(log) BY DEF LogTyped
<1>2. \A i \in 1..Len(log) : log[i] \in LogRow BY <1>1 DEF LogTyped
<1>3. \A i \in 1..Len(log) : log[i].ver \in {Posted, Edited, Deleted} /\ log[i].chan \in Chan BY <1>2 DEF LogRow
<1> QED BY <1>1, <1>3 DEF Own

LEMMA MsgsBound ==
  ASSUME LogTyped, NEW S, NEW c, Msgs(S, c)
  PROVE  /\ Oldest(S) \in Nat /\ Newest(S) \in 0..Len(log) /\ Oldest(S) <= Len(log)
         /\ (\A m \in S : m.id \in 1..Len(log) /\ Oldest(S) <= m.id /\ m.id <= Newest(S) /\ m.id \in Ids(S))
         /\ S = {} => Oldest(S) = 0 /\ Newest(S) = 0
         /\ S # {} => Oldest(S) \in Ids(S) /\ Newest(S) \in Ids(S) /\ Oldest(S) # 0 /\ Newest(S) # 0
         /\ \A i \in Ids(S) : i \in Own(c) /\ i \in 1..Len(log) /\ Oldest(S) <= i /\ i <= Newest(S) /\ \E m \in S : m.id = i
<1>1. Len(log) \in Nat BY OwnIs
<1>2. \A m \in S : m.id \in Own(c) /\ m.id \in 1..Len(log) BY OwnIs DEF Msgs
<1>3. \A m \in S : m.id <= Len(log) BY <1>1, <1>2
<1>4. S \in SUBSET MsgSet BY DEF Msgs
<1>5. /\ Oldest(S) \in Nat /\ (\A m \in S : Oldest(S) <= m.id) /\ (S = {} => Oldest(S) = 0)
      /\ S # {} => Oldest(S) \in Ids(S) /\ \E m \in S : m.id = Oldest(S)
  BY <1>4, OldestIs
<1>6. /\ Newest(S) \in 0..Len(log) /\ (\A m \in S : m.id <= Newest(S)) /\ (S = {} => Newest(S) = 0)
      /\ S # {} => Newest(S) \in Ids(S) /\ \E m \in S : m.id = Newest(S)
  BY <1>1, <1>3, <1>4, NewestIs
<1>7. \A i \in Ids(S) : \E m \in S : m.id = i BY DEF Ids
<1>8. \A m \in S : m.id \in Ids(S) BY <1>4, IdsIs
<1>9. Oldest(S) <= Len(log) BY <1>1, <1>2, <1>5
<1>10. S # {} => Oldest(S) # 0 /\ Newest(S) # 0 BY <1>2, <1>5, <1>6
<1> QED BY <1>2, <1>5, <1>6, <1>7, <1>8, <1>9, <1>10

\* The last n messages of S, and the first.
LatestOf(S, n) == {m \in S : Cardinality({x \in S : x.id > m.id}) < n}
EarliestOf(S, n) == {m \in S : Cardinality({x \in S : x.id < m.id}) < n}

LEMMA LatestIs ==
  ASSUME NEW S \in SUBSET MsgSet, IsFiniteSet(S), NEW N \in Nat, \A m \in S : m.id <= N, NEW n \in Nat
  PROVE  LET T == LatestOf(S, n)
         IN  /\ T \subseteq S /\ \A t \in T, m \in S : m.id > t.id => m \in T
             /\ Cardinality(T) < n => T = S
<1> DEFINE Above(i) == {x \in S : x.id > i.id}
<1>1. PICK T : T = LatestOf(S, n) OBVIOUS
<1>2. T \subseteq S /\ \A m \in S : m \in T <=> Cardinality(Above(m)) < n BY <1>1 DEF LatestOf
<1>3. \A m : IsFiniteSet(Above(m)) /\ Cardinality(Above(m)) \in Nat
  <2> TAKE m
  <2>1. Above(m) \in SUBSET S OBVIOUS
  <2> QED BY <2>1, FS_Subset, FS_CardinalityType
<1> HIDE DEF Above
<1>4. IsFiniteSet(T) /\ Cardinality(T) \in Nat BY <1>2, FS_Subset, FS_CardinalityType
<1>5. \A m \in S : m.id \in Nat BY DEF MsgSet
<1>6. ASSUME NEW t \in T, NEW m \in S, m.id > t.id PROVE m \in T
  <2>1. Above(m) \subseteq Above(t)
    <3>1. t.id \in Nat /\ m.id \in Nat BY <1>2, <1>5
    <3>2. \A x \in S : x.id > m.id => x.id > t.id BY <1>5, <1>6, <3>1
    <3> QED BY <3>2 DEF Above
  <2>2. Cardinality(Above(m)) <= Cardinality(Above(t)) BY <1>3, <2>1, FS_Subset
  <2>3. Cardinality(Above(t)) < n BY <1>2
  <2> QED BY <1>2, <1>3, <2>2, <2>3
<1>7. ASSUME Cardinality(T) < n PROVE T = S
  <2> SUFFICES ASSUME T # S PROVE FALSE OBVIOUS
  <2>1. PICK R : R = S \ T OBVIOUS
  <2>2. R \in SUBSET MsgSet /\ R # {} /\ \A m \in R : m.id <= N BY <1>2, <2>1
  <2>3. PICK m \in R : m.id = Newest(R) BY <2>2, NewestIs
  <2>4. \A x \in R : x.id <= m.id BY <2>2, <2>3, NewestIs
  <2>5. Above(m) \subseteq T
    <3>1. m.id \in Nat BY <1>5, <2>1
    <3>2. \A x \in R : ~(x.id > m.id) BY <1>5, <2>1, <2>4, <3>1
    <3> QED BY <2>1, <3>2 DEF Above
  <2>6. Cardinality(Above(m)) <= Cardinality(T) BY <1>4, <2>5, FS_Subset
  <2>7. Cardinality(Above(m)) < n BY <1>3, <1>4, <1>7, <2>6
  <2> QED BY <1>2, <2>1, <2>7
<1> QED BY <1>1, <1>2, <1>6, <1>7

LEMMA EarliestIs ==
  ASSUME NEW S \in SUBSET MsgSet, IsFiniteSet(S), NEW n \in Nat
  PROVE  LET T == EarliestOf(S, n)
         IN  /\ T \subseteq S /\ \A t \in T, m \in S : m.id < t.id => m \in T
             /\ Cardinality(T) < n => T = S
<1> DEFINE Below(i) == {x \in S : x.id < i.id}
<1>1. PICK T : T = EarliestOf(S, n) OBVIOUS
<1>2. T \subseteq S /\ \A m \in S : m \in T <=> Cardinality(Below(m)) < n BY <1>1 DEF EarliestOf
<1>3. \A m : IsFiniteSet(Below(m)) /\ Cardinality(Below(m)) \in Nat
  <2> TAKE m
  <2>1. Below(m) \in SUBSET S OBVIOUS
  <2> QED BY <2>1, FS_Subset, FS_CardinalityType
<1> HIDE DEF Below
<1>4. IsFiniteSet(T) /\ Cardinality(T) \in Nat BY <1>2, FS_Subset, FS_CardinalityType
<1>5. \A m \in S : m.id \in Nat BY DEF MsgSet
<1>6. ASSUME NEW t \in T, NEW m \in S, m.id < t.id PROVE m \in T
  <2>1. Below(m) \subseteq Below(t)
    <3>1. t.id \in Nat /\ m.id \in Nat BY <1>2, <1>5
    <3>2. \A x \in S : x.id < m.id => x.id < t.id BY <1>5, <1>6, <3>1
    <3> QED BY <3>2 DEF Below
  <2>2. Cardinality(Below(m)) <= Cardinality(Below(t)) BY <1>3, <2>1, FS_Subset
  <2>3. Cardinality(Below(t)) < n BY <1>2
  <2> QED BY <1>2, <1>3, <2>2, <2>3
<1>7. ASSUME Cardinality(T) < n PROVE T = S
  <2> SUFFICES ASSUME T # S PROVE FALSE OBVIOUS
  <2>1. PICK R : R = S \ T OBVIOUS
  <2>2. R \in SUBSET MsgSet /\ R # {} BY <1>2, <2>1
  <2>3. PICK m \in R : m.id = Oldest(R) BY <2>2, OldestIs
  <2>4. \A x \in R : m.id <= x.id BY <2>2, <2>3, OldestIs
  <2>5. Below(m) \subseteq T
    <3>1. m.id \in Nat BY <1>5, <2>1
    <3>2. \A x \in R : ~(x.id < m.id) BY <1>5, <2>1, <2>4, <3>1
    <3> QED BY <2>1, <3>2 DEF Below
  <2>6. Cardinality(Below(m)) <= Cardinality(T) BY <1>4, <2>5, FS_Subset
  <2>7. Cardinality(Below(m)) < n BY <1>3, <1>4, <1>7, <2>6
  <2> QED BY <1>2, <2>1, <2>7
<1> QED BY <1>1, <1>2, <1>6, <1>7

-----------------------------------------------------------------------------
(* What handleListMessages gives. *)
Current(c) == {[id |-> i, ver |-> log[i].ver] : i \in {j \in DOMAIN log : log[j].chan = c}}

LEMMA CurrentIs ==
  ASSUME LogTyped, NEW c
  PROVE  LET S == Current(c)
         IN  /\ Msgs(S, c) /\ IsFiniteSet(S) /\ Ids(S) = Own(c)
             /\ \A m \in S : m.ver = log[m.id].ver /\ m.id \in Own(c)
             /\ \A i \in Own(c) : \E m \in S : m.id = i
<1> DEFINE S == Current(c)
           at(i) == [id |-> i, ver |-> log[i].ver]
<1>1. S = {at(i) : i \in Own(c)} BY DEF Current, Own
<1>2. \A i \in Own(c) : at(i).id = i /\ at(i).ver = log[i].ver /\ at(i) \in MsgSet
  <2> TAKE i \in Own(c)
  <2>1. i \in 1..Len(log) /\ i \in Nat /\ log[i].ver \in {Posted, Edited, Deleted} BY OwnIs
  <2> QED BY <2>1 DEF MsgSet
<1>3. Own(c) \subseteq 1..Len(log) /\ Len(log) \in Nat BY OwnIs
<1>4. IsFiniteSet(Own(c))
  <2>1. IsFiniteSet(1..Len(log)) BY <1>3, FS_Interval
  <2> QED BY <1>3, <2>1, FS_Subset
<1>5. IsFiniteSet(S)
  <2> DEFINE f == [i \in Own(c) |-> at(i)]
  <2>1. f \in Surjection(Own(c), S) BY <1>1 DEF Surjection
  <2> HIDE DEF f, S
  <2> QED BY <1>4, <2>1, FS_Surjection
<1> HIDE DEF S
<1>6. \A m \in S : \E i \in Own(c) : m = at(i) BY <1>1
<1>7. \A m \in S : m \in MsgSet /\ m.ver = log[m.id].ver /\ m.id \in Own(c) /\ m = at(m.id) BY <1>2, <1>6
<1>8. \A i \in Own(c) : at(i) \in S /\ at(i).id = i BY <1>1, <1>2
<1>9. Ids(S) = Own(c) BY <1>7, <1>8 DEF Ids
<1>10. Single(S) BY <1>7 DEF Single
<1>11. Msgs(S, c) BY <1>7, <1>10 DEF Msgs
<1> QED BY <1>5, <1>7, <1>8, <1>9, <1>11 DEF S

LEMMA SubMsgs == ASSUME NEW S, NEW c, Msgs(S, c), NEW T \in SUBSET S PROVE Msgs(T, c)
BY DEF Msgs, Single

LEMMA ListedIs ==
  ASSUME LogTyped, NEW k, k.op \in CallOp \ {"send"}
  PROVE  LET S == Current(k.chan)
             below == {m \in S : m.id < k.at}
             above == {m \in S : m.id > k.at}
         IN  /\ k.op = "load" => Listed(k) = LatestOf(S, Page)
             /\ k.op = "older" => Listed(k) = LatestOf(below, Page)
             /\ k.op = "newer" => Listed(k) = EarliestOf(above, Page)
             /\ k.op = "around" => Listed(k) = LatestOf(below, Half) \cup EarliestOf(above, Half) \cup {m \in S : m.id = k.at}
BY DEF Listed, Current, LatestOf, EarliestOf, CallOp

\* A page that has just been served is whole.
LEMMA LoadListed ==
  ASSUME LogTyped, NEW k, k.op = "load", k.page = LatestOf(Current(k.chan), Page)
  PROVE  Msgs(k.page, k.chan) /\ PageFresh(k) /\ LoadWhole(k)
<1> DEFINE S == Current(k.chan)
<1>1. /\ Msgs(S, k.chan) /\ IsFiniteSet(S) /\ Ids(S) = Own(k.chan)
      /\ \A m \in S : m.ver = log[m.id].ver /\ m.id \in Own(k.chan)
      /\ \A i \in Own(k.chan) : \E m \in S : m.id = i
  BY CurrentIs
<1> HIDE DEF S
<1>2. S \in SUBSET MsgSet /\ Len(log) \in Nat /\ Page \in Nat \ {0} BY <1>1, OwnIs, PageAssumption DEF Msgs
<1>3. \A m \in S : m.id \in 1..Len(log) /\ m.id <= Len(log) BY <1>1, OwnIs
<1>4. PICK T : T = k.page OBVIOUS
<1>5. /\ T \subseteq S /\ (\A t \in T, m \in S : m.id > t.id => m \in T)
      /\ Cardinality(T) < Page => T = S
  BY <1>1, <1>2, <1>3, <1>4, LatestIs DEF S
<1>6. Msgs(T, k.chan) BY <1>1, <1>5, SubMsgs
<1>7. ASSUME NEW i \in Own(k.chan), Short(k) \/ i >= Oldest(T) PROVE i \in Ids(T)
  <2>1. PICK m \in S : m.id = i BY <1>1
  <2>2. m \in T => i \in Ids(T) BY <2>1 DEF Ids
  <2>3. CASE Short(k) BY <1>4, <1>5, <2>1, <2>2, <2>3 DEF Short
  <2>4. CASE ~Short(k) /\ T # {}
    <3>1. PICK t \in T : t.id = Oldest(T) BY <1>6, <2>4, OldestIs DEF Msgs
    <3>2. t.id \in Nat /\ m.id \in Nat /\ m.id >= t.id BY <1>3, <1>5, <1>7, <2>1, <2>4, <3>1
    <3>3. m.id = t.id \/ m.id > t.id BY <3>2
    <3>4. t.id \in Ids(T) BY DEF Ids
    <3> QED BY <1>5, <2>1, <2>2, <3>3, <3>4
  <2>5. CASE T = {}
    <3>1. Short(k) BY <1>2, <1>4, <2>5, FS_EmptySet DEF Short
    <3> QED BY <2>3, <3>1
  <2> QED BY <2>3, <2>4, <2>5
<1>8. PageFresh(k) BY <1>1, <1>4, <1>5 DEF PageFresh
<1> QED BY <1>4, <1>6, <1>7, <1>8 DEF LoadWhole

LEMMA OlderListed ==
  ASSUME LogTyped, NEW k, k.at \in Nat, k.op = "older",
         k.page = LatestOf({m \in Current(k.chan) : m.id < k.at}, Page)
  PROVE  Msgs(k.page, k.chan) /\ PageFresh(k) /\ OlderWhole(k) /\ \A m \in k.page : m.id < k.at
<1>1. PICK C : C = Current(k.chan) OBVIOUS
<1>2. /\ Msgs(C, k.chan) /\ IsFiniteSet(C) /\ Ids(C) = Own(k.chan)
      /\ \A m \in C : m.ver = log[m.id].ver /\ m.id \in Own(k.chan)
      /\ \A i \in Own(k.chan) : \E m \in C : m.id = i
  BY <1>1, CurrentIs
<1>3. PICK S : S = {m \in C : m.id < k.at} OBVIOUS
<1>4. S \in SUBSET MsgSet /\ Len(log) \in Nat /\ Page \in Nat \ {0} /\ S \subseteq C BY <1>2, <1>3, OwnIs, PageAssumption DEF Msgs
<1>5. IsFiniteSet(S) BY <1>2, <1>4, FS_Subset
<1>6. \A m \in S : m.id \in 1..Len(log) /\ m.id <= Len(log) BY <1>2, <1>4, OwnIs
<1>7. PICK T : T = k.page OBVIOUS
<1>8. /\ T \subseteq S /\ (\A t \in T, m \in S : m.id > t.id => m \in T)
      /\ Cardinality(T) < Page => T = S
  <2>1. T = LatestOf(S, Page) BY <1>1, <1>3, <1>7
  <2> QED BY <1>4, <1>5, <1>6, <2>1, LatestIs
<1>9. Msgs(T, k.chan) BY <1>2, <1>4, <1>8, SubMsgs
<1>10. ASSUME NEW i \in Own(k.chan), i < k.at, Short(k) \/ i >= Oldest(T) PROVE i \in Ids(T)
  <2>1. PICK m \in C : m.id = i BY <1>2
  <2>a. m \in S BY <1>3, <1>10, <2>1
  <2>2. m \in T => i \in Ids(T) BY <2>1 DEF Ids
  <2>3. CASE Short(k) BY <1>7, <1>8, <2>a, <2>2, <2>3 DEF Short
  <2>4. CASE ~Short(k) /\ T # {}
    <3>1. PICK t \in T : t.id = Oldest(T) BY <1>9, <2>4, OldestIs DEF Msgs
    <3>2. t.id \in Nat /\ m.id \in Nat /\ m.id >= t.id BY <1>6, <1>8, <1>10, <2>1, <2>a, <2>4, <3>1
    <3>3. m.id = t.id \/ m.id > t.id BY <3>2
    <3>4. t.id \in Ids(T) BY DEF Ids
    <3> QED BY <1>8, <2>1, <2>a, <2>2, <3>3, <3>4
  <2>5. CASE T = {}
    <3>0. Cardinality(k.page) = 0 BY <1>7, <2>5, FS_EmptySet
    <3>1. Short(k) BY <1>4, <3>0 DEF Short
    <3> QED BY <2>3, <3>1
  <2> QED BY <2>3, <2>4, <2>5
<1>11. PageFresh(k) BY <1>2, <1>4, <1>7, <1>8 DEF PageFresh
<1>12. \A m \in T : m.id < k.at BY <1>3, <1>8
<1> QED BY <1>7, <1>9, <1>10, <1>11, <1>12 DEF OlderWhole

LEMMA NewerListed ==
  ASSUME LogTyped, NEW k, k.at \in Nat, k.op = "newer",
         k.page = EarliestOf({m \in Current(k.chan) : m.id > k.at}, Page)
  PROVE  Msgs(k.page, k.chan) /\ PageFresh(k) /\ NewerWhole(k) /\ \A m \in k.page : m.id > k.at
<1>1. PICK C : C = Current(k.chan) OBVIOUS
<1>2. /\ Msgs(C, k.chan) /\ IsFiniteSet(C) /\ Ids(C) = Own(k.chan)
      /\ \A m \in C : m.ver = log[m.id].ver /\ m.id \in Own(k.chan)
      /\ \A i \in Own(k.chan) : \E m \in C : m.id = i
  BY <1>1, CurrentIs
<1>3. PICK S : S = {m \in C : m.id > k.at} OBVIOUS
<1>4. S \in SUBSET MsgSet /\ Len(log) \in Nat /\ Page \in Nat \ {0} /\ S \subseteq C BY <1>2, <1>3, OwnIs, PageAssumption DEF Msgs
<1>5. IsFiniteSet(S) BY <1>2, <1>4, FS_Subset
<1>6. \A m \in S : m.id \in 1..Len(log) /\ m.id <= Len(log) BY <1>2, <1>4, OwnIs
<1>7. PICK T : T = k.page OBVIOUS
<1>8. /\ T \subseteq S /\ (\A t \in T, m \in S : m.id < t.id => m \in T)
      /\ Cardinality(T) < Page => T = S
  <2>1. T = EarliestOf(S, Page) BY <1>1, <1>3, <1>7
  <2> QED BY <1>4, <1>5, <2>1, EarliestIs
<1>9. Msgs(T, k.chan) BY <1>2, <1>4, <1>8, SubMsgs
<1>10. ASSUME NEW i \in Own(k.chan), i > k.at, Short(k) \/ i <= Newest(T) PROVE i \in Ids(T)
  <2>1. PICK m \in C : m.id = i BY <1>2
  <2>a. m \in S BY <1>3, <1>10, <2>1
  <2>2. m \in T => i \in Ids(T) BY <2>1 DEF Ids
  <2>3. CASE Short(k) BY <1>7, <1>8, <2>a, <2>2, <2>3 DEF Short
  <2>4. CASE ~Short(k) /\ T # {}
    <3>0. T \in SUBSET MsgSet /\ \A x \in T : x.id <= Len(log) BY <1>6, <1>8, <1>9 DEF Msgs
    <3>1. PICK t \in T : t.id = Newest(T) BY <1>4, <2>4, <3>0, NewestIs
    <3>2. t.id \in Nat /\ m.id \in Nat /\ m.id <= t.id BY <1>6, <1>8, <1>10, <2>1, <2>a, <2>4, <3>1
    <3>3. m.id = t.id \/ m.id < t.id BY <3>2
    <3>4. t.id \in Ids(T) BY DEF Ids
    <3> QED BY <1>8, <2>1, <2>a, <2>2, <3>3, <3>4
  <2>5. CASE T = {}
    <3>0. Cardinality(k.page) = 0 BY <1>7, <2>5, FS_EmptySet
    <3>1. Short(k) BY <1>4, <3>0 DEF Short
    <3> QED BY <2>3, <3>1
  <2> QED BY <2>3, <2>4, <2>5
<1>11. PageFresh(k) BY <1>2, <1>4, <1>7, <1>8 DEF PageFresh
<1>12. \A m \in T : m.id > k.at BY <1>3, <1>8
<1> QED BY <1>7, <1>9, <1>10, <1>11, <1>12 DEF NewerWhole

LEMMA AroundListed ==
  ASSUME LogTyped, NEW k, k.at \in Nat, k.op = "around",
         k.page = LatestOf({m \in Current(k.chan) : m.id < k.at}, Half)
                  \cup EarliestOf({m \in Current(k.chan) : m.id > k.at}, Half)
                  \cup {m \in Current(k.chan) : m.id = k.at}
  PROVE  Msgs(k.page, k.chan) /\ PageFresh(k) /\ AroundWhole(k)
<1>1. PICK C : C = Current(k.chan) OBVIOUS
<1>2. /\ Msgs(C, k.chan) /\ IsFiniteSet(C) /\ Ids(C) = Own(k.chan)
      /\ \A m \in C : m.ver = log[m.id].ver /\ m.id \in Own(k.chan)
      /\ \A i \in Own(k.chan) : \E m \in C : m.id = i
  BY <1>1, CurrentIs
<1>3. PICK S : S = {m \in C : m.id < k.at} OBVIOUS
<1>4. PICK R : R = {m \in C : m.id > k.at} OBVIOUS
<1>5. /\ S \in SUBSET MsgSet /\ R \in SUBSET MsgSet /\ C \in SUBSET MsgSet /\ Len(log) \in Nat /\ Half \in Nat
      /\ S \subseteq C /\ R \subseteq C
  BY <1>2, <1>3, <1>4, OwnIs, PageAssumption DEF Msgs
<1>6. IsFiniteSet(S) /\ IsFiniteSet(R) BY <1>2, <1>5, FS_Subset
<1>7. \A m \in C : m.id \in 1..Len(log) /\ m.id <= Len(log) BY <1>2, OwnIs
<1>8. PICK L : L = LatestOf(S, Half) OBVIOUS
<1>9. PICK E : E = EarliestOf(R, Half) OBVIOUS
<1>10. L \subseteq S /\ (\A t \in L, m \in S : m.id > t.id => m \in L) BY <1>5, <1>6, <1>7, <1>8, LatestIs
<1>11. E \subseteq R /\ (\A t \in E, m \in R : m.id < t.id => m \in E) BY <1>5, <1>6, <1>9, EarliestIs
<1>12. PICK T : T = k.page OBVIOUS
<1>13. T = L \cup E \cup {m \in C : m.id = k.at} BY <1>1, <1>3, <1>4, <1>8, <1>9, <1>12
<1>14. T \subseteq C BY <1>5, <1>10, <1>11, <1>13
<1>15. Msgs(T, k.chan) BY <1>2, <1>14, SubMsgs
<1>16. ASSUME NEW i \in Own(k.chan), i >= Oldest(T), i <= Newest(T) PROVE i \in Ids(T)
  <2>1. PICK m \in C : m.id = i BY <1>2
  <2>2. m \in T => i \in Ids(T) BY <2>1 DEF Ids
  <2>3. i \in 1..Len(log) BY <1>7, <2>1
  <2>0. T \in SUBSET MsgSet /\ \A x \in T : x.id <= Len(log) BY <1>7, <1>14, <1>15 DEF Msgs
  <2>4. T # {}
    <3> SUFFICES ASSUME T = {} PROVE FALSE OBVIOUS
    <3>1. Newest(T) = 0 BY <1>5, <2>0, NewestIs
    <3> QED BY <1>16, <2>3, <3>1
  <2>5. PICK t \in T : t.id = Oldest(T) BY <2>0, <2>4, OldestIs
  <2>6. PICK u \in T : u.id = Newest(T) BY <1>5, <2>0, <2>4, NewestIs
  <2>7. t.id <= i /\ i <= u.id /\ t.id \in Nat /\ u.id \in Nat /\ i \in Nat BY <1>7, <1>14, <1>16, <2>3, <2>5, <2>6
  <2>8. CASE i = k.at BY <1>13, <2>1, <2>2, <2>8
  <2>9. CASE i < k.at
    <3>1. m \in S BY <1>3, <2>1, <2>9
    <3>2. ~(t.id > k.at) /\ t.id # k.at BY <2>7, <2>9
    <3>3. t \in L BY <1>4, <1>11, <1>13, <3>2
    <3>4. i = t.id \/ i > t.id BY <2>7
    <3>5. t.id \in Ids(T) BY DEF Ids
    <3> QED BY <1>10, <1>13, <2>1, <2>2, <3>1, <3>3, <3>4, <3>5
  <2>10. CASE i > k.at
    <3>1. m \in R BY <1>4, <2>1, <2>10
    <3>2. ~(u.id < k.at) /\ u.id # k.at BY <2>7, <2>10
    <3>3. u \in E BY <1>3, <1>10, <1>13, <3>2
    <3>4. i = u.id \/ i < u.id BY <2>7
    <3>5. u.id \in Ids(T) BY DEF Ids
    <3> QED BY <1>11, <1>13, <2>1, <2>2, <3>1, <3>3, <3>4, <3>5
  <2> QED BY <2>7, <2>8, <2>9, <2>10
<1>17. PageFresh(k) BY <1>2, <1>12, <1>14 DEF PageFresh
<1> QED BY <1>12, <1>15, <1>16, <1>17 DEF AroundWhole

\* The answer the server gives.
LEMMA ServedWell ==
  ASSUME LogTyped, NEW k, CallTyped(k), CallWell(k), k.op # "send", NEW m,
         m = [k EXCEPT !.served = "yes", !.page = Listed(k)]
  PROVE  CallWell(m)
<1>0. m = [n |-> k.n, op |-> k.op, chan |-> k.chan, at |-> k.at, text |-> k.text, temp |-> k.temp,
           select |-> k.select, served |-> "yes", page |-> Listed(k), stale |-> k.stale]
  BY DEF CallTyped, CallShape
<1>1. /\ m.op = k.op /\ m.chan = k.chan /\ m.served = "yes" /\ m.page = Listed(k) /\ m.at = k.at
  BY <1>0
<1>2. k.at \in 0..Len(log) /\ k.at \in Nat BY OwnIs DEF CallWell, PageTyped
<1>3. k.op \in CallOp \ {"send"} BY DEF CallTyped
<1>c. PICK C : C = Current(k.chan) OBVIOUS
<1>m. C = Current(m.chan) BY <1>1, <1>c
<1>4. CASE k.op = "load"
  <2>1. m.page = LatestOf(C, Page) BY <1>1, <1>3, <1>4, <1>c, ListedIs
  <2>2. Msgs(m.page, m.chan) /\ PageFresh(m) /\ LoadWhole(m) BY <1>1, <1>4, <1>m, <2>1, LoadListed
  <2> QED BY <1>1, <1>2, <1>4, <2>2 DEF CallWell, PageTyped, PageTrue
<1>5. CASE k.op = "older"
  <2>1. m.page = LatestOf({x \in C : x.id < m.at}, Page) BY <1>1, <1>3, <1>5, <1>c, ListedIs
  <2>2. Msgs(m.page, m.chan) /\ PageFresh(m) /\ OlderWhole(m) /\ \A x \in m.page : x.id < m.at
    BY <1>1, <1>2, <1>5, <1>m, <2>1, OlderListed
  <2> QED BY <1>1, <1>2, <1>5, <2>2 DEF CallWell, PageTyped, PageTrue
<1>6. CASE k.op = "newer"
  <2>1. m.page = EarliestOf({x \in C : x.id > m.at}, Page) BY <1>1, <1>3, <1>6, <1>c, ListedIs
  <2>2. Msgs(m.page, m.chan) /\ PageFresh(m) /\ NewerWhole(m) /\ \A x \in m.page : x.id > m.at
    BY <1>1, <1>2, <1>6, <1>m, <2>1, NewerListed
  <2> QED BY <1>1, <1>2, <1>6, <2>2 DEF CallWell, PageTyped, PageTrue
<1>7. CASE k.op = "around"
  <2>1. m.page = LatestOf({x \in C : x.id < m.at}, Half)
                  \cup EarliestOf({x \in C : x.id > m.at}, Half)
                  \cup {x \in C : x.id = m.at}
    <3>1. PICK L : L = LatestOf({x \in C : x.id < k.at}, Half) OBVIOUS
    <3>2. PICK E : E = EarliestOf({x \in C : x.id > k.at}, Half) OBVIOUS
    <3>3. Listed(k) = L \cup E \cup {x \in C : x.id = k.at} BY <1>3, <1>7, <1>c, <3>1, <3>2, ListedIs
    <3> QED BY <1>1, <3>1, <3>2, <3>3
  <2>2. Msgs(m.page, m.chan) /\ PageFresh(m) /\ AroundWhole(m) BY <1>1, <1>2, <1>7, <1>m, <2>1, AroundListed
  <2> QED BY <1>1, <1>2, <1>7, <2>2 DEF CallWell, PageTyped, PageTrue
<1> QED BY <1>3, <1>4, <1>5, <1>6, <1>7 DEF CallOp

-----------------------------------------------------------------------------
(***************************************************************************)
(* What goes on around the window: messages are posted and changed, frames *)
(* come in or are lost.                                                    *)
(***************************************************************************)
Came(i, c, F) == \E f \in F : f.id = i /\ f.chan = c
\* Whatever happens to the messages of the channel is on its way, or is in F.
Passes(c, F) ==
  /\ Len(log) <= Len(log') /\ Own(c) \subseteq Own(c)'
  /\ \A i \in Own(c)' : i \in Own(c) \/ (i > Len(log) /\ (Awaited(i)' \/ Came(i, c, F)))
  /\ \A i \in Own(c) :
       \/ log'[i].ver = log[i].ver /\ (Coming(i) => Coming(i)')
       \/ Coming(i)'
       \/ \E f \in F : f.id = i /\ f.chan = c /\ f.ver = log'[i].ver
  /\ \A i \in Own(c) : Awaited(i) => Awaited(i)' \/ Came(i, c, F)

LEMMA OwnNext ==
  ASSUME LogTyped'
  PROVE  /\ Len(log') \in Nat /\ DOMAIN log' = 1..Len(log')
         /\ \A c, i : i \in Own(c)' <=> i \in 1..Len(log') /\ log'[i].chan = c
         /\ \A i \in 1..Len(log') : log'[i].ver \in {Posted, Edited, Deleted} /\ log'[i].chan \in Chan
<1>1. Len(log') \in Nat /\ DOMAIN log' = 1..Len(log') BY DEF LogTyped
<1>2. \A i \in 1..Len(log') : log'[i] \in LogRow BY <1>1 DEF LogTyped
<1>3. \A i \in 1..Len(log') : log'[i].ver \in {Posted, Edited, Deleted} /\ log'[i].chan \in Chan BY <1>2 DEF LogRow
<1> QED BY <1>1, <1>3 DEF Own

\* A page that no frame of F overtakes stays whole.
LEMMA PageStays ==
  ASSUME LogTyped, LogTyped', NEW F, NEW k, k.op \in CallOp \ {"send"}, k.served = "yes",
         Passes(k.chan, F), CallWell(k), ~k.stale, ~Overtakes(k, F)
  PROVE  PageTrue(k)'
<1>1. PageTyped(k) /\ PageTrue(k) /\ Msgs(k.page, k.chan) /\ k.at \in 0..Len(log) BY DEF CallWell, PageTyped
<1>2. /\ Len(log) \in Nat /\ Newest(k.page) \in 0..Len(log)
      /\ \A m \in k.page : m.id \in Ids(k.page) /\ m.id \in Own(k.chan)
      /\ \A i \in Ids(k.page) : i <= Newest(k.page)
  BY <1>1, MsgsBound, OwnIs DEF Msgs
<1>3. \A f : Msg(f).id = f.id /\ Msg(f).ver = f.ver BY DEF Msg
<1>4. PageFresh(k)'
  <2> SUFFICES ASSUME NEW m \in k.page PROVE m.ver = log'[m.id].ver \/ Coming(m.id)' BY DEF PageFresh
  <2>1. m.ver = log[m.id].ver \/ Coming(m.id) BY <1>1 DEF PageTrue, PageFresh
  <2>2. CASE \E f \in F : f.id = m.id /\ f.chan = k.chan /\ f.ver = log'[m.id].ver
    <3>1. PICK f \in F : f.id = m.id /\ f.chan = k.chan /\ f.ver = log'[m.id].ver BY <2>2
    <3>2. CASE Msg(f) \in k.page
      <4>1. Msg(f) = m BY <1>1, <1>3, <3>1, <3>2 DEF Msgs, Single
      <4> QED BY <1>3, <3>1, <4>1
    <3>3. CASE Msg(f) \notin k.page
      <4>1. f.id \in Ids(k.page) BY <1>2, <3>1
      <4> QED BY <3>1, <3>3, <4>1 DEF Overtakes
    <3> QED BY <3>2, <3>3
  <2>3. \/ log'[m.id].ver = log[m.id].ver /\ (Coming(m.id) => Coming(m.id)')
        \/ Coming(m.id)'
        \/ \E f \in F : f.id = m.id /\ f.chan = k.chan /\ f.ver = log'[m.id].ver
    BY <1>2 DEF Passes
  <2> QED BY <2>1, <2>2, <2>3
<1>5. ASSUME NEW i, Came(i, k.chan, F), i > Newest(k.page), k.op = "load" \/ (k.op = "newer" /\ Short(k)) PROVE FALSE
  <2>1. PICK f \in F : f.id = i /\ f.chan = k.chan BY <1>5 DEF Came
  <2>2. Msg(f) \notin k.page
    <3>1. i \notin Ids(k.page)
      <4> SUFFICES ASSUME i \in Ids(k.page) PROVE FALSE OBVIOUS
      <4>1. i \in 0..Len(log) /\ i <= Newest(k.page) BY <1>1, MsgsBound
      <4> QED BY <1>2, <1>5, <4>1
    <3> QED BY <1>2, <1>3, <2>1, <3>1
  <2> QED BY <1>5, <2>1, <2>2 DEF Overtakes, Short
<1>6. ASSUME NEW i \in Own(k.chan)', i \notin Own(k.chan)
      PROVE  i > Len(log) /\ (Awaited(i)' \/ Came(i, k.chan, F)) /\ i \in Nat
  BY <1>6, OwnNext DEF Passes
<1>7. \A i \in Own(k.chan) : (Awaited(i) => Awaited(i)' \/ Came(i, k.chan, F)) /\ i \in Nat BY OwnIs DEF Passes
<1>8. ASSUME k.op = "load" PROVE LoadWhole(k)'
  <2> SUFFICES ASSUME NEW i \in Own(k.chan)', Short(k) \/ i >= Oldest(k.page)
               PROVE  i \in Ids(k.page) \/ (i > Newest(k.page) /\ Awaited(i)')
    BY DEF LoadWhole, Short
  <2>1. CASE i \notin Own(k.chan) BY <1>2, <1>5, <1>6, <1>8, <2>1
  <2>2. CASE i \in Own(k.chan)
    <3>1. i \in Ids(k.page) \/ (i > Newest(k.page) /\ Awaited(i)) BY <1>1, <1>8, <2>2 DEF PageTrue, LoadWhole
    <3> QED BY <1>5, <1>7, <1>8, <2>2, <3>1
  <2> QED BY <2>1, <2>2
<1>9. ASSUME k.op = "older" PROVE OlderWhole(k)'
  <2> SUFFICES ASSUME NEW i \in Own(k.chan)', i < k.at, Short(k) \/ i >= Oldest(k.page) PROVE i \in Ids(k.page)
    BY DEF OlderWhole, Short
  <2>1. i \in Own(k.chan) BY <1>1, <1>2, <1>6
  <2> QED BY <1>1, <1>9, <2>1 DEF PageTrue, OlderWhole
<1>10. ASSUME k.op = "newer" PROVE NewerWhole(k)'
  <2> SUFFICES ASSUME NEW i \in Own(k.chan)', i > k.at
               PROVE  /\ i <= Newest(k.page) => i \in Ids(k.page)
                      /\ Short(k) => i \in Ids(k.page) \/ (i > Newest(k.page) /\ Awaited(i)')
    BY DEF NewerWhole, Short
  <2>1. CASE i \notin Own(k.chan)
    <3>1. i > Newest(k.page) /\ ~(i <= Newest(k.page)) BY <1>2, <1>6, <2>1
    <3> QED BY <1>5, <1>6, <1>10, <2>1, <3>1
  <2>2. CASE i \in Own(k.chan)
    <3>1. /\ i <= Newest(k.page) => i \in Ids(k.page)
          /\ Short(k) => i \in Ids(k.page) \/ (i > Newest(k.page) /\ Awaited(i))
      BY <1>1, <1>10, <2>2 DEF PageTrue, NewerWhole
    <3> QED BY <1>5, <1>7, <1>10, <2>2, <3>1
  <2> QED BY <2>1, <2>2
<1>11. ASSUME k.op = "around" PROVE AroundWhole(k)'
  <2> SUFFICES ASSUME NEW i \in Own(k.chan)', i >= Oldest(k.page), i <= Newest(k.page) PROVE i \in Ids(k.page)
    BY DEF AroundWhole
  <2>1. i \in Own(k.chan) BY <1>2, <1>6
  <2> QED BY <1>1, <1>11, <2>1 DEF PageTrue, AroundWhole
<1> QED BY <1>4, <1>8, <1>9, <1>10, <1>11 DEF PageTrue

LEMMA PageTypedStays ==
  ASSUME LogTyped, LogTyped', NEW F, NEW k, Passes(k.chan, F), PageTyped(k)
  PROVE  PageTyped(k)'
<1>1. k.at \in 0..Len(log') BY OwnIs, OwnNext DEF PageTyped, Passes
<1>2. Msgs(k.page, k.chan)'
  <2>1. \A m \in k.page : m.id \in Own(k.chan)' BY DEF PageTyped, Msgs, Passes
  <2> QED BY <2>1 DEF PageTyped, Msgs
<1> QED BY <1>1, <1>2 DEF PageTyped, Passes

\* Calls are as good as they were, once the frames that come in have overtaken them.
LEMMA CallStays ==
  ASSUME LogTyped, LogTyped', NEW F, NEW K, CallsTyped(K), NEW k \in K, Passes(k.chan, F), CallWell(k)
  PROVE  CallWell(MarkedBy(k, F))'
<1>0. \A j \in K : LET m == MarkedBy(j, F)
                   IN  /\ SameCall(j, m) /\ m.served = j.served /\ m.at = j.at /\ m.page = j.page
                       /\ m.stale = (j.stale \/ Overtakes(j, F))
  BY OvertakenIs
<1>1. PICK m : m = MarkedBy(k, F) OBVIOUS
<1>2. /\ SameCall(k, m) /\ m.served = k.served /\ m.at = k.at /\ m.page = k.page
      /\ m.stale = (k.stale \/ Overtakes(k, F))
  BY <1>0, <1>1
<1>3. PageTyped(k)' BY PageTypedStays DEF CallWell
<1>4. PageTyped(m)' BY <1>2, <1>3 DEF PageTyped, SameCall
<1>5. ASSUME m.op # "send", m.served = "yes", ~m.stale PROVE PageTrue(m)'
  <2>1. k.op \in CallOp \ {"send"} /\ k.served = "yes" /\ ~k.stale /\ ~Overtakes(k, F)
    BY <1>2, <1>5 DEF SameCall, CallsTyped, CallTyped
  <2>2. m = k BY <1>1, <2>1 DEF MarkedBy
  <2> QED BY <2>1, <2>2, PageStays
<1>6. CallWell(m)' BY <1>4, <1>5 DEF CallWell
<1> QED BY <1>1, <1>6

LEMMA CallsPass ==
  ASSUME LogTyped, LogTyped', NEW F, NEW K, CallsTyped(K), \A c \in Chan : Passes(c, F), \A k \in K : CallWell(k)
  PROVE  \A m \in Overtaken(K, F) : CallWell(m)'
<1> SUFFICES ASSUME NEW m \in Overtaken(K, F) PROVE CallWell(m)' OBVIOUS
<1>1. PICK k \in K : m = MarkedBy(k, F) BY OvertakenIs
<1>2. k.chan \in Chan BY DEF CallsTyped, CallTyped
<1>3. CallWell(MarkedBy(k, F))' BY <1>2, CallStays
<1> QED BY <1>1, <1>3

LEMMA CallsHold ==
  ASSUME LogTyped, LogTyped', NEW K, CallsTyped(K), \A c \in Chan : Passes(c, {}), \A k \in K : CallWell(k)
  PROVE  \A k \in K : CallWell(k)'
<1> SUFFICES ASSUME NEW k \in K PROVE CallWell(k)' OBVIOUS
<1>1. MarkedBy(k, {}) = k BY DEF MarkedBy, Overtakes
<1>2. k.chan \in Chan BY DEF CallsTyped, CallTyped
<1>3. CallWell(MarkedBy(k, {}))' BY <1>2, CallStays
<1> QED BY <1>1, <1>3

LEMMA PassesClear == ASSUME NEW c, NEW F, Passes(c, F), \A f \in F : f.chan # c PROVE Passes(c, {})
BY DEF Passes, Came

LEMMA PassesMore == ASSUME NEW c, NEW F, Passes(c, {}) PROVE Passes(c, F)
BY DEF Passes, Came

\* So is a window that the step leaves alone.
LEMMA WholeStays ==
  ASSUME LogTyped, LogTyped', NEW c \in Chan, Passes(c, {}), ListTyped, Whole(c), list'[c] = list[c],
         (c \in viewing') = (c \in viewing), c \in complete' => c \in complete
  PROVE  Whole(c)'
<1>1. PICK S : S = list[c] OBVIOUS
<1>2. Msgs(S, c) BY <1>1 DEF ListTyped
<1>3. /\ \A m \in S : m.ver = log[m.id].ver \/ Coming(m.id)
      /\ \A i \in Own(c) : i >= Oldest(S) /\ (c \in viewing => i <= Newest(S)) => i \in Ids(S) \/ Awaited(i)
      /\ c \in complete => \A i \in Own(c) : i >= Oldest(S) \/ Awaited(i)
  BY <1>1 DEF Whole
<1>4. \A i \in Own(c)' : i \in Own(c) \/ Awaited(i)' BY DEF Passes, Came
<1>5. \A i \in Own(c) : Awaited(i) => Awaited(i)' BY DEF Passes, Came
<1>6. \A m \in S : m.ver = log'[m.id].ver \/ Coming(m.id)'
  <2>1. \A m \in S : m.id \in Own(c) BY <1>2 DEF Msgs
  <2> QED BY <1>3, <2>1 DEF Passes
<1> QED BY <1>1, <1>3, <1>4, <1>5, <1>6 DEF Whole

\* The frame f says what has just been posted or changed.
Said(f) ==
  /\ Len(log) <= Len(log')
  /\ \A i \in 1..Len(log) :
       log'[i].chan = log[i].chan /\ (log'[i].ver = log[i].ver \/ (f.id = i /\ f.ver = log'[i].ver))
  /\ \A i \in 1..Len(log') : i > Len(log) => i = f.id /\ f.type = "new"
  /\ f.id \in 1..Len(log') /\ f.chan = log'[f.id].chan /\ f.ver = log'[f.id].ver
  /\ f.type = "delete" => f.ver = Deleted
  /\ f.type = "new" => f.id = Len(log) + 1

LEMMA CreatedSays ==
  ASSUME LogTyped, NEW c \in Chan, NEW t, log' = Append(log, [chan |-> c, text |-> t, ver |-> Posted])
  PROVE  Said(Frame("new", c, Len(log) + 1, Posted))
<1>1. PICK r : r = [chan |-> c, text |-> t, ver |-> Posted] OBVIOUS
<1>2. r.chan = c /\ r.ver = Posted BY <1>1
<1>3. /\ Len(log) \in Nat /\ Len(log') = Len(log) + 1
      /\ \A i \in 1..Len(log) : log'[i] = log[i]
      /\ log'[Len(log) + 1] = r
  BY <1>1 DEF LogTyped
<1>4. PICK f : f = Frame("new", c, Len(log) + 1, Posted) OBVIOUS
<1>5. f.type = "new" /\ f.chan = c /\ f.id = Len(log) + 1 /\ f.ver = Posted BY <1>4 DEF Frame
<1>6. \A i \in 1..Len(log') : i > Len(log) => i = f.id BY <1>3, <1>5
<1>7. f.id \in 1..Len(log') BY <1>3, <1>5
<1> QED BY <1>2, <1>3, <1>4, <1>5, <1>6, <1>7 DEF Said

LEMMA ChangedSays ==
  ASSUME LogTyped, NEW i \in DOMAIN log, NEW ver \in {Edited, Deleted}, log' = [log EXCEPT ![i].ver = ver]
  PROVE  Said(Frame(IF ver = Edited THEN "update" ELSE "delete", log[i].chan, i, ver))
<1>1. PICK r \in LogRow : r = log[i] BY DEF LogTyped
<1>2. PICK q : q = [r EXCEPT !.ver = ver] OBVIOUS
<1>3. q.chan = r.chan /\ q.ver = ver BY <1>1, <1>2 DEF LogRow
<1>4. log' = [log EXCEPT ![i] = q] BY <1>1, <1>2
<1>5. /\ Len(log) \in Nat /\ Len(log') = Len(log) /\ i \in 1..Len(log)
      /\ \A j \in 1..Len(log) : j # i => log'[j] = log[j]
      /\ log'[i] = q
  BY <1>4 DEF LogTyped
<1>6. PICK f : f = Frame(IF ver = Edited THEN "update" ELSE "delete", log[i].chan, i, ver) OBVIOUS
<1>7. /\ f.chan = log[i].chan /\ f.id = i /\ f.ver = ver /\ f.type # "new"
      /\ f.type = "delete" => ver = Deleted
  BY <1>6 DEF Frame
<1>8. \A j \in 1..Len(log) : log'[j].chan = log[j].chan /\ (log'[j].ver = log[j].ver \/ (f.id = j /\ f.ver = log'[j].ver))
  BY <1>1, <1>3, <1>5, <1>7
<1> QED BY <1>1, <1>3, <1>5, <1>6, <1>7, <1>8 DEF Said

LEMMA SaidPasses ==
  ASSUME LogTyped, LogTyped', FramesTyped, NEW f, Said(f), NEW F, in' = Append(in, f) \/ (in' = in /\ f \in F)
  PROVE  \A c : Passes(c, F)
<1>1. /\ \A g \in ToSet(in) : g \in ToSet(in')
      /\ f \in ToSet(in') \/ f \in F
  BY DEF FramesTyped, ToSet
<1>2. /\ Len(log) \in Nat /\ Len(log') \in Nat /\ Len(log) <= Len(log')
      /\ \A c, i : i \in Own(c) <=> i \in 1..Len(log) /\ log[i].chan = c
      /\ \A c, i : i \in Own(c)' <=> i \in 1..Len(log') /\ log'[i].chan = c
  BY OwnIs, OwnNext DEF Said
<1> SUFFICES ASSUME NEW c PROVE Passes(c, F) OBVIOUS
<1>3. \A i : Coming(i) => Coming(i)' BY <1>1 DEF Coming
<1>4. \A i : Awaited(i) => Awaited(i)' BY <1>1 DEF Awaited
<1>5. Own(c) \subseteq Own(c)' BY <1>2 DEF Said
<1>6. ASSUME NEW i \in Own(c)', i \notin Own(c) PROVE i > Len(log) /\ (Awaited(i)' \/ Came(i, c, F))
  <2>1. i \in 1..Len(log') /\ log'[i].chan = c /\ i > Len(log) BY <1>2, <1>6 DEF Said
  <2>2. i = f.id /\ f.type = "new" /\ f.chan = c BY <2>1 DEF Said
  <2> QED BY <1>1, <2>1, <2>2 DEF Awaited, Came
<1>7. ASSUME NEW i \in Own(c)
      PROVE  \/ log'[i].ver = log[i].ver /\ (Coming(i) => Coming(i)')
             \/ Coming(i)'
             \/ \E g \in F : g.id = i /\ g.chan = c /\ g.ver = log'[i].ver
  <2>1. i \in 1..Len(log) /\ i \in 1..Len(log') /\ log'[i].chan = c BY <1>2, <1>5
  <2>2. CASE f.id = i /\ f.ver = log'[i].ver
    <3>1. f.chan = c BY <2>1, <2>2 DEF Said
    <3> QED BY <1>1, <2>2, <3>1 DEF Coming
  <2> QED BY <1>3, <2>1, <2>2 DEF Said
<1> QED BY <1>2, <1>4, <1>5, <1>6, <1>7 DEF Passes

LEMMA SaidFrames ==
  ASSUME LogTyped, LogTyped', FramesTyped, FramesTrue, NEW f, Said(f),
         \/ link = "up" /\ in' = Append(in, f)
         \/ link # "up" /\ in' = in,
         link' = link
  PROVE  FramesTrue'
<1>1. CASE link # "up"
  <2>1. in' = <<>> BY <1>1 DEF FramesTrue
  <2> QED BY <2>1 DEF FramesTrue
<1>2. CASE link = "up"
  <2>1. /\ Len(in) \in Nat /\ DOMAIN in = 1..Len(in) /\ DOMAIN in' = 1..(Len(in) + 1)
        /\ \A p \in 1..Len(in) : in'[p] = in[p]
        /\ in'[Len(in) + 1] = f
    BY <1>2 DEF FramesTyped
  <2>2. /\ Len(log) \in Nat /\ DOMAIN log = 1..Len(log) /\ DOMAIN log' = 1..Len(log') /\ Len(log') \in Nat
        /\ Len(log) <= Len(log')
    BY OwnIs, OwnNext DEF Said
  <2>3. ASSUME NEW p \in 1..Len(in) PROVE FrameTrue(p)'
    <3>1. PICK g : g = in[p] OBVIOUS
    <3>2. g = in'[p] BY <2>1, <3>1
    <3>3. /\ g.id \in DOMAIN log /\ g.chan = log[g.id].chan
          /\ g.type = "delete" => g.ver = Deleted
          /\ g.ver = log[g.id].ver \/ \E q \in DOMAIN in : q > p /\ in[q].id = g.id
          /\ g.type = "new" =>
               /\ \A q \in DOMAIN in : q < p => in[q].id # g.id
               /\ \A j \in DOMAIN log : j > g.id => \E q \in DOMAIN in : q > p /\ in[q].type = "new" /\ in[q].id = j
      BY <2>1, <3>1 DEF FramesTrue, FrameTrue
    <3>4. g.id \in DOMAIN log' /\ g.chan = log'[g.id].chan BY <2>2, <3>3 DEF Said
    <3>5. Len(in) + 1 \in DOMAIN in' /\ Len(in) + 1 > p /\ \A q \in DOMAIN in : q \in DOMAIN in' /\ in'[q] = in[q] BY <2>1
    <3>6. g.ver = log'[g.id].ver \/ \E q \in DOMAIN in' : q > p /\ in'[q].id = g.id
      <4>1. CASE log'[g.id].ver = log[g.id].ver BY <3>3, <3>5, <4>1
      <4>2. CASE f.id = g.id BY <2>1, <3>5, <4>2
      <4> QED BY <2>2, <3>3, <4>1, <4>2 DEF Said
    <3>7. ASSUME g.type = "new", NEW q \in DOMAIN in', q < p PROVE in'[q].id # g.id
      <4>1. q \in DOMAIN in BY <2>1, <3>7
      <4> QED BY <3>3, <3>5, <3>7, <4>1
    <3>8. ASSUME g.type = "new", NEW j \in DOMAIN log', j > g.id
          PROVE  \E q \in DOMAIN in' : q > p /\ in'[q].type = "new" /\ in'[q].id = j
      <4>1. CASE j \in DOMAIN log BY <3>3, <3>5, <3>8, <4>1
      <4>2. CASE j \notin DOMAIN log
        <5>1. j > Len(log) BY <2>2, <4>2
        <5>2. j = f.id /\ f.type = "new" BY <2>2, <5>1 DEF Said
        <5> QED BY <2>1, <3>5, <5>2
      <4> QED BY <4>1, <4>2
    <3> QED BY <3>2, <3>3, <3>4, <3>6, <3>7, <3>8 DEF FrameTrue
  <2>n. PICK n : n = Len(in) + 1 OBVIOUS
  <2>4. FrameTrue(n)'
    <3>1. f.id \in DOMAIN log' /\ f.chan = log'[f.id].chan /\ f.ver = log'[f.id].ver /\ (f.type = "delete" => f.ver = Deleted)
      BY <2>2 DEF Said
    <3>2. ASSUME f.type = "new", NEW q \in DOMAIN in', q < n PROVE in'[q].id # f.id
      <4>1. q \in DOMAIN in /\ in'[q] = in[q] BY <2>1, <2>n, <3>2
      <4>2. in[q].id \in DOMAIN log BY <4>1 DEF FramesTrue, FrameTrue
      <4> QED BY <2>2, <3>2, <4>1, <4>2 DEF Said
    <3>3. ASSUME f.type = "new", NEW j \in DOMAIN log', j > f.id PROVE FALSE
      <4>1. f.id = Len(log) + 1 /\ j > Len(log) BY <2>2, <3>3 DEF Said
      <4>2. j = f.id BY <2>2, <4>1 DEF Said
      <4> QED BY <2>2, <3>3, <4>1, <4>2
    <3>4. in'[n] = f BY <2>1, <2>n
    <3> QED BY <3>1, <3>2, <3>3, <3>4 DEF FrameTrue
  <2>5. \A p \in DOMAIN in' : FrameTrue(p)'
    <3>1. \A p \in DOMAIN in' : p \in 1..Len(in) \/ p = n BY <2>1, <2>n
    <3> QED BY <2>3, <2>4, <3>1
  <2> QED BY <1>2, <2>5 DEF FramesTrue
<1> QED BY <1>1, <1>2

LEMMA ListStays ==
  ASSUME ListTyped, UNCHANGED list, \A c \in Chan : Own(c) \subseteq Own(c)'
  PROVE  ListTyped'
BY DEF ListTyped, Msgs

\* A step that makes the server speak; K: the calls once it has.
LEMMA SaidKeepsWindow ==
  ASSUME Base, LogTyped', WindowWell, NEW f, Said(f), NEW K, Broadcast(f, K), CallsTyped(K),
         UNCHANGED <<link, active, list, viewing, complete>>,
         \A k \in K : k \in calls \/ (k.op = "send" /\ CallWell(k)'),
         \A k \in calls : k.op # "send" => k \in K
  PROVE  WindowWell'
<1>1. LogTyped /\ FramesTyped /\ ListTyped /\ FramesTrue /\ (\A k \in calls : CallWell(k)) BY DEF Base, WindowWell
<1>2. PICK F : F = IF link = "up" THEN {} ELSE {f} OBVIOUS
<1>3. /\ link = "up" => in' = Append(in, f) /\ calls' = K /\ UNCHANGED strayed
      /\ link # "up" => in' = in /\ calls' = Overtaken(K, {f}) /\ strayed' = strayed \cup {f.chan}
  BY DEF Broadcast
<1>4. \A c : Passes(c, F)
  <2>1. in' = Append(in, f) \/ (in' = in /\ f \in F) BY <1>2, <1>3
  <2> QED BY <1>1, <2>1, SaidPasses
<1>5. FramesTrue' BY <1>1, <1>3, SaidFrames
<1>6. ListTyped' BY <1>1, <1>4, ListStays DEF Passes
<1>7. ASSUME NEW k \in K PROVE CallWell(MarkedBy(k, F))'
  <2>1. CASE k \in calls BY <1>1, <1>4, <2>1, CallStays
  <2>2. CASE k.op = "send" /\ CallWell(k)'
    <3>1. MarkedBy(k, F) = k BY <2>2 DEF MarkedBy, Overtakes
    <3> QED BY <2>2, <3>1
  <2> QED BY <2>1, <2>2
<1>8. /\ \A m \in calls' : \E k \in K : m = MarkedBy(k, F)
      /\ \A k \in K : \E m \in calls' : SameCall(k, m)
  <2>1. CASE link = "up"
    <3>1. F = {} /\ calls' = K BY <1>2, <1>3, <2>1
    <3>2. \A k \in K : MarkedBy(k, F) = k BY <3>1 DEF MarkedBy, Overtakes
    <3> QED BY <3>1, <3>2 DEF SameCall
  <2>2. CASE link # "up"
    <3>1. calls' = Overtaken(K, F) BY <1>2, <1>3, <2>2
    <3>2. /\ \A m \in Overtaken(K, F) : \E k \in K : m = MarkedBy(k, F)
          /\ \A k \in K : MarkedBy(k, F) \in Overtaken(K, F) /\ SameCall(k, MarkedBy(k, F))
      BY OvertakenIs
    <3> QED BY <3>1, <3>2
  <2> QED BY <2>1, <2>2
<1>9. \A m \in calls' : CallWell(m)' BY <1>7, <1>8
<1>10. ASSUME NEW c \in Chan, Shown(c)' PROVE Whole(c)'
  <2>1. c = active /\ c \notin strayed BY <1>3, <1>10 DEF Shown
  <2>2. ~Opening(c)
    <3> SUFFICES ASSUME NEW k \in calls, k.chan = c, k.op \in {"load", "around"} PROVE Opening(c)'
      BY <1>10 DEF Shown, Opening
    <3>1. PICK m \in calls' : SameCall(k, m) BY <1>8
    <3> QED BY <3>1 DEF Opening, SameCall
  <2>3. Whole(c) BY <2>1, <2>2 DEF WindowWell, Shown
  <2>4. Passes(c, {})
    <3>1. \A g \in F : g.chan # c BY <1>2, <1>3, <1>10 DEF Shown
    <3> QED BY <1>4, <3>1, PassesClear
  <2> QED BY <1>1, <2>3, <2>4, WholeStays
<1> QED BY <1>5, <1>6, <1>9, <1>10 DEF WindowWell

LEMMA PostKeepsWindow == ASSUME Base, Base', WindowWell, NEW c \in Chan, Post(c) PROVE WindowWell'
<1>1. PICK f : f = Frame("new", c, Len(log) + 1, Posted) OBVIOUS
<1>2. /\ log' = Append(log, [chan |-> c, text |-> 0, ver |-> Posted]) /\ Broadcast(f, calls)
      /\ UNCHANGED <<link, active, list, viewing, complete>>
  BY <1>1 DEF Post, Create, socket, window
<1>3. Said(f) BY <1>1, <1>2, CreatedSays DEF Base
<1> QED BY <1>2, <1>3, SaidKeepsWindow DEF Base, Good

LEMMA ChangeKeepsWindow ==
  ASSUME Base, Base', WindowWell, NEW i, NEW ver, Change(i, ver) PROVE WindowWell'
<1>1. PICK f : f = Frame(IF ver = Edited THEN "update" ELSE "delete", log[i].chan, i, ver) OBVIOUS
<1>2. /\ log' = [log EXCEPT ![i].ver = ver] /\ Broadcast(f, calls) /\ i \in DOMAIN log /\ ver \in {Edited, Deleted}
      /\ UNCHANGED <<link, active, list, viewing, complete>>
  BY <1>1 DEF Change, socket, window
<1>3. Said(f) BY <1>1, <1>2, ChangedSays DEF Base
<1> QED BY <1>2, <1>3, SaidKeepsWindow DEF Base, Good

LEMMA ServeSendKeepsWindow ==
  ASSUME Base, Base', WindowWell, NEW k \in calls, ServeSend(k), k.text \in Nat PROVE WindowWell'
<1>1. PICK f : f = Frame("new", k.chan, Len(log) + 1, Posted) OBVIOUS
<1>2. PICK m : m = [k EXCEPT !.served = "yes", !.at = Len(log) + 1] OBVIOUS
<1>3. PICK K : K = (calls \ {k}) \cup {m} OBVIOUS
<1>4. /\ log' = Append(log, [chan |-> k.chan, text |-> k.text, ver |-> Posted]) /\ Broadcast(f, K)
      /\ UNCHANGED <<link, active, list, viewing, complete>> /\ k.op = "send"
  BY <1>1, <1>2, <1>3 DEF ServeSend, Create, socket, window
<1>5. CallTyped(k) /\ k.chan \in Chan /\ CallWell(k) BY DEF Base, Good, CallsTyped, CallTyped, WindowWell
<1>6. Said(f) BY <1>1, <1>4, <1>5, CreatedSays DEF Base
<1>7. m = [n |-> k.n, op |-> k.op, chan |-> k.chan, at |-> Len(log) + 1, text |-> k.text, temp |-> k.temp,
           select |-> k.select, served |-> "yes", page |-> k.page, stale |-> k.stale]
  BY <1>2, <1>5 DEF CallTyped, CallShape
<1>8. m.op = "send" /\ m.chan = k.chan /\ m.at = Len(log) + 1 /\ m.page = k.page /\ m.n = k.n BY <1>4, <1>7
<1>9. CallTyped(m)
  <2>1. CallShape(m) BY <1>7 DEF CallShape
  <2> QED BY <1>5, <1>7, <2>1 DEF CallTyped
<1>10. CallsTyped(K) BY <1>3, <1>8, <1>9, ExchangeIs DEF Base, Good
<1>11. CallWell(m)'
  <2>0. LogTyped /\ LogTyped' BY DEF Base
  <2>1. Len(log) \in Nat /\ Len(log') = Len(log) + 1 /\ log'[Len(log) + 1].chan = k.chan
    BY <1>4, <2>0 DEF LogTyped
  <2>2. m.at \in 0..Len(log') /\ m.at \in Own(m.chan)' BY <1>8, <2>0, <2>1, OwnNext
  <2>3. Own(k.chan) \subseteq Own(k.chan)'
    <3>1. \A j \in 1..Len(log) : log'[j] = log[j] /\ j \in 1..Len(log') BY <1>4, <2>0, <2>1 DEF LogTyped
    <3> QED BY <2>0, <3>1, OwnIs, OwnNext
  <2>4. Msgs(m.page, m.chan)' BY <1>5, <1>8, <2>3 DEF CallWell, PageTyped, Msgs
  <2> QED BY <1>8, <2>2, <2>4 DEF CallWell, PageTyped
<1>12. \A j \in K : j \in calls \/ (j.op = "send" /\ CallWell(j)') BY <1>3, <1>8, <1>11
<1>13. \A j \in calls : j.op # "send" => j \in K BY <1>3, <1>4
<1> QED BY <1>4, <1>6, <1>10, <1>12, <1>13, SaidKeepsWindow DEF Base

LEMMA QuietPasses == ASSUME LogTyped, UNCHANGED <<log, in>> PROVE \A c : Passes(c, {})
<1>1. Len(log) \in Nat BY OwnIs
<1> QED BY <1>1 DEF Passes, Own, Coming, Awaited

\* A step during which the server says nothing.
LEMMA WindowIs ==
  ASSUME Base, Base', WindowWell, UNCHANGED <<log, in>>, link' = link \/ link' = "up", ListTyped',
         \A k \in calls' : CallWell(k), \A c \in Chan : Shown(c)' => Whole(c)'
  PROVE  WindowWell'
<1>1. \A c : Passes(c, {}) BY QuietPasses DEF Base
<1>2. \A k \in calls' : CallWell(k)'
  <2>1. PICK K : K = calls' OBVIOUS
  <2>2. LogTyped /\ LogTyped' /\ CallsTyped(K) BY <2>1 DEF Base, Good, CallsTyped, CallTyped
  <2> QED BY <1>1, <2>1, <2>2, CallsHold
<1>3. FramesTrue'
  <2>1. \A p : FrameTrue(p)' = FrameTrue(p) BY DEF FrameTrue
  <2> QED BY <2>1 DEF FramesTrue, WindowWell
<1> QED BY <1>2, <1>3 DEF WindowWell

LEMMA SameWhole ==
  ASSUME Base, Base', WindowWell, UNCHANGED <<log, in>>, NEW c \in Chan, Shown(c), list'[c] = list[c],
         (c \in viewing') = (c \in viewing), c \in complete' => c \in complete
  PROVE  Whole(c)'
<1>1. LogTyped /\ LogTyped' /\ ListTyped /\ Whole(c) /\ Passes(c, {}) BY QuietPasses DEF Base, WindowWell
<1> QED BY <1>1, WholeStays

LEMMA SameList == ASSUME Base, WindowWell, UNCHANGED <<log, in, list>> PROVE ListTyped'
BY ListStays DEF WindowWell, Own

\* A step that only asks, serves an answer or drops a send.
LEMMA CallsKeepWindow ==
  ASSUME Base, Base', WindowWell, UNCHANGED <<log, in, active, list, viewing, complete, strayed>>,
         link' = link \/ link' = "up", \A k \in calls' : CallWell(k),
         \A k \in calls : k.op \in {"load", "around"} => \E m \in calls' : m.op = k.op /\ m.chan = k.chan
  PROVE  WindowWell'
<1>1. ListTyped' BY SameList
<1>2. ASSUME NEW c \in Chan, Shown(c)' PROVE Whole(c)'
  <2>1. Shown(c) BY <1>2 DEF Shown, Opening
  <2> QED BY <2>1, SameWhole
<1> QED BY <1>1, <1>2, WindowIs

\* A step that sets out to replace the window of the open channel.
LEMMA OpeningKeepsWindow ==
  ASSUME Base, Base', WindowWell, UNCHANGED <<log, in, link, list>>, \A k \in calls' : CallWell(k),
         \A c \in Chan : c = active' => Opening(c)'
  PROVE  WindowWell'
<1>1. ListTyped' BY SameList
<1>2. \A c \in Chan : ~Shown(c)' BY DEF Shown
<1> QED BY <1>1, <1>2, WindowIs

LEMMA NewWell ==
  ASSUME Base, NEW k, k.page = {}, k.served = "no", k.at \in 0..Len(log)
  PROVE  CallWell(k)
BY DEF CallWell, PageTyped, Msgs, Single

LEMMA AskedWell ==
  ASSUME Base, NEW K, CallsTyped(K), NEW op \in CallOp, NEW c \in Chan, NEW at \in 0..Len(log), NEW k, k = Asked(K, op, c, at)
  PROVE  CallWell(k) /\ k.op = op /\ k.chan = c
<1>1. NewCall(k, K, op, c, at) BY AskedIs
<1> QED BY <1>1, NewWell DEF NewCall

LEMMA ZeroIs == ASSUME Base PROVE 0 \in 0..Len(log)
BY OwnIs DEF Base

LEMMA AskingKeepsWindow ==
  ASSUME Base, Base', WindowWell, LoadOlderMessages \/ LoadNewerMessages PROVE WindowWell'
<1>1. PICK S : S = list[active] OBVIOUS
<1>2. Msgs(S, active) BY <1>1 DEF WindowWell, ListTyped, Base
<1>3. Oldest(S) \in 0..Len(log) /\ Newest(S) \in 0..Len(log) BY <1>2, MsgsBound, OwnIs DEF Base
<1>4. \E k : calls' = calls \cup {k} /\ CallWell(k)
  <2>1. CASE LoadOlderMessages
    <3>1. PICK k : k = Asked(calls, "older", active, Oldest(S)) OBVIOUS
    <3>2. CallWell(k) BY <1>3, <3>1, AskedWell DEF Base, Good, CallOp
    <3> QED BY <1>1, <2>1, <3>1, <3>2 DEF LoadOlderMessages
  <2>2. CASE LoadNewerMessages
    <3>1. PICK k : k = Asked(calls, "newer", active, Newest(S)) OBVIOUS
    <3>2. CallWell(k) BY <1>3, <3>1, AskedWell DEF Base, Good, CallOp
    <3> QED BY <1>1, <2>2, <3>1, <3>2 DEF LoadNewerMessages
  <2> QED BY <2>1, <2>2
<1>5. UNCHANGED <<log, in, link, active, list, viewing, complete, strayed>>
  BY DEF LoadOlderMessages, LoadNewerMessages, server, socket, ghosts
<1>6. \A k \in calls' : CallWell(k) BY <1>4 DEF WindowWell
<1>7. \A k \in calls : k \in calls' BY <1>4
<1> QED BY <1>5, <1>6, <1>7, CallsKeepWindow

LEMMA EnterKeepsWindow == ASSUME Base, Base', WindowWell, Enter PROVE WindowWell'
<1>1. PICK temp : temp = IF active \notin viewing THEN FreshTemp ELSE 0 OBVIOUS
<1>2. PICK a : a = Asked(calls, "send", active, 0) OBVIOUS
<1>3. PICK k : k = [a EXCEPT !.text = composer, !.temp = temp] OBVIOUS
<1>4. calls' = calls \cup {k} BY <1>1, <1>2, <1>3 DEF Enter
<1>5. NewCall(a, calls, "send", active, 0) BY <1>2, AskedIs DEF Base, Good, CallOp
<1>6. k = [n |-> a.n, op |-> a.op, chan |-> a.chan, at |-> a.at, text |-> composer, temp |-> temp,
           select |-> a.select, served |-> a.served, page |-> a.page, stale |-> a.stale]
  BY <1>3, <1>5 DEF NewCall, CallTyped, CallShape
<1>7. k.page = {} /\ k.served = "no" /\ k.at = 0 BY <1>5, <1>6 DEF NewCall
<1>8. CallWell(k) BY <1>7, NewWell, ZeroIs
<1>9. UNCHANGED <<log, in, link, active, list, viewing, complete, strayed>> BY DEF Enter, server, socket, window
<1>10. \A j \in calls' : CallWell(j) BY <1>4, <1>8 DEF WindowWell
<1> QED BY <1>4, <1>9, <1>10, CallsKeepWindow

LEMMA ServeListKeepsWindow == ASSUME Base, Base', WindowWell, NEW k \in calls, ServeList(k) PROVE WindowWell'
<1>1. PICK m : m = [k EXCEPT !.served = "yes", !.page = Listed(k)] OBVIOUS
<1>2. /\ calls' = (calls \ {k}) \cup {m} /\ k.op # "send"
      /\ UNCHANGED <<log, in, link, active, list, viewing, complete, strayed>>
  BY <1>1 DEF ServeList, server, socket, window, ghosts
<1>3. CallTyped(k) /\ CallWell(k) /\ LogTyped BY DEF Base, Good, CallsTyped, WindowWell
<1>4. CallWell(m) BY <1>1, <1>2, <1>3, ServedWell
<1>5. m = [n |-> k.n, op |-> k.op, chan |-> k.chan, at |-> k.at, text |-> k.text, temp |-> k.temp,
           select |-> k.select, served |-> "yes", page |-> Listed(k), stale |-> k.stale]
  BY <1>1, <1>3 DEF CallTyped, CallShape
<1>6. m.op = k.op /\ m.chan = k.chan BY <1>5
<1>7. \A j \in calls' : CallWell(j) BY <1>2, <1>4 DEF WindowWell
<1>8. \A j \in calls : \E l \in calls' : l.op = j.op /\ l.chan = j.chan BY <1>2, <1>6
<1> QED BY <1>2, <1>7, <1>8, CallsKeepWindow

LEMMA FailKeepsWindow == ASSUME Base, Base', WindowWell, NEW k \in calls, Fail(k) PROVE WindowWell'
<1>1. PICK m : m = [k EXCEPT !.served = "failed"] OBVIOUS
<1>2. /\ calls' = (calls \ {k}) \cup {m}
      /\ UNCHANGED <<log, in, link, active, list, viewing, complete, strayed>>
  BY <1>1 DEF Fail, server, socket, window, ghosts
<1>3. CallTyped(k) /\ CallWell(k) BY DEF Base, Good, CallsTyped, WindowWell
<1>4. m = [n |-> k.n, op |-> k.op, chan |-> k.chan, at |-> k.at, text |-> k.text, temp |-> k.temp,
           select |-> k.select, served |-> "failed", page |-> k.page, stale |-> k.stale]
  BY <1>1, <1>3 DEF CallTyped, CallShape
<1>5. m.op = k.op /\ m.chan = k.chan /\ m.served = "failed" /\ m.page = k.page /\ m.at = k.at BY <1>4
<1>6. CallWell(m) BY <1>3, <1>5 DEF CallWell, PageTyped
<1>7. \A j \in calls' : CallWell(j) BY <1>2, <1>6 DEF WindowWell
<1>8. \A j \in calls : \E l \in calls' : l.op = j.op /\ l.chan = j.chan BY <1>2, <1>5
<1> QED BY <1>2, <1>7, <1>8, CallsKeepWindow

LEMMA UnsentKeepsWindow ==
  ASSUME Base, Base', WindowWell, NEW k \in calls, k.op = "send", k.served = "failed", AnswerSend(k) PROVE WindowWell'
<1>1. Unsent(k) BY DEF AnswerSend
<1>2. calls' = calls \ {k} /\ UNCHANGED <<log, in, link, active, list, viewing, complete, strayed>>
  BY <1>1 DEF AnswerSend, Unsent, server, socket
<1>3. \A j \in calls' : CallWell(j) BY <1>2 DEF WindowWell
<1>4. \A j \in calls : j.op # "send" => j \in calls' BY <1>2
<1> QED BY <1>2, <1>3, <1>4, CallsKeepWindow

LEMMA LoadAsked ==
  ASSUME Base, NEW K, CallsTyped(K), \A k \in K : CallWell(k), NEW c \in Chan, NEW s \in BOOLEAN,
         calls' = K \cup {[Asked(K, "load", c, 0) EXCEPT !.select = s]}
  PROVE  (\A k \in calls' : CallWell(k)) /\ Opening(c)'
<1>1. PICK a : a = Asked(K, "load", c, 0) OBVIOUS
<1>2. PICK k : k = [a EXCEPT !.select = s] OBVIOUS
<1>3. NewCall(a, K, "load", c, 0) BY <1>1, AskedIs DEF CallOp
<1>4. k = [n |-> a.n, op |-> a.op, chan |-> a.chan, at |-> a.at, text |-> a.text, temp |-> a.temp,
           select |-> s, served |-> a.served, page |-> a.page, stale |-> a.stale]
  BY <1>2, <1>3 DEF NewCall, CallTyped, CallShape
<1>5. k.page = {} /\ k.served = "no" /\ k.at = 0 /\ k.op = "load" /\ k.chan = c BY <1>3, <1>4 DEF NewCall
<1>6. CallWell(k) BY <1>5, NewWell, ZeroIs
<1>7. calls' = K \cup {k} BY <1>1, <1>2
<1> QED BY <1>5, <1>6, <1>7 DEF Opening

LEMMA SelectKeepsWindow == ASSUME Base, Base', WindowWell, NEW c \in Chan, SelectChannel(c) PROVE WindowWell'
<1>1. /\ active' = c /\ UNCHANGED <<log, in, link, list>>
      /\ calls' = calls \cup {[Asked(calls, "load", c, 0) EXCEPT !.select = TRUE]}
  BY DEF SelectChannel, LoadChannel, server, socket
<1>2. (\A k \in calls' : CallWell(k)) /\ Opening(c)' BY <1>1, LoadAsked DEF Base, Good, WindowWell
<1> QED BY <1>1, <1>2, OpeningKeepsWindow

LEMMA JumpKeepsWindow == ASSUME Base, Base', WindowWell, NEW i, JumpToMessage(i) PROVE WindowWell'
<1>1. PICK c : c = log[i].chan OBVIOUS
<1>2. PICK k : k = Asked(calls, "around", c, i) OBVIOUS
<1>3. /\ active' = c /\ UNCHANGED <<log, in, link, list>> /\ calls' = calls \cup {k} /\ i \in DOMAIN log
  BY <1>1, <1>2 DEF JumpToMessage, server, socket, window
<1>4. c \in Chan /\ i \in 0..Len(log) BY <1>1, <1>3, OwnIs DEF Base
<1>5. CallWell(k) /\ k.op = "around" /\ k.chan = c BY <1>2, <1>4, AskedWell DEF Base, Good, CallOp
<1>6. (\A j \in calls' : CallWell(j)) /\ Opening(c)' BY <1>3, <1>5 DEF WindowWell, Opening
<1> QED BY <1>3, <1>6, OpeningKeepsWindow

LEMMA SocketKeepsWindow == ASSUME Base, Base', WindowWell, NEW near, Connect \/ Resync(near) PROVE WindowWell'
<1>1. CASE Connect \/ (Resync(near) /\ ~near)
  <2>1. /\ UNCHANGED <<log, in, active, list, viewing, complete, strayed, calls>>
        /\ link' = link \/ link' = "up"
    BY <1>1 DEF Connect, Resync, server, socket, window, pane, ghosts
  <2> QED BY <2>1, CallsKeepWindow DEF WindowWell
<1>2. CASE Resync(near) /\ near
  <2>1. /\ UNCHANGED <<log, in, link, list, active>>
        /\ calls' = calls \cup {[Asked(calls, "load", active, 0) EXCEPT !.select = FALSE]}
    BY <1>2 DEF Resync, LoadChannel, server
  <2>2. PICK c \in Chan : c = active BY DEF Base
  <2>3. (\A k \in calls' : CallWell(k)) /\ Opening(c)' BY <2>1, <2>2, LoadAsked DEF Base, Good, WindowWell
  <2> QED BY <2>1, <2>2, <2>3, OpeningKeepsWindow
<1> QED BY <1>1, <1>2

\* The last frame about a message says how it is.
LEMMA LastSays ==
  ASSUME Base, FramesTrue, NEW i, Coming(i)
  PROVE  \E f \in ToSet(in) : f.id = i /\ f.chan = log[i].chan /\ f.ver = log[i].ver
<1>1. Len(in) \in Nat /\ DOMAIN in = 1..Len(in) /\ ToSet(in) = {in[p] : p \in DOMAIN in} BY DEF Base, FramesTyped, ToSet
<1>2. PICK T : T = {p \in DOMAIN in : in[p].id = i} OBVIOUS
<1>3. T \in SUBSET (0..Len(in)) /\ T # {} BY <1>1, <1>2 DEF Coming
<1>4. PICK p \in T : \A q \in T : q <= p BY <1>1, <1>3, GreatestNat
<1>5. p \in DOMAIN in /\ in[p].id = i BY <1>2
<1>6. ~ \E q \in DOMAIN in : q > p /\ in[q].id = i BY <1>1, <1>2, <1>4
<1>7. in[p].chan = log[i].chan /\ in[p].ver = log[i].ver BY <1>5, <1>6 DEF FramesTrue, FrameTrue
<1>8. in[p] \in ToSet(in) BY <1>1, <1>5
<1> QED BY <1>5, <1>7, <1>8

LEMMA LosePasses ==
  ASSUME Base, FramesTrue, UNCHANGED log, in' = <<>>
  PROVE  \A c : Passes(c, ToSet(in))
<1> SUFFICES ASSUME NEW c PROVE Passes(c, ToSet(in)) OBVIOUS
<1>1. Len(log) \in Nat BY OwnIs DEF Base
<1>2. Own(c)' = Own(c) BY DEF Own
<1>3. \A i \in Own(c) : log[i].chan = c BY DEF Own
<1>4. ASSUME NEW i \in Own(c), Coming(i) PROVE \E f \in ToSet(in) : f.id = i /\ f.chan = c /\ f.ver = log'[i].ver
  BY <1>3, <1>4, LastSays
<1>5. \A i \in Own(c) : Awaited(i) => Came(i, c, ToSet(in))
  <2>1. \A i : Awaited(i) => Coming(i) BY DEF Awaited, Coming
  <2> QED BY <1>4, <2>1 DEF Came
<1> QED BY <1>1, <1>2, <1>4, <1>5 DEF Passes

LEMMA LoseKeepsWindow == ASSUME Base, Base', WindowWell, Drop \/ Sleep PROVE WindowWell'
<1>1. /\ in' = <<>> /\ calls' = Overtaken(calls, ToSet(in)) /\ strayed' = strayed \cup {f.chan : f \in ToSet(in)}
      /\ UNCHANGED <<log, active, list, viewing, complete>>
  BY DEF Drop, Sleep, Lose, window
<1>2. LogTyped /\ LogTyped' /\ CallsTyped(calls) /\ FramesTrue /\ ListTyped /\ \A k \in calls : CallWell(k)
  BY DEF Base, Good, WindowWell
<1>3. PICK F : F = ToSet(in) OBVIOUS
<1>4. \A c : Passes(c, F) BY <1>1, <1>2, <1>3, LosePasses
<1>5. \A m \in calls' : CallWell(m)' BY <1>1, <1>2, <1>3, <1>4, CallsPass
<1>6. FramesTrue' BY <1>1 DEF FramesTrue
<1>7. ListTyped' BY <1>1, <1>2, <1>4, ListStays DEF Passes
<1>8. ASSUME NEW c \in Chan, Shown(c)' PROVE Whole(c)'
  <2>1. c = active /\ c \notin strayed /\ \A f \in F : f.chan # c BY <1>1, <1>3, <1>8 DEF Shown
  <2>2. ~Opening(c)
    <3> SUFFICES ASSUME NEW k \in calls, k.chan = c, k.op \in {"load", "around"} PROVE Opening(c)'
      BY <1>8 DEF Shown, Opening
    <3>1. MarkedBy(k, F) \in calls' /\ SameCall(k, MarkedBy(k, F)) BY <1>1, <1>2, <1>3, OvertakenIs
    <3> QED BY <3>1 DEF Opening, SameCall
  <2>3. Whole(c) BY <2>1, <2>2 DEF WindowWell, Shown
  <2>4. Passes(c, {}) BY <1>4, <2>1, PassesClear
  <2> QED BY <1>1, <1>2, <2>3, <2>4, WholeStays
<1> QED BY <1>5, <1>6, <1>7, <1>8 DEF WindowWell

-----------------------------------------------------------------------------
(* Answers. *)
\* What an answer that may be believed says.
LEMMA Believed ==
  ASSUME Base, WindowWell, NEW k \in calls, k.op # "send", k.served = "yes"
  PROVE  /\ Msgs(k.page, k.chan) /\ k.at \in 0..Len(log) /\ k.at \in Nat
         /\ k.op = "older" => \A m \in k.page : m.id < k.at
         /\ k.op = "newer" => \A m \in k.page : m.id > k.at
         /\ ~k.stale => PageTrue(k)
<1>1. CallWell(k) BY DEF WindowWell
<1> QED BY <1>1, OwnIs DEF CallWell, PageTyped, Base

\* A list that is replaced.
LEMMA ReplacedTyped ==
  ASSUME WindowWell, UNCHANGED log, NEW c \in Chan, NEW S, Msgs(S, c), list' = Replaced(c, S)
  PROVE  ListTyped' /\ list'[c] = S /\ \A d \in Chan \ {c} : list'[d] = list[d]
<1>1. /\ list' \in [Chan -> SUBSET MsgSet] /\ list'[c] = S
      /\ \A d \in Chan \ {c} : list'[d] = list[d]
  BY DEF Replaced, WindowWell, ListTyped, Msgs
<1>2. \A d \in Chan : \A T : Msgs(T, d) => Msgs(T, d)' BY DEF Msgs, Own
<1>3. \A d \in Chan : Msgs(list'[d], d) BY <1>1 DEF WindowWell, ListTyped
<1>4. \A d \in Chan : Msgs(list[d], d)'
  <2> TAKE d \in Chan
  <2>1. PICK T : T = list'[d] OBVIOUS
  <2>2. Msgs(T, d)' BY <1>2, <1>3, <2>1
  <2> QED BY <2>1, <2>2 DEF Msgs
<1> QED BY <1>1, <1>4 DEF ListTyped

\* What the window is to be, with the log and the frames as they were.
LEMMA WholeIs ==
  ASSUME UNCHANGED <<log, in>>, NEW c, NEW S, list'[c] = S,
         \A m \in S : m.ver = log[m.id].ver \/ Coming(m.id),
         \A i \in Own(c) : i >= Oldest(S) /\ (c \in viewing' => i <= Newest(S)) => i \in Ids(S) \/ Awaited(i),
         c \in complete' => \A i \in Own(c) : i >= Oldest(S) \/ Awaited(i)
  PROVE  Whole(c)'
<1>1. Own(c)' = Own(c) /\ \A i : Coming(i)' = Coming(i) /\ Awaited(i)' = Awaited(i) BY DEF Own, Coming, Awaited
<1> QED BY <1>1 DEF Whole

LEMMA LoadKeepsWindow == ASSUME Base, Base', WindowWell, NEW k \in calls, AnswerLoad(k) PROVE WindowWell'
<1>1. /\ k.op = "load" /\ LoadAnswered(k) /\ calls' = calls \ {k} /\ k.served # "no"
      /\ UNCHANGED <<log, in, link, active, viewing>>
  BY DEF AnswerLoad, server, socket
<1>2. \A j \in calls' : CallWell(j) BY <1>1 DEF WindowWell
<1>3. k.chan \in Chan /\ k.served \in {"yes", "failed"} BY <1>1 DEF Base, Good, CallsTyped, CallTyped
<1>4. CASE k.chan # active
  <2>1. UNCHANGED <<list, complete, strayed>> BY <1>1, <1>4 DEF LoadAnswered
  <2>2. ListTyped' BY <1>1, <2>1, SameList
  <2>3. ASSUME NEW c \in Chan, Shown(c)' PROVE Whole(c)'
    <3>1. Shown(c) BY <1>1, <1>4, <2>1, <2>3 DEF Shown, Opening
    <3> QED BY <1>1, <2>1, <3>1, SameWhole
  <2> QED BY <1>1, <1>2, <2>2, <2>3, WindowIs
<1>5. CASE k.chan = active /\ k.served = "failed"
  <2>1. UNCHANGED list /\ strayed' = strayed \cup {active} BY <1>1, <1>5 DEF LoadAnswered
  <2>2. ListTyped' BY <1>1, <2>1, SameList
  <2>3. \A c \in Chan : ~Shown(c)' BY <1>1, <2>1 DEF Shown
  <2> QED BY <1>1, <1>2, <2>2, <2>3, WindowIs
<1>6. CASE k.chan = active /\ k.served = "yes"
  <2>1. /\ list' = Replaced(k.chan, k.page)
        /\ complete' = IF Cardinality(k.page) < Page THEN complete \cup {k.chan} ELSE complete \ {k.chan}
        /\ strayed' = IF k.stale THEN strayed \cup {k.chan} ELSE strayed \ {k.chan}
    BY <1>1, <1>6 DEF LoadAnswered, Anew
  <2>2. PICK S : S = k.page OBVIOUS
  <2>3. Msgs(S, k.chan) /\ (~k.stale => PageTrue(k)) BY <1>1, <1>6, <2>2, Believed
  <2>4. ListTyped' /\ list'[k.chan] = S BY <1>1, <1>3, <2>1, <2>2, <2>3, ReplacedTyped
  <2>5. ASSUME NEW c \in Chan, Shown(c)' PROVE Whole(c)'
    <3>1. c = k.chan /\ ~k.stale BY <1>1, <1>6, <2>1, <2>5 DEF Shown
    <3>2. /\ \A m \in S : m.ver = log[m.id].ver \/ Coming(m.id)
          /\ \A i \in Own(c) : Short(k) \/ i >= Oldest(S) => i \in Ids(S) \/ (i > Newest(S) /\ Awaited(i))
      BY <1>1, <2>2, <2>3, <3>1 DEF PageTrue, PageFresh, LoadWhole
    <3>3. \A i \in Ids(S) : i >= Oldest(S)
      <4>1. \A i \in Ids(S) : i \in 1..Len(log) /\ Oldest(S) <= i /\ Oldest(S) \in Nat BY <2>3, MsgsBound DEF Base
      <4> QED BY <4>1, OwnIs DEF Base
    <3>4. c \in complete' => Short(k) BY <2>1, <3>1 DEF Short
    <3> QED BY <1>1, <2>4, <3>1, <3>2, <3>3, <3>4, WholeIs
  <2> QED BY <1>1, <1>2, <2>4, <2>5, WindowIs
<1> QED BY <1>3, <1>4, <1>5, <1>6

LEMMA AroundKeepsWindow == ASSUME Base, Base', WindowWell, NEW k \in calls, AnswerAround(k) PROVE WindowWell'
<1>1. k.op = "around" /\ k.served # "no" /\ UNCHANGED <<log, in, link, active>> BY DEF AnswerAround, server, socket
<1>2. k.chan \in Chan /\ CallsTyped(calls \ {k}) BY LessIs DEF Base, Good, CallsTyped, CallTyped
<1>3. PICK rest : rest = calls \ {k} OBVIOUS
<1>4. CASE k.chan = active /\ k.served = "yes"
  <2>1. /\ list' = Replaced(k.chan, k.page) /\ complete' = complete \ {k.chan} /\ viewing' = viewing \cup {k.chan}
        /\ calls' = rest \/ calls' = rest \cup {Asked(rest, "newer", k.chan, Newest(k.page))}
        /\ strayed' = IF k.stale THEN strayed \cup {k.chan} ELSE strayed \ {k.chan}
    BY <1>3, <1>4 DEF AnswerAround, Anew
  <2>2. PICK S : S = k.page OBVIOUS
  <2>3. Msgs(S, k.chan) /\ (~k.stale => PageTrue(k)) BY <1>1, <1>4, <2>2, Believed
  <2>4. ListTyped' /\ list'[k.chan] = S BY <1>1, <1>2, <2>1, <2>2, <2>3, ReplacedTyped
  <2>5. \A j \in calls' : CallWell(j)
    <3>1. PICK m : m = Asked(rest, "newer", k.chan, Newest(S)) OBVIOUS
    <3>2. Newest(S) \in 0..Len(log) BY <2>3, MsgsBound DEF Base
    <3>3. CallWell(m) BY <1>2, <1>3, <3>1, <3>2, AskedWell DEF CallOp
    <3> QED BY <1>3, <2>1, <2>2, <3>1, <3>3 DEF WindowWell
  <2>6. ASSUME NEW c \in Chan, Shown(c)' PROVE Whole(c)'
    <3>1. c = k.chan /\ ~k.stale BY <1>1, <1>4, <2>1, <2>6 DEF Shown
    <3>2. /\ \A m \in S : m.ver = log[m.id].ver \/ Coming(m.id)
          /\ \A i \in Own(c) : i >= Oldest(S) /\ i <= Newest(S) => i \in Ids(S)
      BY <1>1, <2>2, <2>3, <3>1 DEF PageTrue, PageFresh, AroundWhole
    <3>3. c \in viewing' /\ c \notin complete' BY <2>1, <3>1
    <3> QED BY <1>1, <2>4, <3>1, <3>2, <3>3, WholeIs
  <2> QED BY <1>1, <2>4, <2>5, <2>6, WindowIs
<1>5. CASE ~(k.chan = active /\ k.served = "yes")
  <2>1. /\ calls' = rest /\ UNCHANGED <<list, complete, viewing>>
        /\ strayed' = IF k.chan = active THEN strayed \cup {k.chan} ELSE strayed
    BY <1>3, <1>5 DEF AnswerAround, window
  <2>2. ListTyped' BY <1>1, <2>1, SameList
  <2>3. ASSUME NEW c \in Chan, Shown(c)' PROVE Whole(c)'
    <3>1. Shown(c) BY <1>1, <1>3, <2>1, <2>3 DEF Shown, Opening
    <3> QED BY <1>1, <2>1, <3>1, SameWhole
  <2>4. \A j \in calls' : CallWell(j) BY <1>3, <2>1 DEF WindowWell
  <2> QED BY <1>1, <2>2, <2>3, <2>4, WindowIs
<1> QED BY <1>4, <1>5

\* A page joined to what is loaded.
LEMMA SplicedIs ==
  ASSUME WindowWell, UNCHANGED log, NEW c \in Chan, NEW P, Msgs(P, c), list' = Spliced(c, P)
  PROVE  /\ ListTyped' /\ Msgs(list'[c], c)
         /\ (\A i : i \in Ids(list'[c]) <=> i \in Ids(list[c]) \/ i \in Ids(P))
         /\ list'[c] \subseteq list[c] \cup P
         /\ (P = {} => list'[c] = list[c])
         /\ (\A d \in Chan \ {c} : list'[d] = list[d])
<1>1. PICK S : S = list[c] OBVIOUS
<1>2. PICK T : T = S \cup {x \in P : x.id \notin Ids(S)} OBVIOUS
<1>3. list \in [Chan -> SUBSET MsgSet] /\ Msgs(S, c) BY <1>1 DEF WindowWell, ListTyped
<1>4. list' = Replaced(c, T) BY <1>1, <1>2, <1>3 DEF Spliced, Replaced
<1>5. \A m \in S : m.id \in Ids(S) BY DEF Ids
<1>6. Msgs(T, c) BY <1>2, <1>3, <1>5 DEF Msgs, Single
<1>7. ListTyped' /\ list'[c] = T /\ \A d \in Chan \ {c} : list'[d] = list[d] BY <1>4, <1>6, ReplacedTyped
<1>8. Ids(T) = Ids(S) \cup Ids(P) BY <1>2 DEF Ids
<1>9. T \subseteq S \cup P /\ (P = {} => T = S) BY <1>2
<1>10. Msgs(list'[c], c) BY <1>6, <1>7
<1>11. \A i : i \in Ids(list'[c]) <=> i \in Ids(list[c]) \/ i \in Ids(P) BY <1>1, <1>7, <1>8
<1>12. list'[c] \subseteq list[c] \cup P BY <1>1, <1>7, <1>9
<1>13. P = {} => list'[c] = list[c] BY <1>1, <1>7, <1>9
<1> QED BY <1>7, <1>10, <1>11, <1>12, <1>13

LEMMA OlderKeepsWindow == ASSUME Base, Base', WindowWell, NEW k \in calls, AnswerOlder(k) PROVE WindowWell'
<1>1. /\ k.op = "older" /\ k.served # "no" /\ calls' = calls \ {k} /\ UNCHANGED <<log, in, link, active, viewing>>
  BY DEF AnswerOlder, server, socket
<1>2. k.chan \in Chan /\ k.served \in {"yes", "failed"} BY <1>1 DEF Base, Good, CallsTyped, CallTyped
<1>3. \A j \in calls' : CallWell(j) BY <1>1 DEF WindowWell
<1>4. \A c : Opening(c) => Opening(c)' BY <1>1 DEF Opening
<1>5. CASE k.served = "failed"
  <2>1. UNCHANGED <<list, complete, strayed>> BY <1>5 DEF AnswerOlder
  <2>2. \A j \in calls : j.op \in {"load", "around"} => j \in calls' BY <1>1
  <2> QED BY <1>1, <1>3, <2>1, <2>2, CallsKeepWindow
<1>6. CASE k.served = "yes"
  <2>1. /\ complete' = IF Cardinality(k.page) < Page THEN complete \cup {k.chan} ELSE complete
        /\ list' = Spliced(k.chan, k.page)
        /\ strayed' = IF k.stale \/ k.at # Oldest(list[k.chan]) THEN strayed \cup {k.chan} ELSE strayed
    BY <1>6 DEF AnswerOlder, PageStrays
  <2>2. PICK P : P = k.page OBVIOUS
  <2>3. Msgs(P, k.chan) /\ (~k.stale => PageTrue(k)) /\ k.at \in Nat /\ \A m \in P : m.id < k.at
    BY <1>1, <1>6, <2>2, Believed
  <2>4. PICK S : S = list[k.chan] OBVIOUS
  <2>5. PICK T : T = list'[k.chan] OBVIOUS
  <2>6. /\ ListTyped' /\ Msgs(T, k.chan) /\ Ids(T) = Ids(S) \cup Ids(P) /\ T \subseteq S \cup P /\ (P = {} => T = S)
        /\ \A d \in Chan \ {k.chan} : list'[d] = list[d]
    <3>1. Msgs(P, k.chan) /\ list' = Spliced(k.chan, P) /\ UNCHANGED log BY <1>1, <2>1, <2>2, <2>3
    <3>2. /\ ListTyped' /\ Msgs(list'[k.chan], k.chan)
          /\ \A i : i \in Ids(list'[k.chan]) <=> i \in Ids(list[k.chan]) \/ i \in Ids(P)
          /\ list'[k.chan] \subseteq list[k.chan] \cup P
          /\ P = {} => list'[k.chan] = list[k.chan]
          /\ \A d \in Chan \ {k.chan} : list'[d] = list[d]
      BY <1>2, <3>1, SplicedIs
    <3> QED BY <2>4, <2>5, <3>2
  <2>7. Msgs(S, k.chan) BY <1>2, <2>4 DEF WindowWell, ListTyped
  <2>8. ASSUME NEW c \in Chan, Shown(c)' PROVE Whole(c)'
    <3>1. Shown(c) /\ Whole(c) BY <1>1, <1>4, <2>1, <2>8 DEF Shown, WindowWell
    <3>2. CASE c # k.chan
      <4>1. list'[c] = list[c] /\ (c \in complete' => c \in complete) BY <2>1, <2>6, <3>2
      <4> QED BY <1>1, <3>1, <4>1, SameWhole
    <3>3. CASE c = k.chan
      <4>1. ~k.stale /\ k.at = Oldest(S) BY <2>1, <2>4, <2>8, <3>3 DEF Shown
      <4>2. /\ \A m \in P : m.ver = log[m.id].ver \/ Coming(m.id)
            /\ \A i \in Own(c) : i < k.at /\ (Short(k) \/ i >= Oldest(P)) => i \in Ids(P)
        BY <1>1, <2>2, <2>3, <3>3, <4>1 DEF PageTrue, PageFresh, OlderWhole
      <4>3. /\ \A m \in S : m.ver = log[m.id].ver \/ Coming(m.id)
            /\ \A i \in Own(c) : i >= Oldest(S) /\ (c \in viewing => i <= Newest(S)) => i \in Ids(S) \/ Awaited(i)
            /\ c \in complete => \A i \in Own(c) : i >= Oldest(S) \/ Awaited(i)
        BY <2>4, <3>1, <3>3 DEF Whole
      <4>4. \A m \in T : m.ver = log[m.id].ver \/ Coming(m.id) BY <2>6, <4>2, <4>3
      <4>5. \A i \in Own(c) : i \in 1..Len(log) /\ i \in Nat BY OwnIs DEF Base
      <4>6. c \in complete' => c \in complete \/ Short(k) BY <2>1, <3>3 DEF Short
      <4>7. CASE S = {}
        <5>1. Oldest(S) = 0 BY <2>7, <4>7, MsgsBound DEF Base
        <5>2. P = {}
          <6>1. \A m \in P : m.id \in Nat BY <2>3 DEF Msgs, MsgSet
          <6> QED BY <2>3, <4>1, <5>1, <6>1
        <5>3. T = S BY <2>6, <5>2
        <5>4. \A i \in Own(c) : i >= Oldest(S) BY <4>5, <5>1
        <5> QED BY <1>1, <2>5, <3>3, <4>3, <5>3, <5>4, WholeIs
      <4>8. CASE S # {}
        <5>1. /\ Oldest(S) \in Nat /\ Oldest(S) \in Ids(S) /\ \A i \in Ids(S) : i \in Nat /\ Oldest(S) <= i /\ i <= Newest(S)
          BY <2>7, <4>8, MsgsBound, OwnIs DEF Base
        <5>2. \A i \in Ids(P) : i \in Nat /\ Oldest(P) <= i /\ i < k.at
          <6>1. \A i \in Ids(P) : i \in 1..Len(log) /\ Oldest(P) <= i /\ \E m \in P : m.id = i BY <2>3, MsgsBound DEF Base
          <6> QED BY <2>3, <6>1
        <5>3. T # {} /\ Oldest(T) \in Nat /\ Oldest(T) \in Ids(T) /\ Newest(T) \in Ids(T) /\ Newest(T) \in Nat
              /\ \A i \in Ids(T) : Oldest(T) <= i
          <6>1. T # {} BY <2>6, <5>1 DEF Ids
          <6> QED BY <2>6, <6>1, MsgsBound, OwnIs DEF Base
        <5>4. Newest(S) \in Nat BY <2>7, MsgsBound DEF Base
        <5>5. Oldest(P) \in Nat BY <2>3, MsgsBound DEF Base
        <5>6. ASSUME NEW i \in Own(c), i >= Oldest(T), c \in viewing' => i <= Newest(T) PROVE i \in Ids(T) \/ Awaited(i)
          <6>1. CASE i >= k.at
            <7>1. c \in viewing => i <= Newest(S)
              <8> SUFFICES ASSUME c \in viewing PROVE i <= Newest(S) OBVIOUS
              <8>1. i <= Newest(T) BY <1>1, <5>6
              <8>2. Newest(T) \notin Ids(P) BY <2>3, <4>5, <5>2, <5>3, <6>1, <8>1
              <8>3. Newest(T) <= Newest(S) BY <2>6, <5>1, <5>3, <8>2
              <8> QED BY <4>5, <5>3, <5>4, <8>1, <8>3
            <7> QED BY <2>6, <4>1, <4>3, <6>1, <7>1
          <6>2. CASE ~(i >= k.at)
            <7>1. i < k.at BY <2>3, <4>5, <6>2
            <7>2. Oldest(T) \notin Ids(S) BY <4>1, <4>5, <5>1, <5>3, <5>6, <7>1
            <7>3. Oldest(P) <= Oldest(T) BY <2>6, <5>2, <5>3, <7>2
            <7>4. i >= Oldest(P) BY <4>5, <5>3, <5>5, <5>6, <7>3
            <7> QED BY <2>6, <4>2, <7>1, <7>4
          <6> QED BY <6>1, <6>2
        <5>7. ASSUME c \in complete', NEW i \in Own(c) PROVE i >= Oldest(T) \/ Awaited(i)
          <6>1. Oldest(T) <= Oldest(S) BY <2>6, <5>1, <5>3
          <6>2. i >= Oldest(S) => i >= Oldest(T) BY <4>5, <5>1, <5>3, <6>1
          <6>3. CASE c \in complete BY <4>3, <6>2, <6>3
          <6>4. CASE Short(k)
            <7>1. i < k.at => i \in Ids(T) BY <2>6, <4>2, <6>4
            <7>2. i \in Ids(T) => i >= Oldest(T) BY <4>5, <5>3
            <7>3. i < k.at \/ i >= Oldest(S) BY <2>3, <4>1, <4>5
            <7> QED BY <6>2, <7>1, <7>2, <7>3
          <6> QED BY <4>6, <5>7, <6>3, <6>4
        <5> QED BY <1>1, <2>5, <3>3, <4>4, <5>6, <5>7, WholeIs
      <4> QED BY <4>7, <4>8
    <3> QED BY <3>2, <3>3
  <2> QED BY <1>1, <1>3, <2>6, <2>8, WindowIs
<1> QED BY <1>2, <1>5, <1>6

\* The window once a page is appended to it.
LEMMA AppendedIs ==
  ASSUME Base, NEW c \in Chan, NEW k, NEW S, NEW T, Msgs(S, c), Msgs(k.page, c), Msgs(T, c),
         k.chan = c, k.at = Newest(S), \A m \in k.page : m.id > k.at, NewerWhole(k),
         Ids(T) = Ids(S) \cup Ids(k.page), NEW V, NEW W, c \in V => c \in W \/ Short(k),
         \A i \in Own(c) : i >= Oldest(S) /\ (c \in V => i <= Newest(S)) => i \in Ids(S) \/ Awaited(i)
  PROVE  /\ \A i \in Own(c) : i >= Oldest(T) /\ (c \in W => i <= Newest(T)) => i \in Ids(T) \/ Awaited(i)
         /\ \A i \in Own(c) : i >= Oldest(S) => i >= Oldest(T)
<1>0. PICK P : P = k.page OBVIOUS
<1>1. \A i \in Own(c) : i \in 1..Len(log) /\ i \in Nat BY OwnIs DEF Base
<1>2. /\ Oldest(S) \in Nat /\ Newest(S) \in Nat /\ (S = {} => Oldest(S) = 0 /\ Newest(S) = 0)
      /\ (S # {} => Oldest(S) \in Ids(S))
      /\ \A i \in Ids(S) : i \in Nat /\ Oldest(S) <= i /\ i <= Newest(S)
  BY MsgsBound DEF Base
<1>3. /\ Newest(P) \in Nat /\ (P # {} => Newest(P) \in Ids(P))
      /\ \A i \in Ids(P) : i \in Nat /\ i <= Newest(P) /\ i > k.at
  <2>1. /\ Newest(P) \in Nat /\ (P # {} => Newest(P) \in Ids(P))
        /\ \A i \in Ids(P) : i \in 1..Len(log) /\ i <= Newest(P) /\ \E m \in P : m.id = i
    BY <1>0, MsgsBound DEF Base
  <2> QED BY <1>0, <2>1
<1>4. /\ Oldest(T) \in Nat /\ Newest(T) \in Nat /\ (T = {} => Oldest(T) = 0 /\ Newest(T) = 0)
      /\ (T # {} => Oldest(T) \in Ids(T) /\ Newest(T) \in Ids(T))
      /\ \A i \in Ids(T) : i \in Nat /\ Oldest(T) <= i /\ i <= Newest(T)
  BY MsgsBound DEF Base
<1>5. Ids(T) = Ids(S) \cup Ids(P) /\ (S # {} => T # {}) BY <1>0, <1>2 DEF Ids
<1>6. Oldest(S) <= Oldest(T)
  <2>1. CASE T = {} BY <1>2, <1>4, <1>5, <2>1
  <2>2. CASE T # {} BY <1>2, <1>3, <1>4, <1>5, <2>2
  <2> QED BY <2>1, <2>2
<1>7. ASSUME NEW i \in Own(c), i > k.at
      PROVE  (i <= Newest(P) => i \in Ids(P)) /\ (Short(k) => i \in Ids(P) \/ Awaited(i))
  BY <1>0, <1>7 DEF NewerWhole
<1>8. ASSUME NEW i \in Own(c), i >= Oldest(T), c \in W => i <= Newest(T) PROVE i \in Ids(T) \/ Awaited(i)
  <2>1. i >= Oldest(S) BY <1>1, <1>2, <1>4, <1>6, <1>8
  <2>2. CASE i <= Newest(S) \/ c \notin V BY <1>5, <2>1, <2>2
  <2>3. CASE ~(i <= Newest(S)) /\ c \in V
    <3>1. i > k.at BY <1>1, <1>2, <2>3
    <3>2. CASE Short(k) BY <1>5, <1>7, <3>1, <3>2
    <3>3. CASE ~Short(k)
      <4>1. i <= Newest(T) BY <1>8, <2>3, <3>3
      <4>2. Newest(T) \notin Ids(S) BY <1>1, <1>2, <1>4, <2>3, <4>1
      <4>3. T # {} BY <1>1, <1>4, <4>1
      <4>4. Newest(T) <= Newest(P) BY <1>3, <1>4, <1>5, <4>2, <4>3
      <4>5. i <= Newest(P) BY <1>1, <1>3, <1>4, <4>1, <4>4
      <4> QED BY <1>5, <1>7, <3>1, <4>5
    <3> QED BY <3>2, <3>3
  <2> QED BY <2>2, <2>3
<1>9. ASSUME NEW i \in Own(c), i >= Oldest(S) PROVE i >= Oldest(T)
  <2>1. CASE S # {} BY <1>1, <1>2, <1>4, <1>5, <1>9, <2>1
  <2>2. CASE S = {}
    <3>1. i > k.at BY <1>1, <1>2, <2>2
    <3>2. CASE i <= Newest(P) BY <1>1, <1>4, <1>5, <1>7, <3>1, <3>2
    <3>3. CASE ~(i <= Newest(P))
      <4>1. CASE P = {}
        <5>1. T = {} BY <1>4, <1>5, <2>2, <4>1 DEF Ids
        <5> QED BY <1>1, <1>4, <5>1
      <4>2. CASE P # {} BY <1>1, <1>3, <1>4, <1>5, <3>3, <4>2
      <4> QED BY <4>1, <4>2
    <3> QED BY <3>2, <3>3
  <2> QED BY <2>1, <2>2
<1> QED BY <1>8, <1>9

LEMMA NewerKeepsWindow == ASSUME Base, Base', WindowWell, NEW k \in calls, AnswerNewer(k) PROVE WindowWell'
<1>1. /\ k.op = "newer" /\ k.served # "no" /\ calls' = calls \ {k} /\ UNCHANGED <<log, in, link, active, complete>>
  BY DEF AnswerNewer, server, socket
<1>2. k.chan \in Chan /\ k.served \in {"yes", "failed"} BY <1>1 DEF Base, Good, CallsTyped, CallTyped
<1>3. \A j \in calls' : CallWell(j) BY <1>1 DEF WindowWell
<1>4. \A c : Opening(c) => Opening(c)' BY <1>1 DEF Opening
<1>5. CASE k.served = "failed"
  <2>1. UNCHANGED <<list, viewing, strayed>> BY <1>5 DEF AnswerNewer
  <2>2. \A j \in calls : j.op \in {"load", "around"} => j \in calls' BY <1>1
  <2> QED BY <1>1, <1>3, <2>1, <2>2, CallsKeepWindow
<1>6. CASE k.served = "yes"
  <2>1. /\ viewing' = IF Cardinality(k.page) < Page THEN viewing \ {k.chan} ELSE viewing
        /\ list' = IF k.chan = active THEN Spliced(k.chan, k.page) ELSE list
        /\ strayed' = IF k.stale \/ k.at # Newest(list[k.chan]) THEN strayed \cup {k.chan} ELSE strayed
    BY <1>6 DEF AnswerNewer, PageStrays
  <2>2. Msgs(k.page, k.chan) /\ (~k.stale => PageTrue(k)) /\ \A m \in k.page : m.id > k.at
    BY <1>1, <1>6, Believed
  <2>3. CASE k.chan # active
    <3>1. UNCHANGED list BY <2>1, <2>3
    <3>2. ListTyped' BY <1>1, <3>1, SameList
    <3>3. ASSUME NEW c \in Chan, Shown(c)' PROVE Whole(c)'
      <4>1. c # k.chan /\ Shown(c) BY <1>1, <1>4, <2>1, <2>3, <3>3 DEF Shown
      <4>2. (c \in viewing') = (c \in viewing) BY <2>1, <4>1
      <4> QED BY <1>1, <3>1, <4>1, <4>2, SameWhole
    <3> QED BY <1>1, <1>3, <3>2, <3>3, WindowIs
  <2>4. CASE k.chan = active
    <3>1. PICK S : S = list[k.chan] OBVIOUS
    <3>2. PICK T : T = list'[k.chan] OBVIOUS
    <3>3. /\ ListTyped' /\ Msgs(list'[k.chan], k.chan)
          /\ \A i : i \in Ids(list'[k.chan]) <=> i \in Ids(list[k.chan]) \/ i \in Ids(k.page)
          /\ list'[k.chan] \subseteq list[k.chan] \cup k.page
      <4>1. list' = Spliced(k.chan, k.page) /\ UNCHANGED log BY <1>1, <2>1, <2>4
      <4>2. PICK P : P = k.page OBVIOUS
      <4> QED BY <1>2, <2>2, <4>1, <4>2, SplicedIs
    <3>4. Msgs(T, k.chan) /\ Ids(T) = Ids(S) \cup Ids(k.page) /\ T \subseteq S \cup k.page BY <3>1, <3>2, <3>3
    <3>5. Msgs(S, k.chan) BY <1>2, <3>1 DEF WindowWell, ListTyped
    <3>6. ASSUME NEW c \in Chan, Shown(c)' PROVE Whole(c)'
      <4>1. c = k.chan /\ Shown(c) /\ Whole(c) /\ ~k.stale /\ k.at = Newest(S)
        BY <1>1, <1>4, <2>1, <2>4, <3>1, <3>6 DEF Shown, WindowWell
      <4>2. /\ \A m \in S : m.ver = log[m.id].ver \/ Coming(m.id)
            /\ \A i \in Own(c) : i >= Oldest(S) /\ (c \in viewing => i <= Newest(S)) => i \in Ids(S) \/ Awaited(i)
            /\ c \in complete => \A i \in Own(c) : i >= Oldest(S) \/ Awaited(i)
        BY <3>1, <4>1 DEF Whole
      <4>3. NewerWhole(k) /\ \A m \in k.page : m.ver = log[m.id].ver \/ Coming(m.id)
        BY <1>1, <2>2, <4>1 DEF PageTrue, PageFresh
      <4>4. PICK V : V = viewing OBVIOUS
      <4>5. PICK W : W = viewing' OBVIOUS
      <4>6. c \in V => c \in W \/ Short(k) BY <2>1, <4>4, <4>5 DEF Short
      <4>7. /\ \A i \in Own(c) : i >= Oldest(T) /\ (c \in W => i <= Newest(T)) => i \in Ids(T) \/ Awaited(i)
            /\ \A i \in Own(c) : i >= Oldest(S) => i >= Oldest(T)
        BY <2>2, <3>4, <3>5, <4>1, <4>2, <4>3, <4>4, <4>6, AppendedIs
      <4>8. \A m \in T : m.ver = log[m.id].ver \/ Coming(m.id) BY <3>4, <4>2, <4>3
      <4>9. list'[c] = T /\ (c \in complete' => c \in complete) BY <1>1, <3>2, <4>1
      <4>10. \A i \in Own(c) : i >= Oldest(T) /\ (c \in viewing' => i <= Newest(T)) => i \in Ids(T) \/ Awaited(i)
        BY <4>5, <4>7
      <4>11. c \in complete' => \A i \in Own(c) : i >= Oldest(T) \/ Awaited(i) BY <4>2, <4>7, <4>9
      <4> QED BY <1>1, <4>8, <4>9, <4>10, <4>11, WholeIs
    <3> QED BY <1>1, <1>3, <3>3, <3>6, WindowIs
  <2> QED BY <2>3, <2>4
<1> QED BY <1>2, <1>5, <1>6

\* A message put in the list.
LEMMA AddedIs ==
  ASSUME WindowWell, UNCHANGED log, NEW c \in Chan, NEW m \in MsgSet, m.id \in Own(c), list' = Added(c, m)
  PROVE  /\ ListTyped' /\ Msgs(list'[c], c)
         /\ (\A i : i \in Ids(list'[c]) <=> i \in Ids(list[c]) \/ i = m.id)
         /\ (\A x : x \in list'[c] <=> x = m \/ (x \in list[c] /\ x.id # m.id))
         /\ (\A d \in Chan \ {c} : list'[d] = list[d])
<1>1. PICK S : S = list[c] OBVIOUS
<1>2. PICK T : T = {x \in S : x.id # m.id} \cup {m} OBVIOUS
<1>3. list \in [Chan -> SUBSET MsgSet] /\ Msgs(S, c) BY <1>1 DEF WindowWell, ListTyped
<1>4. list' = Replaced(c, T) BY <1>1, <1>2, <1>3 DEF Added, Replaced
<1>5. Msgs(T, c) BY <1>2, <1>3 DEF Msgs, Single
<1>6. ListTyped' /\ list'[c] = T /\ \A d \in Chan \ {c} : list'[d] = list[d] BY <1>4, <1>5, ReplacedTyped
<1>7. \A i : i \in Ids(T) <=> i \in Ids(S) \/ i = m.id BY <1>2 DEF Ids
<1>8. \A x : x \in T <=> x = m \/ (x \in S /\ x.id # m.id) BY <1>2
<1> QED BY <1>1, <1>5, <1>6, <1>7, <1>8

\* The window once message n is in it; A: the messages awaited then.
LEMMA AddedWhole ==
  ASSUME Base, NEW c \in Chan, NEW S, NEW T, Msgs(S, c), Msgs(T, c), NEW n \in Own(c), NEW A,
         \A i : i \in Ids(T) <=> i \in Ids(S) \/ i = n,
         \A i \in Own(c) : i >= Oldest(S) => i \in Ids(S) \/ i \in A \/ i = n,
         n \in Ids(S) \/ \A i \in Own(c) : i > n => i \in A
  PROVE  /\ \A i \in Own(c) : i >= Oldest(T) => i \in Ids(T) \/ i \in A
         /\ \A i \in Own(c) : i >= Oldest(S) \/ i = n => i >= Oldest(T) \/ i \in A
<1>1. \A i \in Own(c) : i \in 1..Len(log) /\ i \in Nat BY OwnIs DEF Base
<1>2. /\ Oldest(S) \in Nat /\ (S = {} => Oldest(S) = 0) /\ (S # {} => Oldest(S) \in Ids(S))
      /\ \A i \in Ids(S) : i \in Nat /\ Oldest(S) <= i
  BY MsgsBound DEF Base
<1>3. n \in Ids(T) /\ T # {} BY DEF Ids
<1>4. /\ Oldest(T) \in Nat /\ Oldest(T) \in Ids(T)
      /\ \A i \in Ids(T) : i \in Nat /\ Oldest(T) <= i
  BY <1>3, MsgsBound DEF Base
<1>5. ASSUME NEW i \in Own(c), i >= Oldest(T) PROVE i \in Ids(T) \/ i \in A
  <2>1. CASE i >= Oldest(S) BY <2>1
  <2>2. CASE ~(i >= Oldest(S))
    <3>1. Oldest(T) = n /\ n \notin Ids(S) BY <1>1, <1>2, <1>4, <1>5, <2>2
    <3>2. i = n \/ i > n BY <1>1, <1>5, <3>1
    <3> QED BY <1>3, <3>1, <3>2
  <2> QED BY <2>1, <2>2
<1>6. ASSUME NEW i \in Own(c), i >= Oldest(S) \/ i = n PROVE i >= Oldest(T) \/ i \in A
  <2>1. CASE i = n BY <1>1, <1>3, <1>4, <2>1
  <2>2. CASE i >= Oldest(S) /\ S # {} BY <1>1, <1>2, <1>4, <2>2
  <2>3. CASE i # n /\ S = {}
    <3>1. i >= Oldest(S) /\ i \notin Ids(S) BY <1>1, <1>2, <2>3 DEF Ids
    <3> QED BY <2>3, <3>1
  <2> QED BY <1>6, <2>1, <2>2, <2>3
<1> QED BY <1>5, <1>6

LEMMA FramesSame == ASSUME FramesTrue, UNCHANGED <<log, in, link>> PROVE FramesTrue'
<1>1. \A p : FrameTrue(p)' = FrameTrue(p) BY DEF FrameTrue
<1> QED BY <1>1 DEF FramesTrue

LEMMA AwaitedAfter ==
  ASSUME Base, FramesTrue, NEW n, Awaited(n)
  PROVE  \A j \in DOMAIN log : j > n => Awaited(j)
<1>1. PICK p \in DOMAIN in : in[p].id = n /\ in[p].type = "new" BY DEF Awaited, ToSet
<1>2. \A j \in DOMAIN log : j > n => \E q \in DOMAIN in : in[q].type = "new" /\ in[q].id = j
  BY <1>1 DEF FramesTrue, FrameTrue
<1> QED BY <1>2 DEF Awaited, ToSet

LEMMA SentKeepsWindow ==
  ASSUME Base, Base', WindowWell, NEW k \in calls, k.op = "send", k.served = "yes", AnswerSend(k) PROVE WindowWell'
<1>1. PICK f : f = Frame("new", k.chan, k.at, Posted) OBVIOUS
<1>2. PICK n : n = k.at OBVIOUS
<1>3. PICK m : m = Msg(f) OBVIOUS
<1>4. /\ list' = Added(k.chan, m) /\ calls' = Overtaken(calls \ {k}, {f})
      /\ UNCHANGED <<log, in, link, active, viewing, complete>>
      /\ (k.chan \notin strayed' => /\ k.chan \notin strayed /\ k.chan \notin viewing
                                    /\ n \in Ids(list[k.chan]) \/ Awaited(n)
                                    /\ \A x \in list[k.chan] : x.id = n => x.ver = Posted)
      /\ strayed \subseteq strayed'
  <2>1. Sent(k) /\ UNCHANGED <<log, in, link, active, viewing, complete>> BY DEF AnswerSend, Unsent, server, socket
  <2> QED BY <1>1, <1>2, <1>3, <2>1 DEF Sent
<1>5. k.chan \in Chan /\ n \in Own(k.chan)
  BY <1>2 DEF Base, Good, CallsTyped, CallTyped, WindowWell, CallWell, PageTyped
<1>6. m.id = n /\ m.ver = Posted /\ m = [id |-> n, ver |-> Posted] BY <1>1, <1>2, <1>3 DEF Frame, Msg
<1>7. m \in MsgSet /\ n \in Nat /\ n \in DOMAIN log
  <2>1. n \in Nat /\ n \in DOMAIN log BY <1>5, OwnIs DEF Base
  <2> QED BY <1>6, <2>1 DEF MsgSet
<1>8. PICK c \in Chan : c = k.chan BY <1>5
<1>9. PICK S : S = list[c] OBVIOUS
<1>10. PICK T : T = list'[c] OBVIOUS
<1>11. /\ ListTyped' /\ Msgs(T, c) /\ (\A i : i \in Ids(T) <=> i \in Ids(S) \/ i = n)
       /\ (\A x : x \in T <=> x = m \/ (x \in S /\ x.id # n))
       /\ (\A d \in Chan \ {c} : list'[d] = list[d])
  <2>1. list' = Added(c, m) /\ UNCHANGED log /\ m.id \in Own(c) BY <1>4, <1>5, <1>6, <1>8
  <2> QED BY <1>6, <1>7, <1>9, <1>10, <2>1, AddedIs
<1>12. Msgs(S, c) BY <1>9 DEF WindowWell, ListTyped
<1>13. \A j \in calls' : CallWell(j)'
  <2>1. LogTyped /\ LogTyped' /\ CallsTyped(calls \ {k}) BY LessIs DEF Base, Good
  <2>2. \A d \in Chan : Passes(d, {f}) BY <1>4, <2>1, QuietPasses, PassesMore
  <2>3. \A j \in calls \ {k} : CallWell(j) BY DEF WindowWell
  <2> QED BY <1>4, <2>1, <2>2, <2>3, CallsPass
<1>14. \A d : Opening(d) => Opening(d)'
  <2> SUFFICES ASSUME NEW d, NEW j \in calls, j.chan = d, j.op \in {"load", "around"} PROVE Opening(d)' BY DEF Opening
  <2>1. j \in calls \ {k} /\ CallsTyped(calls \ {k}) BY LessIs DEF Base, Good
  <2>2. MarkedBy(j, {f}) \in calls' /\ SameCall(j, MarkedBy(j, {f})) BY <1>4, <2>1, OvertakenIs
  <2> QED BY <2>2 DEF Opening, SameCall
<1>15. ASSUME NEW d \in Chan, Shown(d)' PROVE Whole(d)'
  <2>1. Shown(d) /\ Whole(d) BY <1>4, <1>14, <1>15 DEF Shown, WindowWell
  <2>2. CASE d # c
    <3>1. list'[d] = list[d] BY <1>11, <2>2
    <3> QED BY <1>4, <2>1, <3>1, SameWhole
  <2>3. CASE d = c
    <3>1. /\ \A x \in S : x.ver = log[x.id].ver \/ Coming(x.id)
          /\ \A i \in Own(c) : i >= Oldest(S) /\ (c \in viewing => i <= Newest(S)) => i \in Ids(S) \/ Awaited(i)
          /\ c \in complete => \A i \in Own(c) : i >= Oldest(S) \/ Awaited(i)
      BY <1>9, <2>1, <2>3 DEF Whole
    <3>2. /\ c \notin viewing
          /\ n \in Ids(S) \/ Awaited(n)
          /\ \A x \in S : x.id = n => x.ver = Posted
      BY <1>4, <1>8, <1>9, <1>15, <2>3 DEF Shown
    <3>3. PICK A : A = {i \in Own(c) : Awaited(i)} OBVIOUS
    <3>4. n \in Ids(S) \/ \A i \in Own(c) : i > n => i \in A
      <4>1. Awaited(n) => \A i \in Own(c) : i > n => Awaited(i) BY AwaitedAfter DEF WindowWell, Own
      <4> QED BY <3>2, <3>3, <4>1
    <3>5. \A i \in Own(c) : i >= Oldest(S) => i \in Ids(S) \/ i \in A \/ i = n BY <3>1, <3>2, <3>3
    <3>6. n \in Own(c) BY <1>5, <1>8
    <3>7. /\ \A i \in Own(c) : i >= Oldest(T) => i \in Ids(T) \/ i \in A
          /\ \A i \in Own(c) : i >= Oldest(S) \/ i = n => i >= Oldest(T) \/ i \in A
      BY <1>11, <1>12, <3>4, <3>5, <3>6, AddedWhole
    <3>8. \A x \in T : x.ver = log[x.id].ver \/ Coming(x.id)
      <4>1. n \in Ids(S) => \E x \in S : x.id = n BY DEF Ids
      <4>2. Awaited(n) => Coming(n) BY DEF Awaited, Coming
      <4>3. Posted = log[n].ver \/ Coming(n) BY <3>1, <3>2, <4>1, <4>2
      <4> QED BY <1>6, <1>11, <3>1, <4>3
    <3>9. c \in complete' => \A i \in Own(c) : i >= Oldest(T) \/ Awaited(i) BY <1>4, <3>1, <3>3, <3>7
    <3>10. \A i \in Own(c) : i >= Oldest(T) /\ (c \in viewing' => i <= Newest(T)) => i \in Ids(T) \/ Awaited(i)
      BY <3>3, <3>7
    <3> QED BY <1>4, <1>10, <2>3, <3>8, <3>9, <3>10, WholeIs
  <2> QED BY <2>2, <2>3
<1>16. FramesTrue' BY <1>4, FramesSame DEF WindowWell
<1> QED BY <1>11, <1>13, <1>15, <1>16 DEF WindowWell

\* The first frame is taken off the queue.
LEMMA TakenIs ==
  ASSUME Base, Base', FramesTrue, in # <<>>, in' = Tail(in), UNCHANGED <<log, link>>, NEW f, f = Head(in)
  PROVE  /\ f \in FrameSet /\ f.id \in Own(f.chan) /\ (f.type = "delete" => f.ver = Deleted)
         /\ f.ver = log[f.id].ver \/ Coming(f.id)'
         /\ f.type = "new" => \A j \in DOMAIN log : j > f.id => Awaited(j)'
         /\ (\A i : Coming(i) => Coming(i)' \/ i = f.id)
         /\ (\A i : Awaited(i) => Awaited(i)' \/ (i = f.id /\ f.type = "new"))
         /\ FramesTrue'
<1>1. /\ Len(in) \in Nat \ {0} /\ DOMAIN in = 1..Len(in) /\ in[1] = f /\ f \in FrameSet
      /\ DOMAIN in' = 1..(Len(in) - 1) /\ \A p \in 1..(Len(in) - 1) : in'[p] = in[p + 1]
  BY DEF Base, FramesTyped
<1>2. /\ f.id \in DOMAIN log /\ f.chan = log[f.id].chan
      /\ f.type = "delete" => f.ver = Deleted
      /\ f.ver = log[f.id].ver \/ \E q \in DOMAIN in : q > 1 /\ in[q].id = f.id
      /\ f.type = "new" =>
           \A j \in DOMAIN log : j > f.id => \E q \in DOMAIN in : q > 1 /\ in[q].type = "new" /\ in[q].id = j
  <2>1. FrameTrue(1) BY <1>1 DEF FramesTrue
  <2> QED BY <1>1, <2>1 DEF FrameTrue
<1>3. ASSUME NEW q \in DOMAIN in, q > 1 PROVE in[q] \in ToSet(in')
  <2>1. q - 1 \in DOMAIN in' /\ in'[q - 1] = in[q] BY <1>1, <1>3
  <2> QED BY <2>1 DEF ToSet
<1>4. \A g \in ToSet(in) : g = f \/ g \in ToSet(in')
  <2> SUFFICES ASSUME NEW q \in DOMAIN in PROVE in[q] = f \/ in[q] \in ToSet(in') BY DEF ToSet
  <2>1. q = 1 \/ q > 1 BY <1>1
  <2> QED BY <1>1, <1>3, <2>1
<1>5. f.ver = log[f.id].ver \/ Coming(f.id)' BY <1>2, <1>3 DEF Coming
<1>6. f.type = "new" => \A j \in DOMAIN log : j > f.id => Awaited(j)' BY <1>2, <1>3 DEF Awaited
<1>7. \A i : Coming(i) => Coming(i)' \/ i = f.id BY <1>4 DEF Coming
<1>8. \A i : Awaited(i) => Awaited(i)' \/ (i = f.id /\ f.type = "new") BY <1>4 DEF Awaited
<1>9. ASSUME NEW p \in DOMAIN in' PROVE FrameTrue(p)'
  <2>1. p \in Nat /\ p + 1 \in DOMAIN in /\ in'[p] = in[p + 1] BY <1>1
  <2>2. PICK g : g = in[p + 1] OBVIOUS
  <2>3. PICK r : r = p + 1 OBVIOUS
  <2>4. /\ g.id \in DOMAIN log /\ g.chan = log[g.id].chan
        /\ g.type = "delete" => g.ver = Deleted
        /\ g.ver = log[g.id].ver \/ \E q \in DOMAIN in : q > r /\ in[q].id = g.id
        /\ g.type = "new" =>
             /\ \A q \in DOMAIN in : q < r => in[q].id # g.id
             /\ \A j \in DOMAIN log : j > g.id => \E q \in DOMAIN in : q > r /\ in[q].type = "new" /\ in[q].id = j
    <3>1. r \in DOMAIN in /\ g = in[r] BY <2>1, <2>2, <2>3
    <3>2. FrameTrue(r) BY <3>1 DEF FramesTrue
    <3> QED BY <3>1, <3>2 DEF FrameTrue
  <2>5. ASSUME NEW q \in DOMAIN in, q > r PROVE q - 1 \in DOMAIN in' /\ q - 1 > p /\ in'[q - 1] = in[q]
    BY <1>1, <2>1, <2>3, <2>5
  <2>6. ASSUME NEW q \in DOMAIN in', q < p PROVE q + 1 \in DOMAIN in /\ q + 1 < r /\ in'[q] = in[q + 1]
    BY <1>1, <2>1, <2>3, <2>6
  <2>7. g.ver = log[g.id].ver \/ \E q \in DOMAIN in' : q > p /\ in'[q].id = g.id
    <3> SUFFICES ASSUME NEW q \in DOMAIN in, q > r, in[q].id = g.id PROVE \E l \in DOMAIN in' : l > p /\ in'[l].id = g.id
      BY <2>4
    <3> QED BY <2>5
  <2>8. ASSUME g.type = "new", NEW q \in DOMAIN in', q < p PROVE in'[q].id # g.id BY <2>4, <2>6, <2>8
  <2>9. ASSUME g.type = "new", NEW j \in DOMAIN log, j > g.id
        PROVE  \E q \in DOMAIN in' : q > p /\ in'[q].type = "new" /\ in'[q].id = j
    <3>1. PICK q \in DOMAIN in : q > r /\ in[q].type = "new" /\ in[q].id = j BY <2>4, <2>9
    <3> QED BY <2>5, <3>1
  <2>10. g = in'[p] BY <2>1, <2>2
  <2>11. g.type = "new" => \A q \in DOMAIN in' : q < p => in'[q].id # g.id BY <2>8
  <2>12. g.type = "new" => \A j \in DOMAIN log' : j > g.id => \E q \in DOMAIN in' : q > p /\ in'[q].type = "new" /\ in'[q].id = j
    BY <2>9
  <2> QED BY <2>4, <2>7, <2>10, <2>11, <2>12 DEF FrameTrue
<1>10. FramesTrue' BY <1>1, <1>9 DEF FramesTrue
<1>11. f.id \in Own(f.chan) BY <1>2 DEF Own
<1> QED BY <1>1, <1>2, <1>5, <1>6, <1>7, <1>8, <1>10, <1>11

LEMMA TakenPasses ==
  ASSUME Base, Base', FramesTrue, in # <<>>, in' = Tail(in), UNCHANGED <<log, link>>, NEW f, f = Head(in)
  PROVE  \A c : Passes(c, {f})
<1> SUFFICES ASSUME NEW c PROVE Passes(c, {f}) OBVIOUS
<1>1. /\ f.id \in Own(f.chan)
      /\ f.ver = log[f.id].ver \/ Coming(f.id)'
      /\ \A i : Coming(i) => Coming(i)' \/ i = f.id
      /\ \A i : Awaited(i) => Awaited(i)' \/ i = f.id
  BY TakenIs
<1>2. Own(c)' = Own(c) /\ Len(log) \in Nat BY OwnIs DEF Own, Base
<1>3. \A i \in Own(c) : i = f.id => f.chan = c BY <1>1 DEF Own
<1> QED BY <1>1, <1>2, <1>3 DEF Passes, Came

\* A message marked as deleted.
LEMMA MarkedIs ==
  ASSUME WindowWell, UNCHANGED log, NEW c \in Chan, NEW n, list' = Marked(c, n)
  PROVE  /\ ListTyped' /\ Msgs(list'[c], c) /\ Ids(list'[c]) = Ids(list[c])
         /\ (\A x \in list'[c] : (x.id = n /\ x.ver = Deleted) \/ x \in list[c])
         /\ (\A x \in list'[c] : x.id = n => x.ver = Deleted)
         /\ (\A d \in Chan \ {c} : list'[d] = list[d])
<1>1. PICK S : S = list[c] OBVIOUS
<1>2. PICK T : T = {IF x.id = n THEN [x EXCEPT !.ver = Deleted] ELSE x : x \in S} OBVIOUS
<1>3. list \in [Chan -> SUBSET MsgSet] /\ Msgs(S, c) BY <1>1 DEF WindowWell, ListTyped
<1>4. list' = Replaced(c, T) BY <1>1, <1>2, <1>3 DEF Marked, Replaced
<1>5. ASSUME NEW x \in S
      PROVE  LET y == IF x.id = n THEN [x EXCEPT !.ver = Deleted] ELSE x
             IN  y \in MsgSet /\ y.id = x.id /\ (x.id = n => y.ver = Deleted) /\ (x.id # n => y = x)
  <2>1. x \in MsgSet BY <1>3 DEF Msgs
  <2> QED BY <2>1 DEF MsgSet
<1>6. \A y \in T : \E x \in S : /\ y = IF x.id = n THEN [x EXCEPT !.ver = Deleted] ELSE x
                                /\ y.id = x.id /\ (x.id = n => y.ver = Deleted) /\ (x.id # n => y = x) /\ y \in MsgSet
  BY <1>2, <1>5
<1>7. \A x \in S : \E y \in T : y.id = x.id BY <1>2, <1>5
<1>8. Single(T)
  <2> SUFFICES ASSUME NEW y \in T, NEW z \in T, y.id = z.id PROVE y = z BY DEF Single
  <2>1. PICK x \in S : y = (IF x.id = n THEN [x EXCEPT !.ver = Deleted] ELSE x) /\ y.id = x.id BY <1>6
  <2>2. PICK w \in S : z = (IF w.id = n THEN [w EXCEPT !.ver = Deleted] ELSE w) /\ z.id = w.id BY <1>6
  <2>3. x = w BY <1>3, <2>1, <2>2 DEF Msgs, Single
  <2> QED BY <2>1, <2>2, <2>3
<1>9. Msgs(T, c) BY <1>3, <1>6, <1>8 DEF Msgs
<1>10. ListTyped' /\ list'[c] = T /\ \A d \in Chan \ {c} : list'[d] = list[d] BY <1>4, <1>9, ReplacedTyped
<1>11. Ids(T) = Ids(S) BY <1>6, <1>7 DEF Ids
<1>12. \A y \in T : (y.id = n /\ y.ver = Deleted) \/ y \in S BY <1>6
<1>13. \A y \in T : y.id = n => y.ver = Deleted BY <1>6
<1> QED BY <1>1, <1>9, <1>10, <1>11, <1>12, <1>13

LEMMA SameEnds == ASSUME NEW S, NEW T, Ids(S) = Ids(T) PROVE Oldest(S) = Oldest(T) /\ Newest(S) = Newest(T)
<1>1. S = {} <=> T = {} BY DEF Ids
<1> QED BY <1>1 DEF Oldest, Newest

LEMMA TakeIs ==
  ASSUME Base, NEW near, Take(near), NEW f, f = Head(in)
  PROVE  /\ in # <<>> /\ in' = Tail(in) /\ UNCHANGED <<log, link, active, complete>> /\ strayed \subseteq strayed'
         /\ f.type = "delete" => list' = Marked(f.chan, f.id)
         /\ f.type # "delete" => list' = Added(f.chan, Msg(f))
         /\ \/ calls' = Overtaken(calls, {f}) /\ UNCHANGED viewing
            \/ /\ calls' = Overtaken(calls, {f}) \cup {[Asked(Overtaken(calls, {f}), "load", f.chan, 0) EXCEPT !.select = FALSE]}
               /\ viewing' = viewing \ {f.chan}
               /\ f.chan = active /\ f.type = "new" /\ f.chan \in viewing
         /\ f.type = "new" /\ f.chan \in viewing => f.chan \in strayed'
         /\ f.type = "update" /\ f.id \notin Ids(list[f.chan]) => f.chan \in strayed'
<1>1. /\ in # <<>> /\ in' = Tail(in) /\ UNCHANGED <<log, link, active, complete>>
      /\ list' = IF f.type = "delete" THEN Marked(f.chan, f.id) ELSE Added(f.chan, Msg(f))
      /\ strayed' = IF \/ f.type = "new" /\ f.chan \in viewing
                       \/ f.type = "update" /\ f.id \notin Ids(list[f.chan])
                      THEN strayed \cup {f.chan} ELSE strayed
  BY DEF Take, socket
<1>2. f.type \in {"new", "update", "delete"}
  <2>1. f \in FrameSet BY <1>1 DEF Base, FramesTyped
  <2> QED BY <2>1 DEF FrameSet
<1>3. CASE f.chan # active
  <2>1. Told(f) /\ Inactive BY <1>3 DEF Take
  <2> QED BY <1>1, <2>1 DEF Told, Inactive
<1>4. CASE f.chan = active
  <2>1. (f.type = "new" /\ OnNew(f, near)) \/ OnUpdate(f) \/ OnDelete(f) BY <1>2, <1>4 DEF Take
  <2>2. CASE OnUpdate(f) \/ OnDelete(f) BY <1>1, <2>2 DEF OnUpdate, OnDelete, Told, Render
  <2>3. CASE f.type = "new" /\ OnNew(f, near)
    <3>1. \/ f.chan \in viewing /\ LoadChannel(f.chan, FALSE, Overtaken(calls, {f}))
          \/ Told(f) /\ UNCHANGED viewing
      BY <2>3 DEF OnNew
    <3> QED BY <1>1, <1>4, <2>3, <3>1 DEF Told, LoadChannel
  <2> QED BY <2>1, <2>2, <2>3
<1> QED BY <1>2, <1>3, <1>4

\* The window once the frame f, about a message of its channel, is applied to it.
LEMMA ToldWhole ==
  ASSUME Base, Base', WindowWell, in # <<>>, in' = Tail(in), UNCHANGED <<log, link>>, NEW f, f = Head(in),
         NEW c \in Chan, f.chan = c, Whole(c), c \in viewing' <=> c \in viewing, c \in complete' => c \in complete,
         f.type = "delete" => list' = Marked(c, f.id),
         f.type # "delete" => list' = Added(c, Msg(f)),
         f.type = "new" => c \notin viewing, f.type = "update" => f.id \in Ids(list[c])
  PROVE  Whole(c)'
<1>1. PICK S : S = list[c] OBVIOUS
<1>2. PICK T : T = list'[c] OBVIOUS
<1>3. PICK n : n = f.id OBVIOUS
<1>4. /\ \A x \in S : x.ver = log[x.id].ver \/ Coming(x.id)
      /\ \A i \in Own(c) : i >= Oldest(S) /\ (c \in viewing => i <= Newest(S)) => i \in Ids(S) \/ Awaited(i)
      /\ c \in complete => \A i \in Own(c) : i >= Oldest(S) \/ Awaited(i)
  BY <1>1 DEF Whole
<1>5. /\ f \in FrameSet /\ n \in Own(c) /\ (f.type = "delete" => f.ver = Deleted)
      /\ f.ver = log[n].ver \/ Coming(n)'
      /\ f.type = "new" => \A j \in DOMAIN log : j > n => Awaited(j)'
      /\ \A i : Coming(i) => Coming(i)' \/ i = n
      /\ \A i : Awaited(i) => Awaited(i)' \/ (i = n /\ f.type = "new")
  BY <1>3, TakenIs DEF WindowWell
<1>6. Msgs(S, c) BY <1>1 DEF WindowWell, ListTyped
<1>7. Own(c)' = Own(c) BY DEF Own
<1>8. CASE f.type = "delete"
  <2>1. /\ Ids(T) = Ids(S)
        /\ \A x \in T : (x.id = n /\ x.ver = Deleted) \/ x \in S
        /\ \A x \in T : x.id = n => x.ver = Deleted
    BY <1>1, <1>2, <1>3, <1>8, MarkedIs
  <2>2. Oldest(S) = Oldest(T) /\ Newest(S) = Newest(T) BY <2>1, SameEnds
  <2>3. \A x \in T : x.ver = log[x.id].ver \/ Coming(x.id)' BY <1>4, <1>5, <1>8, <2>1
  <2>4. \A i : Awaited(i) => Awaited(i)' BY <1>5, <1>8
  <2> QED BY <1>2, <1>4, <1>7, <2>1, <2>2, <2>3, <2>4 DEF Whole
<1>9. CASE f.type # "delete"
  <2>1. PICK m : m = Msg(f) OBVIOUS
  <2>2. m.id = n /\ m.ver = f.ver /\ m \in MsgSet BY <1>3, <1>5, <2>1 DEF Msg, FrameSet, MsgSet
  <2>3. /\ Msgs(T, c) /\ (\A i : i \in Ids(T) <=> i \in Ids(S) \/ i = n)
        /\ \A x : x \in T <=> x = m \/ (x \in S /\ x.id # n)
    <3>1. list' = Added(c, m) /\ UNCHANGED log /\ m.id \in Own(c) BY <1>5, <1>9, <2>1, <2>2
    <3>2. m \in MsgSet BY <2>2
    <3>3. /\ Msgs(list'[c], c)
          /\ (\A i : i \in Ids(list'[c]) <=> i \in Ids(list[c]) \/ i = m.id)
          /\ (\A x : x \in list'[c] <=> x = m \/ (x \in list[c] /\ x.id # m.id))
      BY <3>1, <3>2, AddedIs
    <3> QED BY <1>1, <1>2, <2>2, <3>3
  <2>4. \A x \in T : x.ver = log[x.id].ver \/ Coming(x.id)' BY <1>4, <1>5, <2>2, <2>3
  <2>5. CASE f.type = "new"
    <3>1. PICK A : A = {i \in Own(c) : Awaited(i)'} OBVIOUS
    <3>2. \A i \in Own(c) : i >= Oldest(S) => i \in Ids(S) \/ i \in A \/ i = n BY <1>4, <1>5, <2>5, <3>1
    <3>3. n \in Ids(S) \/ \A i \in Own(c) : i > n => i \in A BY <1>5, <2>5, <3>1 DEF Own
    <3>a. n \in Own(c) BY <1>5
    <3>4. /\ \A i \in Own(c) : i >= Oldest(T) => i \in Ids(T) \/ i \in A
          /\ \A i \in Own(c) : i >= Oldest(S) \/ i = n => i >= Oldest(T) \/ i \in A
      <4>1. Msgs(S, c) /\ Msgs(T, c) BY <1>6, <2>3
      <4>2. \A i : i \in Ids(T) <=> i \in Ids(S) \/ i = n BY <2>3
      <4> HIDE <2>3
      <4> QED BY <3>2, <3>3, <3>a, <4>1, <4>2, AddedWhole
    <3>5. c \in complete' => \A i \in Own(c) : i >= Oldest(T) \/ Awaited(i)' BY <1>4, <1>5, <3>1, <3>4
    <3>6. \A i \in Own(c) : i >= Oldest(T) => i \in Ids(T) \/ Awaited(i)' BY <3>1, <3>4
    <3> QED BY <1>2, <1>7, <2>4, <3>5, <3>6 DEF Whole
  <2>6. CASE f.type # "new"
    <3>1. f.type = "update" BY <1>5, <1>9, <2>6 DEF FrameSet
    <3>2. Ids(T) = Ids(S)
      <4>1. n \in Ids(S) BY <1>1, <1>3, <3>1
      <4>2. \A i : i \in Ids(T) <=> i \in Ids(S) BY <2>3, <4>1
      <4> QED BY <4>2 DEF Ids
    <3>3. Oldest(S) = Oldest(T) /\ Newest(S) = Newest(T) BY <3>2, SameEnds
    <3>4. \A i : Awaited(i) => Awaited(i)' BY <1>5, <2>6
    <3> QED BY <1>2, <1>4, <1>7, <2>4, <3>2, <3>3, <3>4 DEF Whole
  <2> QED BY <2>5, <2>6
<1> QED BY <1>8, <1>9

LEMMA TakeKeepsWindow == ASSUME Base, Base', WindowWell, NEW near, Take(near) PROVE WindowWell'
<1>1. PICK f : f = Head(in) OBVIOUS
<1>2. PICK K : K = Overtaken(calls, {f}) OBVIOUS
<1>3. /\ in # <<>> /\ in' = Tail(in) /\ UNCHANGED <<log, link, active, complete>> /\ strayed \subseteq strayed'
      /\ f.type = "delete" => list' = Marked(f.chan, f.id)
      /\ f.type # "delete" => list' = Added(f.chan, Msg(f))
      /\ \/ calls' = K /\ UNCHANGED viewing
         \/ /\ calls' = K \cup {[Asked(K, "load", f.chan, 0) EXCEPT !.select = FALSE]}
            /\ viewing' = viewing \ {f.chan}
            /\ f.chan = active /\ f.type = "new" /\ f.chan \in viewing
      /\ f.type = "new" /\ f.chan \in viewing => f.chan \in strayed'
      /\ f.type = "update" /\ f.id \notin Ids(list[f.chan]) => f.chan \in strayed'
  BY <1>1, <1>2, TakeIs
<1>4. FramesTrue' /\ f \in FrameSet /\ f.id \in Own(f.chan) /\ \A d : Passes(d, {f})
  BY <1>1, <1>3, TakenIs, TakenPasses DEF WindowWell
<1>5. PICK c \in Chan : c = f.chan BY <1>4 DEF FrameSet
<1>6. LogTyped /\ LogTyped' /\ CallsTyped(calls) /\ CallsTyped(K) BY <1>2, OvertakenIs DEF Base, Good
<1>7. \A j \in K : CallWell(j)' BY <1>2, <1>4, <1>6, CallsPass DEF WindowWell
<1>8. \A j \in calls' : CallWell(j)'
  <2>1. PICK a : a = Asked(K, "load", c, 0) OBVIOUS
  <2>2. PICK k : k = [a EXCEPT !.select = FALSE] OBVIOUS
  <2>3. NewCall(a, K, "load", c, 0) BY <1>6, <2>1, AskedIs DEF CallOp
  <2>4. k = [n |-> a.n, op |-> a.op, chan |-> a.chan, at |-> a.at, text |-> a.text, temp |-> a.temp,
             select |-> FALSE, served |-> a.served, page |-> a.page, stale |-> a.stale]
    BY <2>2, <2>3 DEF NewCall, CallTyped, CallShape
  <2>5. k.page = {} /\ k.served = "no" /\ k.at = 0 /\ k.op = "load" BY <2>3, <2>4 DEF NewCall
  <2>6. CallWell(k)'
    <3>1. 0 \in 0..Len(log') BY <1>6, OwnNext
    <3> QED BY <2>5, <3>1 DEF CallWell, PageTyped, Msgs, Single
  <2>7. \A j \in calls' : j \in K \/ j = k BY <1>3, <1>5, <2>1, <2>2
  <2> QED BY <1>7, <2>6, <2>7
<1>9. \A d : Opening(d) => Opening(d)'
  <2> SUFFICES ASSUME NEW d, NEW j \in calls, j.chan = d, j.op \in {"load", "around"} PROVE Opening(d)' BY DEF Opening
  <2>1. MarkedBy(j, {f}) \in calls' /\ SameCall(j, MarkedBy(j, {f})) BY <1>2, <1>3, <1>6, OvertakenIs
  <2> QED BY <2>1 DEF Opening, SameCall
<1>10. ListTyped' /\ \A d \in Chan \ {c} : list'[d] = list[d]
  <2>1. CASE f.type = "delete" BY <1>3, <1>5, <2>1, MarkedIs
  <2>2. CASE f.type # "delete"
    <3>1. PICK m : m = Msg(f) OBVIOUS
    <3>2. m.id = f.id /\ m \in MsgSet BY <1>4, <3>1 DEF Msg, FrameSet, MsgSet
    <3>3. list' = Added(c, m) /\ UNCHANGED log /\ m.id \in Own(c) BY <1>3, <1>4, <1>5, <2>2, <3>1, <3>2
    <3> QED BY <3>2, <3>3, AddedIs
  <2> QED BY <2>1, <2>2
<1>11. ASSUME NEW d \in Chan, Shown(d)' PROVE Whole(d)'
  <2>1. Shown(d) /\ Whole(d) /\ d = active /\ d \notin strayed' BY <1>3, <1>9, <1>11 DEF Shown, WindowWell
  <2>2. calls' = K /\ UNCHANGED viewing BY <1>3, <2>1
  <2>3. CASE d # c
    <3>1. Passes(d, {}) BY <1>4, <1>5, <2>3, PassesClear
    <3>2. list'[d] = list[d] BY <1>10, <2>3
    <3> QED BY <1>3, <1>6, <2>1, <2>2, <3>1, <3>2, WholeStays DEF WindowWell
  <2>4. CASE d = c
    <3>1. (f.type = "new" => d \notin viewing) /\ (f.type = "update" => f.id \in Ids(list[d])) BY <1>3, <1>5, <2>1, <2>4
    <3>2. d \in viewing' <=> d \in viewing BY <2>2
    <3> QED BY <1>1, <1>3, <1>5, <2>1, <2>4, <3>1, <3>2, ToldWhole
  <2> QED BY <2>3, <2>4
<1> QED BY <1>4, <1>8, <1>10, <1>11 DEF WindowWell

LEMMA EmptyMsgs == ASSUME NEW c PROVE Msgs({}, c)
BY DEF Msgs, Single

LEMMA InitWindow == ASSUME Init PROVE WindowWell
<1>1. PaneInit BY DEF Init, ComposerInit
<1>2. Base BY InitText DEF TextWell, TextTyped
<1>3. in = <<>> /\ active = First /\ viewing = {} /\ First \in Chan BY <1>1, ChanAssumption DEF PaneInit
<1>4. FramesTrue BY <1>3 DEF FramesTrue
<1>5. PICK ask : ask = Asked({}, "load", First, 0) OBVIOUS
<1>6. CallsTyped({}) BY FS_EmptySet DEF CallsTyped
<1>7. CallWell(ask) /\ ask.op = "load" /\ ask.chan = First BY <1>2, <1>3, <1>5, <1>6, ZeroIs, AskedWell DEF CallOp
<1>8. CASE Allowed("start")
  <2>1. calls = {ask} /\ list = [c \in Chan |-> {}] BY <1>1, <1>5, <1>8 DEF PaneInit
  <2>2. ListTyped BY <2>1, EmptyMsgs DEF ListTyped
  <2>3. \A c \in Chan : ~Shown(c) BY <1>3, <1>7, <2>1 DEF Shown, Opening
  <2> QED BY <1>4, <1>7, <2>1, <2>2, <2>3 DEF WindowWell
<1>9. CASE ~Allowed("start")
  <2>1. PICK S : S = Listed(ask) OBVIOUS
  <2>2. /\ calls = {} /\ list = [c \in Chan |-> IF c = First THEN S ELSE {}]
        /\ complete = IF Cardinality(S) < Page THEN {First} ELSE {}
    BY <1>1, <1>5, <1>9, <2>1 DEF PaneInit
  <2>3. PICK C : C = Current(First) OBVIOUS
  <2>4. S = LatestOf(C, Page)
    <3>1. ask.op \in CallOp \ {"send"} BY <1>7 DEF CallOp
    <3> QED BY <1>2, <1>7, <2>1, <2>3, <3>1, ListedIs DEF Base
  <2>5. PICK k : k = [op |-> "load", chan |-> First, page |-> S] OBVIOUS
  <2>6. k.op = "load" /\ k.chan = First /\ k.page = S BY <2>5
  <2>7. Msgs(k.page, k.chan) /\ PageFresh(k) /\ LoadWhole(k)
    <3>1. k.page = LatestOf(Current(k.chan), Page) BY <2>3, <2>4, <2>6
    <3> QED BY <1>2, <2>6, <3>1, LoadListed DEF Base
  <2>8. Msgs(S, First) BY <2>6, <2>7
  <2>9. ListTyped
    <3>1. \A c \in Chan : Msgs(list[c], c) BY <2>2, <2>8, EmptyMsgs
    <3>2. S \in SUBSET MsgSet BY <2>8 DEF Msgs
    <3> QED BY <2>2, <3>1, <3>2 DEF ListTyped
  <2>10. Whole(First)
    <3>1. /\ \A m \in S : m.ver = log[m.id].ver \/ Coming(m.id)
          /\ \A i \in Own(First) : Short(k) \/ i >= Oldest(S) => i \in Ids(S) \/ (i > Newest(S) /\ Awaited(i))
      BY <2>6, <2>7 DEF PageFresh, LoadWhole
    <3>2. \A i \in Ids(S) : i >= Oldest(S)
      <4>1. \A i \in Ids(S) : i \in 1..Len(log) /\ Oldest(S) <= i /\ Oldest(S) \in Nat BY <1>2, <2>8, MsgsBound DEF Base
      <4> QED BY <1>2, <4>1, OwnIs DEF Base
    <3>3. First \in complete => Short(k) BY <2>2, <2>6 DEF Short
    <3>4. list[First] = S BY <1>3, <2>2
    <3> QED BY <3>1, <3>2, <3>3, <3>4 DEF Whole
  <2>11. \A c \in Chan : Shown(c) => Whole(c) BY <1>3, <2>10 DEF Shown
  <2> QED BY <1>4, <2>2, <2>9, <2>11 DEF WindowWell
<1> QED BY <1>8, <1>9

LEMMA PaneStepKeepsWindow == ASSUME Base, Base', WindowWell, PaneStep PROVE WindowWell'
<1>1. CASE LoadOlderMessages \/ LoadNewerMessages BY <1>1, AskingKeepsWindow
<1>2. CASE Type
  <2>1. UNCHANGED <<log, in, link, calls, active, list, viewing, complete, strayed>>
    BY <1>2 DEF Type, server, socket, window, pane
  <2>2. \A j \in calls' : CallWell(j) BY <2>1 DEF WindowWell
  <2> QED BY <2>1, <2>2, CallsKeepWindow
<1>3. ASSUME NEW k \in calls, ServeList(k) PROVE WindowWell' BY <1>3, ServeListKeepsWindow
<1>4. ASSUME NEW k \in calls, AnswerAround(k) \/ AnswerOlder(k) \/ AnswerNewer(k) PROVE WindowWell'
  BY <1>4, AroundKeepsWindow, OlderKeepsWindow, NewerKeepsWindow
<1>5. ASSUME NEW c \in Chan, Post(c) PROVE WindowWell' BY <1>5, PostKeepsWindow
<1>6. ASSUME NEW i \in Id, NEW ver \in {Edited, Deleted}, Change(i, ver) PROVE WindowWell' BY <1>6, ChangeKeepsWindow
<1>7. ASSUME NEW near \in BOOLEAN, Take(near) PROVE WindowWell' BY <1>7, TakeKeepsWindow
<1>8. ASSUME NEW near \in BOOLEAN, Drop \/ Sleep \/ Connect \/ Resync(near) PROVE WindowWell'
  BY <1>8, LoseKeepsWindow, SocketKeepsWindow
<1> QED BY <1>1, <1>2, <1>3, <1>4, <1>5, <1>6, <1>7, <1>8 DEF PaneStep

LEMMA StepKeepsWindow == ASSUME TextWell, WindowWell, TextStep PROVE WindowWell'
<1>0. TextTyped /\ Base /\ Base' BY StepKeepsText DEF TextWell, TextTyped
<1>1. CASE PaneStep BY <1>0, <1>1, PaneStepKeepsWindow
<1>2. CASE Enter BY <1>0, <1>2, EnterKeepsWindow
<1>3. ASSUME NEW c \in Chan, SelectChannel(c) PROVE WindowWell' BY <1>0, <1>3, SelectKeepsWindow
<1>4. ASSUME NEW i \in Id, JumpToMessage(i) PROVE WindowWell' BY <1>0, <1>4, JumpKeepsWindow
<1>5. ASSUME NEW k \in calls, AnswerLoad(k) \/ Fail(k) PROVE WindowWell' BY <1>0, <1>5, LoadKeepsWindow, FailKeepsWindow
<1>6. ASSUME NEW k \in calls, ServeSend(k) PROVE WindowWell'
  <2>1. k.op = "send" BY <1>6 DEF ServeSend
  <2>2. k.text \in Nat BY <1>0, <2>1 DEF TextTyped
  <2> QED BY <1>0, <1>6, <2>2, ServeSendKeepsWindow
<1>7. ASSUME NEW k \in calls, AnswerSend(k) PROVE WindowWell'
  <2>1. k.op = "send" /\ k.served \in {"yes", "failed"} BY <1>7 DEF AnswerSend
  <2> QED BY <1>0, <1>7, <2>1, SentKeepsWindow, UnsentKeepsWindow
<1>8. CASE StillText /\ UNCHANGED <<log, in, calls, link, window, strayed>>
  <2>1. UNCHANGED <<log, in, link, calls, active, list, viewing, complete, strayed>> BY <1>8 DEF StillText, window
  <2>2. \A j \in calls' : CallWell(j) BY <2>1 DEF WindowWell
  <2> QED BY <1>0, <2>1, <2>2, CallsKeepWindow
<1> QED BY <1>1, <1>2, <1>3, <1>4, <1>5, <1>6, <1>7, <1>8 DEF TextStep

LEMMA WindowWellIsWhole == ASSUME TextWell, WindowWell PROVE WindowWhole
<1>0. Base BY DEF TextWell, TextTyped
<1>1. PICK c \in Chan : c = active BY <1>0 DEF Base
<1>2. PICK S : S = list[c] OBVIOUS
<1> SUFFICES ASSUME active \notin strayed, ~Opening(active)
             PROVE  /\ \A i \in Own(c) : i >= Oldest(S) /\ (c \in viewing => i <= Newest(S)) =>
                         [id |-> i, ver |-> log[i].ver] \in S \/ Coming(i)
                    /\ c \in complete => \A i \in Own(c) : i >= Oldest(S) \/ Coming(i)
  BY <1>1, <1>2 DEF WindowWhole
<1>3. Whole(c) BY <1>1 DEF WindowWell, Shown
<1>4. /\ \A m \in S : m.ver = log[m.id].ver \/ Coming(m.id)
      /\ \A i \in Own(c) : i >= Oldest(S) /\ (c \in viewing => i <= Newest(S)) => i \in Ids(S) \/ Awaited(i)
      /\ c \in complete => \A i \in Own(c) : i >= Oldest(S) \/ Awaited(i)
  BY <1>2, <1>3 DEF Whole
<1>5. \A i : Awaited(i) => Coming(i) BY DEF Awaited, Coming
<1>6. ASSUME NEW i \in Ids(S) PROVE [id |-> i, ver |-> log[i].ver] \in S \/ Coming(i)
  <2>1. PICK m \in S : m.id = i BY DEF Ids
  <2>2. m \in MsgSet BY <1>2 DEF WindowWell, ListTyped, Msgs
  <2>3. m = [id |-> m.id, ver |-> m.ver] BY <2>2 DEF MsgSet
  <2> QED BY <1>4, <2>1, <2>3
<1> QED BY <1>4, <1>5, <1>6

\* The window of the open channel has no gap that nothing on its way will close,
\* however its pages, its sends, its frames and the socket's losses come in
\* (history.js, setMessages, addMessage, applyEvent, resync).
THEOREM WindowsAreWhole == Spec => []WindowWhole
<1>1. Init => TextWell /\ WindowWell BY InitText, InitWindow
<1>2. TextWell /\ WindowWell /\ [Next]_vars => TextWell' /\ WindowWell' BY NextStep, StepKeepsText, StepKeepsWindow
<1>3. TextWell /\ WindowWell => WindowWhole BY WindowWellIsWhole
<1> QED BY <1>1, <1>2, <1>3, PTL DEF Spec
=============================================================================
