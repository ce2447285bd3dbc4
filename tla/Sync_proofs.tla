---------------------------- MODULE Sync_proofs -----------------------------
(***************************************************************************)
(* What a tab shows of the server once nothing is on its way, for every    *)
(* number of tabs and users. First VoiceSync: the roster of a call is the  *)
(* server's, and the peer connections are those to the listed others. Then *)
(* Presence within Directory: every user is shown as their own tabs have   *)
(* them.                                                                   *)
(***************************************************************************)
EXTENDS VoiceSync, Directory, SequenceTheorems, TLAPS

Jobs  == [at : {"idle", "enter", "send"}, state : States, to : SUBSET Caller]
Loops == [busy : BOOLEAN, todo : SUBSET Caller, keep : SUBSET Caller]

TypeOK ==
  /\ roster \in SUBSET Caller /\ camera \in SUBSET Caller /\ seq \in Nat
  /\ up \in [Caller -> Seq(CallFrame)]
  /\ job \in [Caller -> Jobs]
  /\ inCall \in [Caller -> BOOLEAN]
  /\ participants \in [Caller -> Rosters]
  /\ last \in [Caller -> Nat]
  /\ peers \in [Caller -> SUBSET Caller]
  /\ loop \in [Caller -> Loops]

\* No announcement is newer than the roster, and the newest is the roster.
Stamped ==
  \A k \in Caller : job[k].at = "send" =>
    /\ job[k].state.seq # 0 /\ job[k].state.seq <= seq
    /\ job[k].state.seq = seq => job[k].state.roster = Roster(roster, camera)

\* The client has applied the newest roster in this call.
Current(k) == last[k] = seq /\ seq # 0

\* It shows what it has applied.
Applied ==
  \A k \in Caller : last[k] <= seq /\ (inCall[k] /\ Current(k) => participants[k] = Roster(roster, camera))

Holds(f, frames) == \E i \in DOMAIN frames : frames[i] = f
\* An announcement of the newest roster is still to be queued for k.
Newest(j, k) == job[j].at = "send" /\ job[j].state.seq = seq /\ k \in job[j].to

\* Whoever does not show the newest roster has it, or one that will be newer,
\* coming: k's own join will be announced.
Awaited ==
  \A k \in Caller : inCall[k] =>
    \/ Current(k)
    \/ \E j \in Caller : Newest(j, k)
    \/ \E j \in Caller : job[j].at = "enter"
    \/ Holds("join", up[k])

\* The frames end with the user in the call.
EndsJoined(frames) ==
  \E i \in DOMAIN frames :
    frames[i] = "join" /\ \A j \in DOMAIN frames : frames[j] = "leave" => j < i

\* Once its frames are read, the server lists whoever is in the call.
Joining ==
  \A k \in Caller : inCall[k] =>
    \/ EndsJoined(up[k])
    \/ (job[k].at = "enter" \/ k \in roster) /\ ~Holds("leave", up[k])

\* A loop with `todo` left keeps the others of the roster shown and has connected
\* to those it has visited, or has all of them to visit.
Building(k, todo, keep, roll) ==
  /\ keep = roll.in \ {k}
  /\ todo \subseteq keep
  /\ todo # keep => keep \ todo \subseteq peers[k]

\* A loop that waits will leave the peer connections to those the roster shows;
\* without one they are there. If the roster shown is empty the user has joined
\* since the last frame, and a loop still waiting will hang up.
Mesh(k) ==
  \/ participants[k].in = {}
  \/ IF loop[k].busy THEN Building(k, loop[k].todo, loop[k].keep, participants[k])
     ELSE peers[k] = participants[k].in \ {k}

Meshed == \A k \in Caller : inCall[k] => Mesh(k)

Inv == TypeOK /\ Stamped /\ Applied /\ Awaited /\ Joining /\ Meshed

-----------------------------------------------------------------------------
(* The queues of frames.                                                   *)

\* A queue of frames holds what either part of it holds.
LEMMA Appended ==
  ASSUME NEW s \in Seq(CallFrame), NEW t \in Seq(CallFrame), NEW f
  PROVE  /\ s \o t \in Seq(CallFrame)
         /\ Holds(f, s \o t) <=> Holds(f, s) \/ Holds(f, t)
         /\ EndsJoined(t) => EndsJoined(s \o t)
         /\ EndsJoined(s) /\ ~Holds("leave", t) => EndsJoined(s \o t)
<1> DEFINE u == s \o t
<1>1. /\ u \in Seq(CallFrame) /\ Len(u) = Len(s) + Len(t)
      /\ DOMAIN u = 1..(Len(s) + Len(t))
      /\ \A i \in DOMAIN s : u[i] = s[i]
      /\ \A i \in DOMAIN t : u[Len(s) + i] = t[i]
      /\ DOMAIN s = 1..Len(s) /\ DOMAIN t = 1..Len(t)
      /\ Len(s) \in Nat /\ Len(t) \in Nat
  OBVIOUS
<1>2. \A i \in DOMAIN s : i \in DOMAIN u
  BY <1>1
<1>3. \A i \in DOMAIN t : Len(s) + i \in DOMAIN u
  BY <1>1
<1>4. \A i \in DOMAIN u : i \in DOMAIN s \/ \E j \in DOMAIN t : i = Len(s) + j
  <2> TAKE i \in DOMAIN u
  <2>1. CASE i <= Len(s)
    BY <1>1, <2>1
  <2>2. CASE i > Len(s)
    <3>1. i - Len(s) \in DOMAIN t /\ i = Len(s) + (i - Len(s))
      BY <1>1, <2>2
    <3> QED
      BY <3>1
  <2> QED
    BY <1>1, <2>1, <2>2
<1> HIDE DEF u
<1>5. Holds(f, u) <=> Holds(f, s) \/ Holds(f, t)
  BY <1>1, <1>2, <1>3, <1>4 DEF Holds
<1>6. ASSUME EndsJoined(t) PROVE EndsJoined(u)
  <2>1. PICK i \in DOMAIN t : t[i] = "join" /\ \A j \in DOMAIN t : t[j] = "leave" => j < i
    BY <1>6 DEF EndsJoined
  <2>2. Len(s) + i \in DOMAIN u /\ u[Len(s) + i] = "join"
    BY <1>1, <1>3, <2>1
  <2>3. ASSUME NEW j \in DOMAIN u, u[j] = "leave" PROVE j < Len(s) + i
    <3>1. CASE j \in DOMAIN s
      BY <1>1, <3>1
    <3>2. ASSUME NEW l \in DOMAIN t, j = Len(s) + l PROVE j < Len(s) + i
      BY <1>1, <2>1, <2>3, <3>2
    <3> QED
      BY <1>4, <3>1, <3>2
  <2> QED
    BY <2>2, <2>3 DEF EndsJoined
<1>7. ASSUME EndsJoined(s), ~Holds("leave", t) PROVE EndsJoined(u)
  <2>1. PICK i \in DOMAIN s : s[i] = "join" /\ \A j \in DOMAIN s : s[j] = "leave" => j < i
    BY <1>7 DEF EndsJoined
  <2>2. ASSUME NEW j \in DOMAIN u, u[j] = "leave" PROVE j < i
    BY <1>1, <1>4, <1>7, <2>1, <2>2 DEF Holds
  <2> QED
    BY <1>1, <1>2, <2>1, <2>2 DEF EndsJoined
<1> QED
  BY <1>1, <1>5, <1>6, <1>7 DEF u

\* What the server has yet to read after it has taken the first frame.
LEMMA Taken ==
  ASSUME NEW s \in Seq(CallFrame), s # <<>>
  PROVE  /\ Tail(s) \in Seq(CallFrame)
         /\ \A f \in CallFrame : Holds(f, Tail(s)) => Holds(f, s)
         /\ \A f \in CallFrame : Holds(f, s) => Head(s) = f \/ Holds(f, Tail(s))
         /\ \A f \in CallFrame : Head(s) = f => Holds(f, s)
         /\ EndsJoined(s) => \/ EndsJoined(Tail(s))
                             \/ Head(s) = "join" /\ ~Holds("leave", Tail(s))
<1> DEFINE t == Tail(s)
<1>1. /\ t \in Seq(CallFrame) /\ Len(s) \in Nat \ {0}
      /\ DOMAIN s = 1..Len(s) /\ DOMAIN t = 1..(Len(s) - 1)
      /\ \A i \in DOMAIN t : t[i] = s[i + 1]
      /\ Head(s) = s[1] /\ 1 \in DOMAIN s
  OBVIOUS
<1>2. \A i \in DOMAIN t : i + 1 \in DOMAIN s
  BY <1>1
<1>3. \A i \in DOMAIN s : i = 1 \/ (i - 1 \in DOMAIN t /\ t[i - 1] = s[i])
  <2> TAKE i \in DOMAIN s
  <2>1. CASE i # 1
    <3>1. i - 1 \in DOMAIN t /\ (i - 1) + 1 = i
      BY <1>1, <2>1
    <3> QED
      BY <1>1, <3>1
  <2> QED
    BY <2>1
<1> HIDE DEF t
<1>4. \A f \in CallFrame : Holds(f, t) => Holds(f, s)
  BY <1>1, <1>2 DEF Holds
<1>5. \A f \in CallFrame : Holds(f, s) => Head(s) = f \/ Holds(f, t)
  BY <1>1, <1>3 DEF Holds
<1>6. \A f \in CallFrame : Head(s) = f => Holds(f, s)
  BY <1>1 DEF Holds
<1>7. ASSUME EndsJoined(s)
      PROVE  EndsJoined(t) \/ (Head(s) = "join" /\ ~Holds("leave", t))
  <2>1. PICK i \in DOMAIN s : s[i] = "join" /\ \A j \in DOMAIN s : s[j] = "leave" => j < i
    BY <1>7 DEF EndsJoined
  <2>2. \A j \in DOMAIN t : t[j] = "leave" => j + 1 < i
    BY <1>1, <1>2, <2>1
  <2>3. CASE i = 1
    <3>1. \A j \in DOMAIN t : t[j] # "leave"
      BY <1>1, <2>2, <2>3
    <3> QED
      BY <1>1, <2>1, <2>3, <3>1 DEF Holds
  <2>4. CASE i # 1
    <3>1. i - 1 \in DOMAIN t /\ t[i - 1] = "join"
      BY <1>3, <2>1, <2>4
    <3>2. \A j \in DOMAIN t : t[j] = "leave" => j < i - 1
      BY <1>1, <2>2
    <3> QED
      BY <3>1, <3>2 DEF EndsJoined
  <2> QED
    BY <2>3, <2>4
<1> QED
  BY <1>1, <1>4, <1>5, <1>6, <1>7 DEF t

-----------------------------------------------------------------------------
LEMMA InitInv ==
  CallInit => Inv
<1> SUFFICES ASSUME CallInit PROVE Inv
  OBVIOUS
<1>1. Nobody \in Rosters /\ Idle \in Jobs /\ NoLoop \in Loops /\ Idle.at = "idle"
  BY DEF Nobody, Roster, Rosters, Idle, State, States, Jobs, NoLoop, Loops
<1>2. TypeOK
  BY <1>1 DEF CallInit, TypeOK
<1>3. Stamped /\ Awaited /\ Joining /\ Meshed
  BY <1>1 DEF CallInit, Stamped, Awaited, Joining, Meshed
<1>4. Applied
  BY DEF CallInit, Applied, Current
<1> QED
  BY <1>2, <1>3, <1>4 DEF Inv

-----------------------------------------------------------------------------
(* What the users do.                                                      *)

LEMMA UsersKeepInv ==
  ASSUME Inv, NEW k \in Caller, UserStep(k)
  PROVE  Inv'
<1> USE DEF Inv
<1>1. ASSUME NEW on \in BOOLEAN, Join(k, on) PROVE Inv'
  <2>1. CameraFrame(on) \in CallFrame \ {"join", "leave"}
    BY DEF CameraFrame, CallFrame
  <2> DEFINE new == <<"join", CameraFrame(on)>>
  <2>2. new \in Seq(CallFrame) /\ Holds("join", new) /\ ~Holds("leave", new) /\ EndsJoined(new)
    <3>1. new \in Seq(CallFrame) /\ DOMAIN new = 1..2 /\ new[1] = "join" /\ new[2] = CameraFrame(on)
      BY <2>1 DEF CallFrame
    <3>2. \A i \in DOMAIN new : new[i] # "leave"
      BY <2>1, <3>1
    <3> QED
      BY <3>1, <3>2 DEF Holds, EndsJoined
  <2> HIDE DEF new
  <2>3. up' = [up EXCEPT ![k] = @ \o new]
    BY <1>1 DEF Join, Submit, new
  <2>4. /\ up'[k] = up[k] \o new /\ up[k] \in Seq(CallFrame)
        /\ \A j \in Caller \ {k} : up'[j] = up[j]
    BY <2>3 DEF TypeOK
  <2>5. up'[k] \in Seq(CallFrame) /\ Holds("join", up'[k]) /\ EndsJoined(up'[k])
    BY <2>2, <2>4, Appended
  <2>6. UNCHANGED <<roster, camera, seq, job, peers, loop>>
    BY <1>1 DEF Join, callServer
  <2>7. /\ inCall' = [inCall EXCEPT ![k] = TRUE]
        /\ participants' = [participants EXCEPT ![k] = Nobody]
        /\ last' = [last EXCEPT ![k] = 0]
    BY <1>1 DEF Join
  <2>8. Nobody \in Rosters /\ Nobody.in = {}
    BY DEF Nobody, Rosters, Roster
  <2>9. TypeOK'
    <3>1. up' \in [Caller -> Seq(CallFrame)]
      BY <2>3, <2>4, <2>5 DEF TypeOK
    <3> QED
      BY <2>6, <2>7, <2>8, <3>1 DEF TypeOK
  <2>10. Stamped'
    BY <2>6 DEF Stamped
  <2>11. Applied'
    BY <2>6, <2>7 DEF Applied, Current, TypeOK
  <2>12. Awaited'
    BY <2>4, <2>5, <2>6, <2>7 DEF Awaited, Current, Newest, TypeOK
  <2>13. Joining'
    BY <2>4, <2>5, <2>6, <2>7 DEF Joining, TypeOK
  <2>14. Meshed'
    BY <2>6, <2>7, <2>8 DEF Meshed, Mesh, Building, TypeOK
  <2> QED
    BY <2>9, <2>10, <2>11, <2>12, <2>13, <2>14
<1>2. ASSUME NEW on \in BOOLEAN, Toggle(k, on) PROVE Inv'
  <2>1. CameraFrame(on) \in CallFrame \ {"join", "leave"}
    BY DEF CameraFrame, CallFrame
  <2> DEFINE new == <<CameraFrame(on)>>
  <2>2. new \in Seq(CallFrame) /\ ~Holds("leave", new)
    BY <2>1 DEF CallFrame, Holds
  <2> HIDE DEF new
  <2>3. up' = [up EXCEPT ![k] = @ \o new]
    BY <1>2 DEF Toggle, Submit, new
  <2>4. /\ up'[k] = up[k] \o new /\ up[k] \in Seq(CallFrame)
        /\ \A j \in Caller \ {k} : up'[j] = up[j]
    BY <2>3 DEF TypeOK
  <2>5. /\ up'[k] \in Seq(CallFrame)
        /\ Holds("join", up[k]) => Holds("join", up'[k])
        /\ Holds("leave", up'[k]) => Holds("leave", up[k])
        /\ EndsJoined(up[k]) => EndsJoined(up'[k])
    BY <2>2, <2>4, Appended
  <2>6. UNCHANGED <<roster, camera, seq, job, inCall, participants, last, peers, loop>>
    BY <1>2 DEF Toggle, callServer, client
  <2>7. TypeOK'
    <3>1. up' \in [Caller -> Seq(CallFrame)]
      BY <2>3, <2>4, <2>5 DEF TypeOK
    <3> QED
      BY <2>6, <3>1 DEF TypeOK
  <2>8. Stamped' /\ Applied' /\ Meshed'
    BY <2>6 DEF Stamped, Applied, Current, Meshed, Mesh, Building
  <2>9. Awaited'
    BY <2>4, <2>5, <2>6 DEF Awaited, Current, Newest
  <2>10. Joining'
    BY <2>4, <2>5, <2>6 DEF Joining
  <2> QED
    BY <2>7, <2>8, <2>9, <2>10
<1>3. ASSUME Leave(k) PROVE Inv'
  <2> DEFINE new == <<"leave">>
  <2>1. new \in Seq(CallFrame)
    BY DEF CallFrame
  <2> HIDE DEF new
  <2>2. up' = [up EXCEPT ![k] = @ \o new]
    BY <1>3 DEF Leave, Submit, new
  <2>3. /\ up'[k] = up[k] \o new /\ up[k] \in Seq(CallFrame)
        /\ \A j \in Caller \ {k} : up'[j] = up[j]
    BY <2>2 DEF TypeOK
  <2>4. up'[k] \in Seq(CallFrame)
    BY <2>1, <2>3, Appended
  <2>5. UNCHANGED <<roster, camera, seq, job, last, loop>>
    BY <1>3 DEF Leave, callServer
  <2>6. /\ inCall' = [inCall EXCEPT ![k] = FALSE]
        /\ participants' = [participants EXCEPT ![k] = Nobody]
        /\ peers' = [peers EXCEPT ![k] = {}]
    BY <1>3 DEF Leave, Hangup
  <2>7. TypeOK'
    <3>1. up' \in [Caller -> Seq(CallFrame)]
      BY <2>2, <2>3, <2>4 DEF TypeOK
    <3>2. Nobody \in Rosters
      BY DEF Nobody, Rosters, Roster
    <3> QED
      BY <2>5, <2>6, <3>1, <3>2 DEF TypeOK
  <2>8. Stamped'
    BY <2>5 DEF Stamped
  <2>9. Applied' /\ Meshed'
    BY <2>5, <2>6 DEF Applied, Current, Meshed, Mesh, Building, TypeOK
  <2>10. Awaited'
    BY <2>3, <2>5, <2>6 DEF Awaited, Current, Newest, TypeOK
  <2>11. Joining'
    BY <2>3, <2>5, <2>6 DEF Joining, TypeOK
  <2> QED
    BY <2>7, <2>8, <2>9, <2>10, <2>11
<1> QED
  BY <1>1, <1>2, <1>3 DEF UserStep

-----------------------------------------------------------------------------
(* What the handlers of the connections do.                                *)

\* A change of k's entry that k's handler will announce to everybody, at once
\* or after it has entered k.
LEMMA StampKeepsInv ==
  ASSUME Inv, NEW k \in Caller, NEW j \in Jobs, j.at \in {"enter", "send"},
         j.at = "send" => j.to = Caller /\ j.state = State(seq', Roster(roster', camera')),
         seq' = seq + 1, job' = [job EXCEPT ![k] = j],
         roster' \in SUBSET Caller, camera' \in SUBSET Caller,
         \A i \in Caller \ {k} : i \in roster' <=> i \in roster,
         up' \in [Caller -> Seq(CallFrame)], \A i \in Caller \ {k} : up'[i] = up[i],
         inCall[k] => \/ EndsJoined(up'[k])
                      \/ (j.at = "enter" \/ k \in roster') /\ ~Holds("leave", up'[k]),
         UNCHANGED client
  PROVE  Inv'
<1> USE DEF Inv
<1>1. UNCHANGED <<inCall, participants, last, peers, loop>>
  BY DEF client
<1>2. job'[k] = j /\ \A i \in Caller \ {k} : job'[i] = job[i]
  BY DEF TypeOK
<1>3. TypeOK'
  <2>1. seq' \in Nat /\ job' \in [Caller -> Jobs]
    BY DEF TypeOK
  <2> QED
    BY <1>1, <2>1 DEF TypeOK
<1>4. Stamped'
  <2> SUFFICES ASSUME NEW i \in Caller, job'[i].at = "send"
               PROVE  /\ job'[i].state.seq # 0 /\ job'[i].state.seq <= seq'
                      /\ job'[i].state.seq = seq' => job'[i].state.roster = Roster(roster', camera')
    BY DEF Stamped
  <2>1. CASE i = k
    BY <1>2, <1>3, <2>1 DEF State, TypeOK
  <2>2. CASE i # k
    <3>1. job[i].state.seq \in Nat
      BY DEF TypeOK, Jobs, States
    <3> QED
      BY <1>2, <2>2, <3>1 DEF Stamped, TypeOK
  <2> QED
    BY <2>1, <2>2
<1>5. Applied'
  BY <1>1 DEF Applied, Current, TypeOK
<1>6. Awaited'
  BY <1>2 DEF Awaited, Newest, State
<1>7. Joining'
  BY <1>1, <1>2 DEF Joining
<1>8. Meshed'
  BY <1>1 DEF Meshed, Mesh, Building
<1> QED
  BY <1>3, <1>4, <1>5, <1>6, <1>7, <1>8

\* The handler takes the first frame.
LEMMA Reading ==
  ASSUME Inv, NEW k \in Caller, NEW f \in CallFrame, Read(k, f)
  PROVE  /\ up[k] \in Seq(CallFrame) /\ up[k] # <<>> /\ Head(up[k]) = f
         /\ up' \in [Caller -> Seq(CallFrame)] /\ up'[k] = Tail(up[k])
         /\ \A i \in Caller \ {k} : up'[i] = up[i]
         /\ job[k].at = "idle"
         /\ Holds(f, up[k]) /\ \A g \in CallFrame : Holds(g, up'[k]) => Holds(g, up[k])
         /\ EndsJoined(up[k]) => EndsJoined(up'[k]) \/ (f = "join" /\ ~Holds("leave", up'[k]))
<1> USE DEF Inv
<1>1. up[k] \in Seq(CallFrame) /\ up[k] # <<>> /\ Head(up[k]) = f /\ job[k].at = "idle"
  BY DEF Read, TypeOK
<1>2. Tail(up[k]) \in Seq(CallFrame)
  BY <1>1
<1>3. up' \in [Caller -> Seq(CallFrame)] /\ up'[k] = Tail(up[k]) /\ \A i \in Caller \ {k} : up'[i] = up[i]
  BY <1>1, <1>2 DEF Read, TypeOK
<1> DEFINE q == up[k]
<1>4. q \in Seq(CallFrame) /\ q # <<>> /\ Head(q) = f
  BY <1>1
<1> HIDE DEF q
<1>5. \A g \in CallFrame : Holds(g, Tail(q)) => Holds(g, q)
  BY <1>4, Taken
<1>6. Holds(f, q)
  BY <1>4, Taken
<1>7. EndsJoined(q) => EndsJoined(Tail(q)) \/ (f = "join" /\ ~Holds("leave", Tail(q)))
  BY <1>4, Taken
<1> QED
  BY <1>1, <1>3, <1>5, <1>6, <1>7 DEF q

\* What the handler announces.
LEMMA Announcing ==
  ASSUME Inv, NEW k \in Caller, AnnounceRoster(k),
         roster' \in SUBSET Caller, camera' \in SUBSET Caller, seq' \in Nat
  PROVE  \E j \in Jobs : /\ j.at = "send" /\ j.to = Caller
                         /\ j.state = State(seq', Roster(roster', camera'))
                         /\ job' = [job EXCEPT ![k] = j]
<1> DEFINE j == [at |-> "send", state |-> State(seq', Roster(roster', camera')), to |-> Caller]
<1>1. j \in Jobs
  BY DEF Jobs, State, States, Roster, Rosters
<1> QED
  BY <1>1 DEF AnnounceRoster

LEMMA ChangesKeepInv ==
  ASSUME Inv, NEW k \in Caller,
         \/ ReadJoin(k) \/ Enter(k) \/ ReadLeave(k)
         \/ \E on \in BOOLEAN : ReadCamera(k, on)
  PROVE  Inv'
<1> USE DEF Inv
<1>1. ASSUME ReadJoin(k) PROVE Inv'
  <2>1. Read(k, "join") /\ "join" \in CallFrame
    BY <1>1 DEF ReadJoin, CallFrame
  <2> DEFINE j == [Idle EXCEPT !.at = "enter"]
  <2>2. j \in Jobs /\ j.at = "enter"
    BY DEF Idle, Jobs, State, States, Nobody, Roster, Rosters
  <2>3. job' = [job EXCEPT ![k] = j]
    BY <1>1 DEF ReadJoin
  <2> HIDE DEF j
  <2>4. /\ roster' = roster \ {k} /\ camera' = camera \ {k} /\ seq' = seq + 1
        /\ UNCHANGED client
    BY <1>1 DEF ReadJoin, Stamp
  <2>5. inCall[k] => EndsJoined(up'[k]) \/ ~Holds("leave", up'[k])
    BY <2>1, Reading DEF Joining, CallFrame
  <2>6. roster' \in SUBSET Caller /\ camera' \in SUBSET Caller
    BY <2>4 DEF TypeOK
  <2> QED
    BY <2>1, <2>2, <2>3, <2>4, <2>5, <2>6, Reading, StampKeepsInv
<1>2. ASSUME Enter(k) PROVE Inv'
  <2>1. /\ job[k].at = "enter" /\ roster' = roster \cup {k} /\ camera' = camera
        /\ seq' = seq + 1 /\ UNCHANGED <<up, client>> /\ AnnounceRoster(k)
    BY <1>2 DEF Enter, Stamp
  <2>2. roster' \in SUBSET Caller /\ camera' \in SUBSET Caller /\ seq' \in Nat
    BY <2>1 DEF TypeOK
  <2>3. PICK j \in Jobs : /\ j.at = "send" /\ j.to = Caller
                          /\ j.state = State(seq', Roster(roster', camera'))
                          /\ job' = [job EXCEPT ![k] = j]
    BY <2>1, <2>2, Announcing
  <2>4. inCall[k] => EndsJoined(up'[k]) \/ (k \in roster' /\ ~Holds("leave", up'[k]))
    BY <2>1 DEF Joining
  <2>5. up' \in [Caller -> Seq(CallFrame)]
    BY <2>1 DEF TypeOK
  <2> QED
    BY <2>1, <2>2, <2>3, <2>4, <2>5, StampKeepsInv
<1>3. ASSUME ReadLeave(k) PROVE Inv'
  <2>1. Read(k, "leave") /\ "leave" \in CallFrame
    BY <1>3 DEF ReadLeave, CallFrame
  <2>2. /\ roster' = roster \ {k} /\ camera' = camera \ {k} /\ seq' = seq + 1
        /\ UNCHANGED client /\ AnnounceRoster(k)
    BY <1>3 DEF ReadLeave, Stamp
  <2>3. roster' \in SUBSET Caller /\ camera' \in SUBSET Caller /\ seq' \in Nat
    BY <2>2 DEF TypeOK
  <2>4. PICK j \in Jobs : /\ j.at = "send" /\ j.to = Caller
                          /\ j.state = State(seq', Roster(roster', camera'))
                          /\ job' = [job EXCEPT ![k] = j]
    BY <2>2, <2>3, Announcing
  <2>5. inCall[k] => EndsJoined(up'[k])
    BY <2>1, Reading DEF Joining
  <2> QED
    BY <2>1, <2>2, <2>3, <2>4, <2>5, Reading, StampKeepsInv
<1>4. ASSUME NEW on \in BOOLEAN, ReadCamera(k, on) PROVE Inv'
  <2>1. Read(k, CameraFrame(on)) /\ CameraFrame(on) \in CallFrame /\ CameraFrame(on) \notin {"join", "leave"}
    BY <1>4 DEF ReadCamera, CameraFrame, CallFrame
  <2>2. /\ roster' = roster /\ seq' = seq + 1 /\ UNCHANGED client /\ AnnounceRoster(k)
        /\ camera' = IF on /\ k \in roster THEN camera \cup {k} ELSE camera \ {k}
    BY <1>4 DEF ReadCamera, Stamp
  <2>3. roster' \in SUBSET Caller /\ camera' \in SUBSET Caller /\ seq' \in Nat
    BY <2>2 DEF TypeOK
  <2>4. PICK j \in Jobs : /\ j.at = "send" /\ j.to = Caller
                          /\ j.state = State(seq', Roster(roster', camera'))
                          /\ job' = [job EXCEPT ![k] = j]
    BY <2>2, <2>3, Announcing
  <2>5. job[k].at # "enter" /\ (Holds("leave", up'[k]) => Holds("leave", up[k]))
    BY <2>1, Reading DEF CallFrame
  <2>6. EndsJoined(up[k]) => EndsJoined(up'[k])
    BY <2>1, Reading
  <2>7. inCall[k] => EndsJoined(up'[k]) \/ (k \in roster' /\ ~Holds("leave", up'[k]))
    BY <2>2, <2>5, <2>6 DEF Joining
  <2> QED
    BY <2>1, <2>2, <2>3, <2>4, <2>7, Reading, StampKeepsInv
<1> QED
  BY <1>1, <1>2, <1>3, <1>4

-----------------------------------------------------------------------------
(* What the clients do with a roster.                                      *)

\* What a stretch of k's loop leaves behind, for everybody else and for k.
Stretched(k, todo, keep, roll) ==
  /\ inCall' \in [Caller -> BOOLEAN] /\ participants' \in [Caller -> Rosters]
  /\ peers' \in [Caller -> SUBSET Caller] /\ loop' \in [Caller -> Loops]
  /\ \A i \in Caller \ {k} :
       /\ inCall'[i] = inCall[i] /\ participants'[i] = participants[i]
       /\ peers'[i] = peers[i] /\ loop'[i] = loop[i]
  /\ inCall'[k] =>
       /\ inCall[k] /\ participants'[k] = roll
       /\ roll.in = {} \/ Building(k, todo, keep, roll) => Mesh(k)'

\* A stretch brings the peer connections nearer to the roster shown, or
\* finishes them.
LEMMA Continued ==
  ASSUME Inv, NEW k \in Caller, NEW todo \in SUBSET Caller, NEW keep \in SUBSET Caller,
         NEW roll \in Rosters, NEW active \in BOOLEAN,
         Continue(k, todo, keep, roll, active)
  PROVE  Stretched(k, todo, keep, roll)
<1> USE DEF Inv
<1>1. PICK seen \in SUBSET todo :
        /\ Stretch(k, todo, seen)
        /\ IF Waits(k, seen)
             THEN /\ loop' = [loop EXCEPT ![k] = [busy |-> TRUE, todo |-> todo \ seen,
                                                  keep |-> keep]]
                  /\ peers' = [peers EXCEPT ![k] = @ \cup seen]
                  /\ participants' = [participants EXCEPT ![k] = roll]
                  /\ UNCHANGED inCall
             ELSE /\ loop' = [loop EXCEPT ![k] = NoLoop]
                  /\ IF roll.in = {} /\ active
                       THEN Hangup(k)
                       ELSE /\ peers' = [peers EXCEPT ![k] = KeepListed(k, @ \cup seen, keep)]
                            /\ participants' = [participants EXCEPT ![k] = roll]
                            /\ UNCHANGED inCall
  BY DEF Continue
<1>2. CASE Waits(k, seen)
  <2>1. /\ loop' = [loop EXCEPT ![k] = [busy |-> TRUE, todo |-> todo \ seen, keep |-> keep]]
        /\ peers' = [peers EXCEPT ![k] = @ \cup seen]
        /\ participants' = [participants EXCEPT ![k] = roll]
        /\ UNCHANGED inCall
    BY <1>1, <1>2
  <2>2. [busy |-> TRUE, todo |-> todo \ seen, keep |-> keep] \in Loops
    BY DEF Loops
  <2>3. /\ loop'[k].busy /\ loop'[k].todo = todo \ seen /\ loop'[k].keep = keep
        /\ peers'[k] = peers[k] \cup seen /\ participants'[k] = roll
    BY <2>1 DEF TypeOK
  <2>4. roll.in = {} \/ Building(k, todo, keep, roll) => Mesh(k)'
    BY <2>3 DEF Building, Mesh
  <2> QED
    BY <2>1, <2>2, <2>3, <2>4 DEF TypeOK, Stretched
<1>3. CASE ~Waits(k, seen)
  <2>1. loop' = [loop EXCEPT ![k] = NoLoop] /\ NoLoop \in Loops /\ ~NoLoop.busy
    BY <1>1, <1>3 DEF NoLoop, Loops
  <2>2. seen = todo
    BY <1>1, <1>3 DEF Stretch, Waits
  <2>3. CASE roll.in = {} /\ active
    <3>1. Nobody \in Rosters
      BY DEF Nobody, Roster, Rosters
    <3>2. /\ inCall' = [inCall EXCEPT ![k] = FALSE]
          /\ participants' = [participants EXCEPT ![k] = Nobody]
          /\ peers' = [peers EXCEPT ![k] = {}]
      BY <1>1, <1>3, <2>3 DEF Hangup
    <3>3. ~inCall'[k]
      BY <3>2 DEF TypeOK
    <3> QED
      BY <2>1, <3>1, <3>2, <3>3 DEF TypeOK, Stretched
  <2>4. CASE ~(roll.in = {} /\ active)
    <3>1. /\ peers' = [peers EXCEPT ![k] = (@ \cup seen) \cap keep]
          /\ participants' = [participants EXCEPT ![k] = roll]
          /\ UNCHANGED inCall
      BY <1>1, <1>3, <2>4 DEF KeepListed
    <3>2. peers'[k] = (peers[k] \cup todo) \cap keep /\ participants'[k] = roll /\ ~loop'[k].busy
      BY <2>1, <2>2, <3>1 DEF TypeOK
    <3>3. roll.in = {} \/ Building(k, todo, keep, roll) => Mesh(k)'
      BY <3>2 DEF Building, Mesh
    <3> QED
      BY <2>1, <3>1, <3>2, <3>3 DEF TypeOK, Stretched
  <2> QED
    BY <2>3, <2>4
<1> QED
  BY <1>2, <1>3

\* Nobody else's mesh is touched.
LEMMA StretchKeepsMeshed ==
  ASSUME Inv, NEW k \in Caller, NEW todo, NEW keep, NEW roll, Stretched(k, todo, keep, roll),
         inCall'[k] => roll.in = {} \/ Building(k, todo, keep, roll)
  PROVE  Meshed'
<1> SUFFICES ASSUME NEW i \in Caller, inCall'[i] PROVE Mesh(i)'
  BY DEF Meshed
<1>1. CASE i = k
  BY <1>1 DEF Stretched
<1>2. CASE i # k
  BY <1>2 DEF Inv, Meshed, Mesh, Building, Stretched
<1> QED
  BY <1>1, <1>2

\* One more client has the announcement queued.
LEMMA Queued ==
  ASSUME Inv, NEW k \in Caller, NEW j \in Caller, Queue(k, j)
  PROVE  /\ job[k] \in Jobs /\ job[k].at = "send" /\ j \in job[k].to
         /\ UNCHANGED <<roster, camera, seq, up, acts>>
         /\ job' \in [Caller -> Jobs]
         /\ \A i \in Caller : job'[i].at = "enter" <=> job[i].at = "enter"
         /\ \A i \in Caller : job'[i].at = "send" => job[i].at = "send" /\ job'[i].state = job[i].state
         /\ \A i, l \in Caller : Newest(i, l) => Newest(i, l)' \/ (i = k /\ l = j)
<1> USE DEF Inv
<1>1. /\ job[k] \in Jobs /\ job[k].at = "send" /\ j \in job[k].to
      /\ UNCHANGED <<roster, camera, seq, up, acts>>
  BY DEF Queue, TypeOK
<1>2. Idle \in Jobs /\ Idle.at = "idle"
  BY DEF Idle, Jobs, State, States, Nobody, Roster, Rosters
<1>3. CASE job[k].to = {j}
  <2>1. job' = [job EXCEPT ![k] = Idle]
    BY <1>3 DEF Queue, TypeOK
  <2> QED
    BY <1>1, <1>2, <1>3, <2>1 DEF TypeOK, Newest
<1>4. CASE job[k].to # {j}
  <2> DEFINE rest == [job[k] EXCEPT !.to = @ \ {j}]
  <2>1. /\ rest \in Jobs /\ rest.at = "send" /\ rest.state = job[k].state
        /\ rest.to = job[k].to \ {j}
    BY <1>1 DEF Jobs
  <2>2. job' = [job EXCEPT ![k] = rest]
    BY <1>4 DEF Queue, TypeOK
  <2> HIDE DEF rest
  <2> QED
    BY <1>1, <2>1, <2>2 DEF TypeOK, Newest
<1> QED
  BY <1>3, <1>4

LEMMA IgnoringKeepsInv ==
  ASSUME Inv, NEW k \in Caller, NEW j \in Caller, Ignore(k, j)
  PROVE  Inv'
<1> USE DEF Inv
<1>1. Queue(k, j) /\ UNCHANGED client /\ (~inCall[j] \/ job[k].state.seq <= last[j])
  BY DEF Ignore, Superseded
<1>2. UNCHANGED <<inCall, participants, last, peers, loop, roster, camera, seq, up>>
  BY <1>1, Queued DEF client
<1>3. TypeOK'
  BY <1>1, <1>2, Queued DEF TypeOK
<1>4. Stamped'
  BY <1>1, <1>2, Queued DEF Stamped
<1>5. Applied' /\ Meshed'
  BY <1>2 DEF Applied, Current, Meshed, Mesh, Building
<1>6. Joining'
  BY <1>1, <1>2, Queued DEF Joining
<1>7. Awaited'
  <2> SUFFICES ASSUME NEW i \in Caller, inCall[i]
               PROVE  \/ Current(i)
                      \/ \E l \in Caller : Newest(l, i)'
                      \/ \E l \in Caller : job'[l].at = "enter"
                      \/ Holds("join", up[i])
    BY <1>2 DEF Awaited, Current
  <2>1. CASE Newest(k, i) /\ i = j
    <3>1. job[k].state.seq = seq /\ seq # 0 /\ seq <= last[j]
      BY <1>1, <2>1 DEF Newest, Stamped
    <3>2. last[j] \in Nat /\ seq \in Nat /\ last[j] <= seq
      BY DEF Applied, TypeOK
    <3>3. last[j] = seq
      BY <3>1, <3>2
    <3> QED
      BY <2>1, <3>1, <3>3 DEF Current
  <2>2. CASE ~(Newest(k, i) /\ i = j)
    BY <1>1, <2>2, Queued DEF Awaited
  <2> QED
    BY <2>1, <2>2
<1> QED
  BY <1>3, <1>4, <1>5, <1>6, <1>7

LEMMA ApplyingKeepsInv ==
  ASSUME Inv, NEW k \in Caller, NEW j \in Caller, Apply(k, j)
  PROVE  Inv'
<1> USE DEF Inv
<1> DEFINE new == job[k].state
           others == new.roster.in \ {j}
<1>1. /\ Queue(k, j) /\ inCall[j] /\ ~(new.seq <= last[j])
      /\ last' = [last EXCEPT ![j] = new.seq]
      /\ Continue(j, others, others, new.roster, TRUE)
  BY DEF Apply, Superseded
<1>2. /\ new.seq \in Nat /\ new.roster \in Rosters /\ new.roster.in \in SUBSET Caller
      /\ new.seq <= seq /\ (new.seq = seq => new.roster = Roster(roster, camera))
  BY <1>1, Queued DEF Jobs, States, Rosters, Stamped
<1> HIDE DEF new
<1>3. others \in SUBSET Caller /\ TRUE \in BOOLEAN
  BY <1>2
<1>4. Stretched(j, others, others, new.roster)
  BY <1>1, <1>2, <1>3, Continued
<1>5. UNCHANGED <<roster, camera, seq, up>>
  BY <1>1, Queued
<1>6. /\ last' \in [Caller -> Nat] /\ last'[j] = new.seq
      /\ \A i \in Caller \ {j} : last'[i] = last[i]
  BY <1>1, <1>2 DEF TypeOK
<1>7. TypeOK'
  BY <1>1, <1>4, <1>5, <1>6, Queued DEF TypeOK, Stretched
<1>8. Stamped'
  BY <1>1, <1>5, Queued DEF Stamped
<1>9. Applied'
  <2> SUFFICES ASSUME NEW i \in Caller
               PROVE  /\ last'[i] <= seq
                      /\ inCall'[i] /\ last'[i] = seq /\ seq # 0 => participants'[i] = Roster(roster, camera)
    BY <1>5 DEF Applied, Current
  <2>1. CASE i = j
    BY <1>2, <1>4, <1>6, <2>1 DEF Stretched
  <2>2. CASE i # j
    BY <1>4, <1>6, <2>2 DEF Applied, Current, Stretched
  <2> QED
    BY <2>1, <2>2
<1>10. Awaited'
  <2> SUFFICES ASSUME NEW i \in Caller, inCall'[i]
               PROVE  \/ last'[i] = seq /\ seq # 0
                      \/ \E l \in Caller : Newest(l, i)'
                      \/ \E l \in Caller : job'[l].at = "enter"
                      \/ Holds("join", up[i])
    BY <1>5 DEF Awaited, Current
  <2>1. CASE i = j
    <3>1. CASE new.seq = seq
      <4>1. last[j] \in Nat
        BY DEF TypeOK
      <4>2. new.seq # 0
        BY <1>1, <1>2, <4>1
      <4> QED
        BY <1>6, <2>1, <3>1, <4>2
    <3>2. CASE new.seq # seq
      <4>1. ~Newest(k, j)
        BY <3>2 DEF Newest, new
      <4>2. ~Current(j)
        BY <1>1, <1>2, <3>2 DEF Current, TypeOK
      <4>3. \/ \E l \in Caller : Newest(l, j)
            \/ \E l \in Caller : job[l].at = "enter"
            \/ Holds("join", up[j])
        BY <1>1, <4>2 DEF Awaited
      <4> QED
        BY <1>1, <2>1, <4>1, <4>3, Queued
    <3> QED
      BY <3>1, <3>2
  <2>2. CASE i # j
    BY <1>1, <1>4, <1>6, <2>2, Queued DEF Awaited, Current, Stretched
  <2> QED
    BY <2>1, <2>2
<1>11. Joining'
  BY <1>1, <1>4, <1>5, Queued DEF Joining, Stretched
<1>12. Meshed'
  <2>1. Building(j, others, others, new.roster)
    BY DEF Building
  <2> QED
    BY <1>4, <2>1, StretchKeepsMeshed
<1> QED
  BY <1>7, <1>8, <1>9, <1>10, <1>11, <1>12

LEMMA ResumingKeepsInv ==
  ASSUME Inv, NEW k \in Caller, Resume(k)
  PROVE  Inv'
<1> USE DEF Inv
<1>1. loop[k].busy /\ Continue(k, loop[k].todo, loop[k].keep, participants[k], inCall[k])
  BY DEF Resume
<1>2. UNCHANGED <<roster, camera, seq, job, last, up>>
  BY DEF Resume, callServer
<1>3. /\ loop[k].todo \in SUBSET Caller /\ loop[k].keep \in SUBSET Caller
      /\ participants[k] \in Rosters /\ inCall[k] \in BOOLEAN
  BY DEF TypeOK, Loops
<1>4. Stretched(k, loop[k].todo, loop[k].keep, participants[k])
  BY <1>1, <1>3, Continued
<1>5. inCall'[k] => participants[k].in = {} \/ Building(k, loop[k].todo, loop[k].keep, participants[k])
  BY <1>1, <1>4 DEF Stretched, Meshed, Mesh
<1>6. Meshed'
  BY <1>4, <1>5, StretchKeepsMeshed
<1>7. TypeOK' /\ Stamped'
  BY <1>2, <1>4 DEF TypeOK, Stamped, Stretched
<1>8. Applied'
  BY <1>2, <1>4 DEF Applied, Current, Stretched
<1>9. Awaited'
  BY <1>2, <1>4 DEF Awaited, Current, Newest, Stretched
<1>10. Joining'
  BY <1>2, <1>4 DEF Joining, Stretched
<1> QED
  BY <1>6, <1>7, <1>8, <1>9, <1>10

-----------------------------------------------------------------------------
(* The theorems.                                                           *)

LEMMA StepKeepsInv ==
  ASSUME Inv, [CallNext]_callVars
  PROVE  Inv'
<1>1. CASE UNCHANGED callVars
  <2>1. UNCHANGED <<roster, camera, seq, job, inCall, participants, last, peers, loop, up>>
    BY <1>1 DEF callVars, callServer, client
  <2> QED
    BY <2>1 DEF Inv, TypeOK, Stamped, Applied, Current, Awaited, Newest, Joining, Meshed, Mesh, Building
<1>2. ASSUME NEW k \in Caller, UserStep(k) \/ Handler(k) \/ Resume(k) PROVE Inv'
  BY <1>2, UsersKeepInv, ChangesKeepInv, IgnoringKeepsInv, ApplyingKeepsInv, ResumingKeepsInv
     DEF Handler
<1> QED
  BY <1>1, <1>2 DEF CallNext

\* Every reachable state is well-typed.
THEOREM Typing ==
  CallSpec => []TypeOK
<1>1. Inv => TypeOK
  BY DEF Inv
<1> QED
  BY <1>1, InitInv, StepKeepsInv, PTL DEF CallSpec

\* The sequence number of the roster does its work: whatever order the
\* announcements of different handlers arrive in, a participant who shows
\* anything but the newest roster has it, or a newer one, still to come.
THEOREM ShowsTheNewest ==
  CallSpec => []ViewIsNewest
<1>1. Inv => ViewIsNewest
  <2> SUFFICES ASSUME Inv, NothingInFlight, NEW k \in Caller, inCall[k]
               PROVE  participants[k] = Roster(roster, camera)
    BY DEF ViewIsNewest
  <2>1. \A j \in Caller : job[j].at = "idle" /\ up[j] = <<>>
    BY DEF NothingInFlight
  <2>2. ~Holds("join", up[k])
    BY <2>1 DEF Holds
  <2>3. Current(k)
    BY <2>1, <2>2 DEF Inv, Awaited, Newest
  <2> QED
    BY <2>3 DEF Inv, Applied
<1> QED
  BY <1>1, InitInv, StepKeepsInv, PTL DEF CallSpec

\* A participant is listed and holds a peer connection to every other one and to
\* nobody else once nothing is in flight, although the loop that builds them is
\* overtaken by leaves and joins.
THEOREM ConnectsToTheListed ==
  CallSpec => []MeshTrue
<1>1. Inv => MeshTrue
  <2> SUFFICES ASSUME Inv, NothingInFlight, NEW k \in Caller, inCall[k]
               PROVE  k \in roster /\ peers[k] = roster \ {k}
    BY DEF MeshTrue
  <2>1. (\A j \in Caller : job[j].at = "idle" /\ up[j] = <<>>) /\ ~loop[k].busy
    BY DEF NothingInFlight
  <2>2. ~Holds("join", up[k]) /\ ~EndsJoined(up[k])
    BY <2>1 DEF Holds, EndsJoined
  <2>3. participants[k] = Roster(roster, camera)
    BY <2>1, <2>2 DEF Inv, Awaited, Newest, Applied
  <2>4. k \in roster
    BY <2>1, <2>2 DEF Inv, Joining
  <2>5. participants[k].in = roster
    BY <2>3 DEF Roster
  <2> QED
    BY <2>1, <2>4, <2>5 DEF Inv, Meshed, Mesh
<1> QED
  BY <1>1, InitInv, StepKeepsInv, PTL DEF CallSpec

-----------------------------------------------------------------------------
(* Presence, within Directory.                                             *)

\* Frames of s about the presence of u, and what the last of them says.
Tells(e, u) == e.type = "presence" /\ e.user = u
Names(s, u) == \E i \in 1..Len(s) : Tells(s[i], u)
Says(s, u, x) == \E i \in 1..Len(s) : /\ Tells(s[i], u) /\ s[i].is = x
                                      /\ \A j \in 1..Len(s) : j > i => ~Tells(s[j], u)

\* A frame on another matter does not change what a queue says of u.
LEMMA AppendedOther ==
  ASSUME NEW S, NEW s \in Seq(S), NEW e, NEW u, ~Tells(e, u)
  PROVE  (Names(Append(s, e), u) <=> Names(s, u)) /\ \A x : Says(Append(s, e), u, x) <=> Says(s, u, x)
<1> DEFINE r == Append(s, e)
<1>1. s \in Seq(S \cup {e}) OBVIOUS
<1>2. Len(r) = Len(s) + 1 /\ Len(s) \in Nat /\ r[Len(s) + 1] = e /\ \A i \in 1..Len(s) : r[i] = s[i]
  BY <1>1
<1> HIDE DEF r
<1>3. ~Tells(r[Len(s) + 1], u) BY <1>2
<1>4. \A i \in 1..Len(r) : Tells(r[i], u) => i \in 1..Len(s)
  BY <1>2, <1>3
<1>5. \A i \in 1..Len(s) : i \in 1..Len(r) /\ (Tells(r[i], u) <=> Tells(s[i], u)) /\ r[i].is = s[i].is
  BY <1>2
<1>6. Names(r, u) <=> Names(s, u)
  BY <1>4, <1>5 DEF Names
<1>7. \A x : Says(r, u, x) <=> Says(s, u, x)
  BY <1>4, <1>5 DEF Says
<1> QED BY <1>6, <1>7 DEF r

\* A frame about u is what a queue says once it is last.
LEMMA AppendedOwn ==
  ASSUME NEW S, NEW s \in Seq(S), NEW e, NEW u, Tells(e, u)
  PROVE  Names(Append(s, e), u) /\ \A x : Says(Append(s, e), u, x) => x = e.is
<1> DEFINE r == Append(s, e)
<1>1. s \in Seq(S \cup {e}) OBVIOUS
<1>2. Len(r) = Len(s) + 1 /\ Len(s) \in Nat /\ r[Len(s) + 1] = e /\ \A i \in 1..Len(s) : r[i] = s[i]
  BY <1>1
<1> HIDE DEF r
<1>3. Len(s) + 1 \in 1..Len(r) /\ Tells(r[Len(s) + 1], u) BY <1>2
<1>4. Names(r, u) BY <1>3 DEF Names
<1>5. ASSUME NEW x, Says(r, u, x) PROVE x = e.is
  <2>1. PICK i \in 1..Len(r) : r[i].is = x /\ \A j \in 1..Len(r) : j > i => ~Tells(r[j], u)
    BY <1>5 DEF Says
  <2>2. i = Len(s) + 1 BY <2>1, <1>2, <1>3
  <2> QED BY <2>1, <2>2, <1>2
<1> QED BY <1>4, <1>5 DEF r

\* Taking the first frame: what the rest says, the whole said.
LEMMA TakenFrame ==
  ASSUME NEW S, NEW s \in Seq(S), s # <<>>, NEW u
  PROVE  /\ \A x : Says(Tail(s), u, x) => Says(s, u, x)
         /\ Names(Tail(s), u) => Names(s, u)
         /\ ~Tells(Head(s), u) => (Names(s, u) => Names(Tail(s), u)) /\ \A x : Says(s, u, x) => Says(Tail(s), u, x)
         /\ Tells(Head(s), u) /\ ~Names(Tail(s), u) => Says(s, u, Head(s).is)
<1> DEFINE r == Tail(s)
<1>1. Len(s) \in Nat /\ Len(s) > 0 /\ Len(r) = Len(s) - 1 /\ Head(s) = s[1] /\ \A i \in 1..Len(r) : r[i] = s[i + 1]
  OBVIOUS
<1> HIDE DEF r
<1>2. \A i \in 1..Len(r) : i + 1 \in 1..Len(s) /\ (Tells(r[i], u) <=> Tells(s[i + 1], u)) /\ r[i].is = s[i + 1].is
  BY <1>1
<1>3. \A i \in 1..Len(s) : i > 1 => i - 1 \in 1..Len(r) /\ (Tells(r[i - 1], u) <=> Tells(s[i], u)) /\ r[i - 1].is = s[i].is
  BY <1>1
<1>4. ASSUME NEW x, Says(r, u, x) PROVE Says(s, u, x)
  <2>1. PICK i \in 1..Len(r) : Tells(r[i], u) /\ r[i].is = x /\ \A j \in 1..Len(r) : j > i => ~Tells(r[j], u)
    BY <1>4 DEF Says
  <2>2. \A j \in 1..Len(s) : j > i + 1 => ~Tells(s[j], u)
    BY <2>1, <1>1, <1>3
  <2> QED BY <2>1, <2>2, <1>2 DEF Says
<1>5. Names(r, u) => Names(s, u) BY <1>2 DEF Names
<1>6. ASSUME ~Tells(s[1], u), Names(s, u) PROVE Names(r, u)
  <2>1. PICK i \in 1..Len(s) : Tells(s[i], u) BY <1>6 DEF Names
  <2>2. i > 1 BY <2>1, <1>6
  <2> QED BY <2>1, <2>2, <1>3 DEF Names
<1>7. ASSUME ~Tells(s[1], u), NEW x, Says(s, u, x) PROVE Says(r, u, x)
  <2>1. PICK i \in 1..Len(s) : Tells(s[i], u) /\ s[i].is = x /\ \A j \in 1..Len(s) : j > i => ~Tells(s[j], u)
    BY <1>7 DEF Says
  <2>2. i > 1 BY <2>1, <1>7
  <2>3. \A j \in 1..Len(r) : j > i - 1 => ~Tells(r[j], u)
    BY <2>1, <2>2, <1>1, <1>2
  <2> QED BY <2>1, <2>2, <2>3, <1>3 DEF Says
<1>8. ASSUME Tells(s[1], u), ~Names(r, u) PROVE Says(s, u, s[1].is)
  <2>1. \A j \in 1..Len(s) : j > 1 => ~Tells(s[j], u)
    BY <1>8, <1>3 DEF Names
  <2> QED BY <2>1, <1>8, <1>1 DEF Says
<1> QED BY <1>1, <1>4, <1>5, <1>6, <1>7, <1>8 DEF r

-----------------------------------------------------------------------------
(* Requests. All that matters of them here is which lists of users are on  *)
(* their way, and which resyncs are still to send the idle flag.           *)

ReqFields == {"tab", "op", "chan", "user", "val", "at", "row", "aud", "late", "n"}
Resyncing(q) == q.op \in {"list", "summary", "settle"}
Shaped(q) ==
  /\ DOMAIN q = ReqFields /\ q.tab \in Tabs
  /\ Resyncing(q) => q.at \in {"ask", "done", "failed"}
  /\ q.op = "list" /\ q.at = "done" => DOMAIN q.row.users = User
\* p is what became of q.
Follows(q, p) ==
  /\ p.tab = q.tab /\ p.op = q.op /\ p.val = q.val
  /\ p.op = "list" /\ p.at = "done" => q.at = "done" /\ p.row = q.row /\ q.late \subseteq p.late
Keeps(A, B) ==
  /\ \A p \in B : Shaped(p)
  /\ \A p \in B : p.op = "list" /\ p.at = "done" => \E q \in A : Follows(q, p)
  /\ \A q \in A : Resyncing(q) => \E p \in B : Follows(q, p)
\* r is p, or p with more that it comes too late for.
Later(p, r) == r = p \/ \E X : r = [p EXCEPT !.late = @ \cup X]

LEMMA SelfKeeps == ASSUME NEW A, \A q \in A : Shaped(q) PROVE Keeps(A, A)
BY DEF Keeps, Follows

LEMMA LessKeeps ==
  ASSUME NEW A, NEW B, Keeps(A, B), NEW q, q \in B => ~Resyncing(q)
  PROVE  Keeps(A, B \ {q})
BY DEF Keeps, Follows, Resyncing

LEMMA MoreKeeps ==
  ASSUME NEW A, NEW B, Keeps(A, B), NEW D, \A r \in D : Shaped(r) /\ ~(r.op = "list" /\ r.at = "done")
  PROVE  Keeps(A, B \cup D)
BY DEF Keeps

LEMMA LaterShaped ==
  ASSUME NEW p, Shaped(p), NEW r, Later(p, r)
  PROVE  Shaped(r) /\ Follows(p, r) /\ (Resyncing(r) <=> Resyncing(p))
<1>1. CASE r = p BY <1>1 DEF Follows
<1>2. ASSUME NEW X, r = [p EXCEPT !.late = @ \cup X] PROVE Shaped(r) /\ Follows(p, r) /\ (Resyncing(r) <=> Resyncing(p))
  <2>1. /\ DOMAIN r = ReqFields /\ r.tab = p.tab /\ r.op = p.op /\ r.val = p.val /\ r.at = p.at /\ r.row = p.row
        /\ r.late = p.late \cup X
    BY <1>2 DEF Shaped, ReqFields
  <2> QED BY <2>1 DEF Shaped, Follows, Resyncing
<1> QED BY <1>1, <1>2 DEF Later

LEMMA LaterKeeps ==
  ASSUME NEW A, NEW B, Keeps(A, B), NEW C,
         \A r \in C : \E p \in B : Later(p, r),
         \A p \in B : \E r \in C : Later(p, r)
  PROVE  Keeps(A, C)
<1>1. \A r \in C : Shaped(r)
  BY LaterShaped DEF Keeps
<1>2. ASSUME NEW r \in C, r.op = "list", r.at = "done" PROVE \E q \in A : Follows(q, r)
  <2>1. PICK p \in B : Later(p, r) OBVIOUS
  <2>2. p.op = "list" /\ p.at = "done" /\ Follows(p, r) BY <2>1, <1>2, LaterShaped DEF Keeps, Follows
  <2>3. PICK q \in A : Follows(q, p) BY <2>2 DEF Keeps
  <2> QED BY <2>2, <2>3 DEF Follows
<1>3. ASSUME NEW q \in A, Resyncing(q) PROVE \E r \in C : Follows(q, r)
  <2>1. PICK p \in B : Follows(q, p) BY <1>3 DEF Keeps
  <2>2. PICK r \in C : Later(p, r) OBVIOUS
  <2>3. Follows(p, r) BY <2>1, <2>2, LaterShaped DEF Keeps
  <2> QED BY <2>1, <2>3 DEF Follows
<1> QED BY <1>1, <1>2, <1>3 DEF Keeps

LEMMA StaleKeeps ==
  ASSUME NEW A, NEW B, Keeps(A, B), NEW lost
  PROVE  Keeps(A, Stale(lost, B))
<1> DEFINE X(p) == {c \in Chan : <<p.tab, c>> \in lost}
           L(p) == [p EXCEPT !.late = @ \cup X(p)]
           C == Stale(lost, B)
<1>1. \A p : Later(p, L(p)) /\ Later(p, p) BY DEF Later
<1>2. \A p \in B : p \in C \/ L(p) \in C BY DEF Stale
<1>3. \A r \in C : \E p \in B : r = p \/ r = L(p) BY DEF Stale
<1> HIDE DEF L, C
<1>4. Keeps(A, C) BY <1>1, <1>2, <1>3, LaterKeeps
<1> QED BY <1>4 DEF C

LEMMA OvertakenKeeps ==
  ASSUME NEW A, Keeps(A, reqs), NEW t, NEW e, NEW what
  PROVE  Keeps(A, Overtaken(t, e, what))
<1> DEFINE L(p) == [p EXCEPT !.late = @ \cup {what}]
           C == Overtaken(t, e, what)
<1>1. \A p : Later(p, L(p)) /\ Later(p, p) BY DEF Later
<1>2. \A p \in reqs : p \in C \/ L(p) \in C BY DEF Overtaken
<1>3. \A r \in C : \E p \in reqs : r = p \/ r = L(p) BY DEF Overtaken
<1> HIDE DEF L, C
<1>4. Keeps(A, C) BY <1>1, <1>2, <1>3, LaterKeeps
<1> QED BY <1>4 DEF C

LEMMA UnlistedKeeps ==
  ASSUME Keeps(reqs, reqs), NEW q, ~Resyncing(q), NEW late
  PROVE  Keeps(reqs, Unlisted(q, late))
<1> DEFINE L(p) == [p EXCEPT !.late = @ \cup {q.chan}]
           B == Stale(Lost(late, q), Rest(q))
           C == Unlisted(q, late)
<1>1. Keeps(reqs, Rest(q)) BY LessKeeps DEF Rest
<1>2. Keeps(reqs, B) BY <1>1, StaleKeeps
<1>3. \A p : Later(p, L(p)) /\ Later(p, p) BY DEF Later
<1>4. \A p \in B : p \in C \/ L(p) \in C BY DEF Unlisted
<1>5. \A r \in C : \E p \in B : r = p \/ r = L(p) BY DEF Unlisted
<1> HIDE DEF L, C, B
<1>6. Keeps(reqs, C) BY <1>2, <1>3, <1>4, <1>5, LaterKeeps
<1> QED BY <1>6 DEF C

LEMMA ReqShaped ==
  ASSUME NEW t \in Tabs, NEW op, NEW c, NEW u, NEW val, NEW at,
         op \in {"list", "summary", "settle"} => at = "ask" \/ (at = "done" /\ op # "list")
  PROVE  LET r == Req(t, op, c, u, val, at)
         IN  Shaped(r) /\ r.tab = t /\ r.op = op /\ r.val = val /\ r.at = at /\ r.late = {}
BY DEF Req, Shaped, ReqFields, Resyncing

-----------------------------------------------------------------------------
(* The invariant.                                                          *)

PresenceTypes ==
  /\ limit \in Limits
  /\ link \in [Tabs -> BOOLEAN] /\ gen \in [Tabs -> Nat] /\ idle \in [Tabs -> BOOLEAN]
  /\ (\E S : in \in [Tabs -> Seq(S)]) /\ wire \in [Tabs -> Seq(BOOLEAN)]
  /\ DOMAIN status = User
  /\ DOMAIN shown = Tabs /\ DOMAIN pending = Tabs
  /\ \A t \in Tabs : DOMAIN shown[t] = User /\ DOMAIN pending[t] = User
  /\ \A c \in conns : c \in [tab : Tabs, gen : Nat, idle : BOOLEAN] /\ c.gen \in 1..gen[c.tab]
  /\ \A c, d \in conns : c.tab = d.tab /\ c.gen = d.gen => c = d
  /\ \A x \in telling : DOMAIN x = {"by", "user", "online", "row"}
  /\ \A q \in reqs : Shaped(q)

\* A tab with an open socket is registered at the hub, one without has nothing
\* on its way, and nobody waits out the debounce about themselves.
Sockets == \A t \in Tabs :
  /\ link[t] => \E c \in conns : c.tab = t /\ c.gen = gen[t]
  /\ ~link[t] => in[t] = <<>> /\ wire[t] = <<>>
  /\ gen[t] = 0 => \A u \in User : pending[t][u] = Unset
  /\ pending[t][Me(t)] = Unset

\* A connection has the idle flag of its tab, or will have it when the frames
\* on their way are read, or a resync is to send it, or the tab is hushed.
FlagComing(t) == \E q \in reqs : q.tab = t /\ (q.op = "settle" \/ (q.op \in {"list", "summary"} /\ ~q.val.boot))
Flag(c) == IF wire[c.tab] = <<>> THEN c.idle ELSE wire[c.tab][Len(wire[c.tab])]
FlagsKnown == \A c \in conns :
  link[c.tab] /\ c.gen = gen[c.tab] =>
    Flag(c) = idle[c.tab] \/ (idle[c.tab] /\ (c.tab \in hushed \/ FlagComing(c.tab)))

\* An announcement says what is so, or all tabs are blurred about its user.
Blurs(u) == \A t \in Tabs : <<t, u>> \in blurred
Row(x) == IF x.row = "" THEN status[x.user] ELSE x.row
Honest(x) ==
  Effective(x.user) = [online |-> x.online /\ Row(x) # "offline", status |-> Row(x),
                       idle |-> x.by[2] # 0 /\ IdleIn(conns, x.user)]
Announced(u) == Blurs(u) \/ About(u) = {} \/ \E x \in telling : About(u) = {x} /\ Honest(x)

\* The last that a tab has heard of a user, or is to hear, is so.
ListComing(t) == \E q \in reqs : q.op = "list" /\ q.tab = t
Heard(t, u) ==
  /\ \A x : Says(in[t], u, x) => x = Effective(u)
  /\ ~Names(in[t], u) => IF pending[t][u] # Unset THEN pending[t][u] = Effective(u)
                         ELSE shown[t][u] = Effective(u) \/ ListComing(t)
HeardTrue == \A t \in Tabs, u \in User : link[t] /\ <<t, u>> \notin blurred /\ About(u) = {} => Heard(t, u)

\* A list of users that has been read is right, unless news is on its way or
\* has overtaken it.
Right(q, u) == u \in q.late \/ About(u) # {} \/ Names(in[q.tab], u) \/ q.row.users[u] = Effective(u)
ListsRight == \A q \in reqs : q.op = "list" /\ q.at = "done" /\ link[q.tab] => \A u \in User : Right(q, u)

PresenceInv ==
  /\ PresenceTypes /\ Sockets /\ FlagsKnown /\ (\A u \in User : Announced(u)) /\ HeardTrue /\ ListsRight

\* The queues say the same of every user as before.
Muffled(i, j) == \A u \in User : (Names(j, u) <=> Names(i, u)) /\ \A x : Says(j, u, x) => Says(i, u, x)

\* Nothing that is read of the requests is lost.
Carried ==
  /\ \A p \in reqs' : Shaped(p)
  /\ \A p \in reqs' : p.op = "list" /\ p.at = "done" => \E q \in reqs : Follows(q, p)
  /\ \A t \in Tabs : (FlagComing(t) => FlagComing(t)') /\ (ListComing(t) => ListComing(t)')
LEMMA KeptIsCarried == ASSUME Keeps(reqs, reqs') PROVE Carried
BY DEF Carried, FlagComing, ListComing, Keeps, Follows, Resyncing

\* A step that changes neither the hub nor what a tab knows of people.
LEMMA PlainStep ==
  ASSUME PresenceInv, UNCHANGED <<limit, server, link, gen, wire, people>>, Carried,
         \E S : in' \in [Tabs -> Seq(S)],
         \A t \in Tabs : (in[t] = <<>> => in'[t] = <<>>) \/ link[t],
         \A t \in Tabs : Muffled(in[t], in'[t])
  PROVE  PresenceInv'
<1> USE DEF server, people
<1>1. /\ Tabs' = Tabs /\ (\A t : Me(t)' = Me(t)) /\ (\A u : About(u)' = About(u) /\ Effective(u)' = Effective(u))
      /\ (\A u : IdleIn(conns, u)' = IdleIn(conns, u))
  BY DEF Tabs, Me, About, Effective, Held, IdleIn
<1>2. \A q \in reqs' : Shaped(q)' <=> Shaped(q)
  BY <1>1 DEF Shaped
<1>3. PresenceTypes'
  BY <1>1, <1>2 DEF PresenceInv, PresenceTypes, Carried
<1>4. Sockets'
  BY <1>1 DEF PresenceInv, Sockets
<1>5. \A t \in Tabs : (FlagComing(t) => FlagComing(t)') /\ (ListComing(t) => ListComing(t)')
  BY DEF Carried
<1>6. FlagsKnown'
  <2>1. \A c : Flag(c)' = Flag(c) BY DEF Flag
  <2>2. \A c \in conns : c.tab \in Tabs BY DEF PresenceInv, PresenceTypes
  <2> QED BY <1>1, <1>5, <2>1, <2>2 DEF PresenceInv, FlagsKnown
<1>7. \A u \in User : Announced(u)'
  <2>1. \A x : Honest(x)' <=> Honest(x) BY <1>1 DEF Honest, Row
  <2>2. \A u : Blurs(u)' <=> Blurs(u) BY <1>1 DEF Blurs
  <2> QED BY <1>1, <2>1, <2>2 DEF PresenceInv, Announced
<1>8. HeardTrue'
  <2> SUFFICES ASSUME NEW t \in Tabs, NEW u \in User, link[t], <<t, u>> \notin blurred, About(u) = {}
               PROVE  Heard(t, u)'
    BY <1>1 DEF HeardTrue
  <2>1. Heard(t, u) BY DEF PresenceInv, HeardTrue
  <2>2. Muffled(in[t], in'[t]) OBVIOUS
  <2> QED BY <1>1, <1>5, <2>1, <2>2 DEF Heard, Muffled
<1>9. ListsRight'
  <2> SUFFICES ASSUME NEW p \in reqs', p.op = "list", p.at = "done", link[p.tab], NEW u \in User
               PROVE  Right(p, u)'
    BY <1>1 DEF ListsRight
  <2>1. PICK q \in reqs : Follows(q, p) BY DEF Carried
  <2>2. Right(q, u) BY <2>1 DEF PresenceInv, ListsRight, Follows
  <2>3. Muffled(in[q.tab], in'[q.tab]) BY <2>1 DEF Carried, Shaped, Follows
  <2> QED BY <1>1, <2>1, <2>2, <2>3 DEF Right, Follows, Muffled
<1> QED BY <1>3, <1>4, <1>6, <1>7, <1>8, <1>9 DEF PresenceInv

-----------------------------------------------------------------------------
(* The hub.                                                                *)

LEMMA MineIsUser == ASSUME PresenceTypes, NEW t \in Tabs PROVE Me(t) \in User
BY LimitsAssumption DEF PresenceTypes, Tabs, Me

\* A step about one user that announces whatever it changes.
LEMMA NewsAnnounced ==
  ASSUME PresenceInv, limit' = limit, blurred \subseteq blurred', NEW v,
         \A u \in User \ {v} : About(u)' = About(u) /\ Effective(u)' = Effective(u),
         \/ About(v)' = About(v) /\ Effective(v)' = Effective(v)
         \/ \E x : /\ About(v)' = About(v) \cup {x} /\ (Honest(x)' \/ Blurs(v)')
                   /\ About(v) # {} => Blurs(v)'
  PROVE  /\ \A u \in User : Announced(u)'
         /\ \A u \in User : About(u)' # {} \/ (About(u) = {} /\ Effective(u)' = Effective(u))
<1>1. ASSUME NEW u \in User, About(u)' = About(u), Effective(u)' = Effective(u) PROVE Announced(u)'
  <2>1. status'[u] = status[u] /\ IdleIn(conns, u)' = IdleIn(conns, u)
    <3>1. Effective(u)'.status = Effective(u).status /\ Effective(u)'.idle = Effective(u).idle BY <1>1
    <3> QED BY <3>1 DEF Effective
  <2>2. \A x \in About(u) : x.user = u /\ x \in telling' BY <1>1 DEF About
  <2>3. \A x \in About(u) : Honest(x) => Honest(x)' BY <1>1, <2>1, <2>2 DEF Honest, Row
  <2>4. Blurs(u) => Blurs(u)' BY DEF Blurs, Tabs
  <2> QED BY <1>1, <2>2, <2>3, <2>4 DEF PresenceInv, Announced
<1>2. ASSUME NEW x, v \in User, About(v)' = About(v) \cup {x}, Honest(x)' \/ Blurs(v)', About(v) # {} => Blurs(v)'
      PROVE  Announced(v)' /\ About(v)' # {}
  <2>1. x \in telling' BY <1>2 DEF About
  <2> QED BY <1>2, <2>1 DEF Announced
<1> QED BY <1>1, <1>2 DEF PresenceInv, Announced, About

\* What tabs have heard and lists have read is still so, or news is announced.
LEMMA HubStep ==
  ASSUME PresenceInv, UNCHANGED <<limit, link, in, shown, pending, reqs>>, blurred \subseteq blurred',
         \A u \in User : About(u)' # {} \/ (About(u) = {} /\ Effective(u)' = Effective(u))
  PROVE  HeardTrue' /\ ListsRight'
<1>1. Tabs' = Tabs /\ \A t : ListComing(t)' = ListComing(t) BY DEF Tabs, ListComing
<1>2. HeardTrue'
  <2> SUFFICES ASSUME NEW t \in Tabs, NEW u \in User, link[t], <<t, u>> \notin blurred', About(u)' = {}
               PROVE  Heard(t, u)'
    BY <1>1 DEF HeardTrue
  <2>1. Heard(t, u) /\ Effective(u)' = Effective(u) BY DEF PresenceInv, HeardTrue
  <2> QED BY <1>1, <2>1 DEF Heard
<1>3. ListsRight'
  BY DEF PresenceInv, ListsRight, Right
<1> QED BY <1>2, <1>3

\* What an announcement does to the announcements under way.
Word(by, u, online, row) == [by |-> by, user |-> u, online |-> online, row |-> row]
LEMMA Announces ==
  ASSUME NEW by, NEW v, NEW online, NEW row, NEW cond, Announce(by, v, online, row), BlurIf(cond, v), Tabs' = Tabs
  PROVE  /\ telling' = telling \cup {Word(by, v, online, row)} /\ About(v)' = About(v) \cup {Word(by, v, online, row)}
         /\ \A u : u # v => About(u)' = About(u)
         /\ blurred \subseteq blurred' /\ (cond => Blurs(v)')
<1>1. telling' = telling \cup {Word(by, v, online, row)} BY DEF Announce, Word
<1>2. Word(by, v, online, row).user = v BY DEF Word
<1>3. /\ About(v)' = About(v) \cup {Word(by, v, online, row)} /\ \A u : u # v => About(u)' = About(u)
  BY <1>1, <1>2 DEF About
<1>4. blurred \subseteq blurred' /\ (cond => Blurs(v)')
  BY DEF BlurIf, Blurs
<1> QED BY <1>1, <1>3, <1>4

\* v's presence is as it was, or an announcement of it goes out that is honest
\* or blurs every tab.
Unsaid(v) == /\ UNCHANGED <<telling, blurred>> /\ (Held(v)' = {} <=> Held(v) = {})
             /\ IdleIn(conns, v)' = IdleIn(conns, v) /\ status'[v] = status[v]
Voiced(v) == \E by, online, row, cond :
  /\ Announce(by, v, online, row) /\ BlurIf(cond, v) /\ (About(v) # {} => cond)
  /\ cond \/ Honest(Word(by, v, online, row))'
LEMMA HubMoves ==
  ASSUME PresenceInv, limit' = limit, NEW v \in User, Unsaid(v) \/ Voiced(v),
         \A u \in User : u # v => Held(u)' = Held(u) /\ IdleIn(conns, u)' = IdleIn(conns, u) /\ status'[u] = status[u]
  PROVE  /\ blurred \subseteq blurred'
         /\ \A u \in User : Announced(u)'
         /\ \A u \in User : About(u)' # {} \/ (About(u) = {} /\ Effective(u)' = Effective(u))
<1>1. Tabs' = Tabs BY DEF Tabs
<1>2. \A u \in User \ {v} : Effective(u)' = Effective(u) BY DEF Effective
<1>3. CASE Unsaid(v)
  <2>1. \A u : About(u)' = About(u) BY <1>3 DEF About, Unsaid
  <2>2. Effective(v)' = Effective(v) BY <1>3 DEF Effective, Unsaid
  <2>3. blurred \subseteq blurred' BY <1>3 DEF Unsaid
  <2> QED BY <1>2, <2>1, <2>2, <2>3, NewsAnnounced
<1>4. ASSUME NEW by, NEW online, NEW row, NEW cond, Announce(by, v, online, row), BlurIf(cond, v), About(v) # {} => cond,
             cond \/ Honest(Word(by, v, online, row))'
      PROVE  /\ blurred \subseteq blurred'
             /\ \A u \in User : Announced(u)'
             /\ \A u \in User : About(u)' # {} \/ (About(u) = {} /\ Effective(u)' = Effective(u))
  <2> DEFINE x == Word(by, v, online, row)
  <2>1. /\ About(v)' = About(v) \cup {x} /\ (\A u : u # v => About(u)' = About(u))
        /\ blurred \subseteq blurred' /\ (cond => Blurs(v)')
    BY <1>1, <1>4, Announces
  <2>2. (Honest(x)' \/ Blurs(v)') /\ (About(v) # {} => Blurs(v)') BY <1>4, <2>1
  <2> HIDE DEF x
  <2> QED BY <1>2, <2>1, <2>2, NewsAnnounced
<1> QED BY <1>3, <1>4 DEF Voiced

\* The types after an action of the hub.
HubOnly == UNCHANGED <<limit, link, gen, in, shown, pending, idle, reqs, hushed>>
LEMMA HubTypes ==
  ASSUME PresenceInv, HubOnly, DOMAIN status' = User, wire' \in [Tabs -> Seq(BOOLEAN)],
         telling' \subseteq telling \/ \E by, v, online, row : Announce(by, v, online, row),
         \A c \in conns' : c \in [tab : Tabs, gen : Nat, idle : BOOLEAN] /\ c.gen \in 1..gen[c.tab],
         \A c, d \in conns' : c.tab = d.tab /\ c.gen = d.gen => c = d
  PROVE  PresenceTypes'
<1> USE DEF HubOnly
<1>1. Tabs' = Tabs BY DEF Tabs
<1>2. \A q : Shaped(q)' <=> Shaped(q) BY <1>1 DEF Shaped
<1>3. \A x \in telling' : DOMAIN x = {"by", "user", "online", "row"}
  BY DEF Announce, PresenceInv, PresenceTypes
<1> QED BY <1>1, <1>2, <1>3 DEF PresenceInv, PresenceTypes

LEMMA ReapStep ==
  ASSUME PresenceInv, NEW c \in conns, Reap(c), reqs' = reqs
  PROVE  PresenceInv'
<1>1. /\ conns' = conns \ {c} /\ (~link[c.tab] \/ c.gen # gen[c.tab])
      /\ UNCHANGED <<limit, status, link, gen, in, wire, shown, pending, idle, hushed>> /\ HubOnly
  BY DEF Reap, net, HubOnly
<1>2. /\ Tabs' = Tabs /\ (\A t : Me(t)' = Me(t)) /\ c.tab \in Tabs /\ c.gen \in Nat /\ c.gen # 0 /\ Me(c.tab) \in User
      /\ \A d \in conns : d \in [tab : Tabs, gen : Nat, idle : BOOLEAN]
  BY <1>1, MineIsUser DEF Tabs, Me, PresenceInv, PresenceTypes
<1>3. PICK v \in User : v = Me(c.tab) BY <1>2
<1>4. \A u \in User : u # v => Held(u)' = Held(u) /\ IdleIn(conns, u)' = IdleIn(conns, u) /\ status'[u] = status[u]
  BY <1>1, <1>2, <1>3 DEF Held, IdleIn
<1>5. Held(v)' = Held(v) \ {c} /\ c \in Held(v)
  BY <1>1, <1>2, <1>3 DEF Held
<1>6. IdleIn(conns, v)' = IdleIn(conns', v) BY <1>2 DEF IdleIn
<1>7. Unsaid(v) \/ Voiced(v)
  <2>1. CASE Held(v) = {c}
    <3>1. Announce(<<c.tab, c.gen>>, v, FALSE, "") /\ BlurIf(About(v) # {}, v)
      BY <2>1, <1>3 DEF Reap
    <3>2. Held(v)' = {} /\ IdleIn(conns, v)' = FALSE
      BY <1>5, <2>1, <1>2 DEF Held, IdleIn
    <3>3. Honest(Word(<<c.tab, c.gen>>, v, FALSE, ""))'
      BY <3>2, <1>1 DEF Honest, Effective, Row, Word
    <3> QED BY <3>1, <3>3 DEF Voiced
  <2>2. CASE Held(v) # {c} /\ IdleIn(conns, v)' # IdleIn(conns, v)
    <3>1. Announce(<<c.tab, c.gen>>, v, TRUE, "") /\ BlurIf(About(v) # {}, v)
      BY <2>2, <1>3, <1>6 DEF Reap
    <3>2. IdleIn(conns, v)' \in BOOLEAN /\ Held(v)' # {} BY <1>5, <2>2 DEF IdleIn
    <3>3. Honest(Word(<<c.tab, c.gen>>, v, TRUE, ""))'
      BY <3>2, <1>1, <1>2 DEF Honest, Effective, Row, Word
    <3> QED BY <3>1, <3>3 DEF Voiced
  <2>3. CASE Held(v) # {c} /\ IdleIn(conns, v)' = IdleIn(conns, v)
    <3>1. UNCHANGED <<telling, blurred>>
      BY <2>3, <1>3, <1>6 DEF Reap
    <3> QED BY <3>1, <1>1, <1>5, <2>3 DEF Unsaid
  <2> QED BY <2>1, <2>2, <2>3
<1>8. HeardTrue' /\ ListsRight' /\ \A u \in User : Announced(u)'
  BY <1>1, <1>4, <1>7, HubMoves, HubStep
<1>9. PresenceTypes'
  <2>1. telling' = telling \/ \E by, w, online, row : Announce(by, w, online, row)
    BY DEF Reap
  <2> QED BY <1>1, <2>1, HubTypes DEF PresenceInv, PresenceTypes
<1>10. Sockets'
  BY <1>1, <1>2 DEF PresenceInv, Sockets
<1>11. FlagsKnown'
  BY <1>1 DEF PresenceInv, FlagsKnown, Flag, FlagComing
<1> QED BY <1>8, <1>9, <1>10, <1>11 DEF PresenceInv

\* The last flag of a queue is there until it is taken, and then is what was taken.
LEMMA LastKept ==
  ASSUME NEW s \in Seq(BOOLEAN), s # <<>>
  PROVE  IF Tail(s) = <<>> THEN Head(s) = s[Len(s)] ELSE Tail(s)[Len(Tail(s))] = s[Len(s)]
<1>1. Tail(s) \in Seq(BOOLEAN) /\ Len(Tail(s)) = Len(s) - 1 /\ Len(s) \in Nat /\ Len(s) > 0 /\ Head(s) = s[1] OBVIOUS
<1>2. CASE Tail(s) = <<>>
  <2>1. Len(Tail(s)) = 0 BY <1>1, <1>2, EmptySeq
  <2>2. Len(s) = 1 BY <2>1, <1>1
  <2> QED BY <1>1, <1>2, <2>2
<1>3. CASE Tail(s) # <<>>
  <2>1. Len(Tail(s)) \in 1..Len(Tail(s)) BY <1>1, <1>3
  <2> QED BY <1>1, <1>3, <2>1
<1> QED BY <1>2, <1>3

LEMMA OnIdleFrameStep ==
  ASSUME PresenceInv, NEW c \in conns, OnIdleFrame(c), reqs' = reqs
  PROVE  PresenceInv'
<1>0. PICK d : d = [c EXCEPT !.idle = Head(wire[c.tab])] OBVIOUS
<1>1. /\ conns' = (conns \ {c}) \cup {d} /\ link[c.tab] /\ c.gen = gen[c.tab]
      /\ wire[c.tab] # <<>> /\ wire' = [wire EXCEPT ![c.tab] = Tail(@)]
      /\ UNCHANGED <<limit, status, link, gen, in, shown, pending, idle, hushed>> /\ HubOnly
  BY <1>0 DEF OnIdleFrame, net, HubOnly
<1>2. /\ Tabs' = Tabs /\ (\A t : Me(t)' = Me(t)) /\ c.tab \in Tabs /\ c.gen \in Nat /\ c.gen # 0 /\ Me(c.tab) \in User
      /\ \A e \in conns : e \in [tab : Tabs, gen : Nat, idle : BOOLEAN] /\ e.gen \in 1..gen[e.tab]
  BY <1>1, MineIsUser DEF Tabs, Me, PresenceInv, PresenceTypes
<1>3. PICK v \in User : v = Me(c.tab) BY <1>2
<1>4. wire[c.tab] \in Seq(BOOLEAN) /\ Head(wire[c.tab]) \in BOOLEAN
  BY <1>1, <1>2 DEF PresenceInv, PresenceTypes
<1>5. d.tab = c.tab /\ d.gen = c.gen /\ d.idle = Head(wire[c.tab]) /\ d \in [tab : Tabs, gen : Nat, idle : BOOLEAN]
  BY <1>0, <1>2, <1>4
<1>6. \A u \in User : u # v => Held(u)' = Held(u) /\ IdleIn(conns, u)' = IdleIn(conns, u) /\ status'[u] = status[u]
  BY <1>1, <1>2, <1>3, <1>5 DEF Held, IdleIn
<1>7. Held(v)' # {} /\ Held(v) # {}
  BY <1>1, <1>2, <1>3, <1>5 DEF Held
<1>8. IdleIn(conns, v)' = IdleIn(conns', v) BY <1>2 DEF IdleIn
<1>9. Unsaid(v) \/ Voiced(v)
  <2>1. CASE IdleIn(conns, v)' # IdleIn(conns, v)
    <3>1. Announce(<<c.tab, c.gen>>, v, TRUE, "") /\ BlurIf(About(v) # {}, v)
      BY <2>1, <1>1, <1>3, <1>8, <1>0 DEF OnIdleFrame
    <3>2. IdleIn(conns, v)' \in BOOLEAN BY DEF IdleIn
    <3>3. Honest(Word(<<c.tab, c.gen>>, v, TRUE, ""))'
      BY <3>2, <1>7, <1>1, <1>2 DEF Honest, Effective, Row, Word
    <3> QED BY <3>1, <3>3 DEF Voiced
  <2>2. CASE IdleIn(conns, v)' = IdleIn(conns, v)
    <3>1. UNCHANGED <<telling, blurred>>
      BY <2>2, <1>1, <1>3, <1>8, <1>0 DEF OnIdleFrame
    <3> QED BY <3>1, <1>1, <1>7, <2>2 DEF Unsaid
  <2> QED BY <2>1, <2>2
<1>10. HeardTrue' /\ ListsRight' /\ \A u \in User : Announced(u)'
  BY <1>1, <1>6, <1>9, HubMoves, HubStep
<1>11. PresenceTypes'
  <2>1. telling' = telling \/ \E by, w, online, row : Announce(by, w, online, row)
    BY DEF OnIdleFrame
  <2>2. wire' \in [Tabs -> Seq(BOOLEAN)]
    <3>1. Tail(wire[c.tab]) \in Seq(BOOLEAN) BY <1>1, <1>4, HeadTailProperties
    <3> QED BY <3>1, <1>1, <1>2 DEF PresenceInv, PresenceTypes
  <2>3. \A e \in conns' : e \in [tab : Tabs, gen : Nat, idle : BOOLEAN] /\ e.gen \in 1..gen[e.tab]
    BY <1>1, <1>2, <1>5
  <2>4. \A e, f \in conns' : e.tab = f.tab /\ e.gen = f.gen => e = f
    BY <1>1, <1>5 DEF PresenceInv, PresenceTypes
  <2> QED BY <1>1, <2>1, <2>2, <2>3, <2>4, HubTypes DEF PresenceInv, PresenceTypes
<1>12. Sockets'
  BY <1>1, <1>2, <1>5 DEF PresenceInv, Sockets
<1>13. FlagsKnown'
  <2> SUFFICES ASSUME NEW e \in conns', link[e.tab], e.gen = gen[e.tab]
               PROVE  Flag(e)' = idle[e.tab] \/ (idle[e.tab] /\ (e.tab \in hushed \/ FlagComing(e.tab)))
    BY <1>1 DEF FlagsKnown, FlagComing
  <2>1. CASE e = d
    <3>1. Flag(d)' = Flag(c)
      <4>1. wire'[c.tab] = Tail(wire[c.tab]) BY <1>1, <1>2 DEF PresenceInv, PresenceTypes
      <4> QED BY <4>1, <1>1, <1>4, <1>5, LastKept DEF Flag
    <3> QED BY <2>1, <3>1, <1>1, <1>5 DEF PresenceInv, FlagsKnown
  <2>2. CASE e \in conns /\ e # c
    <3>1. e.tab # c.tab BY <2>2, <1>1 DEF PresenceInv, PresenceTypes
    <3>2. Flag(e)' = Flag(e) BY <3>1, <1>1, <1>2, <2>2 DEF Flag, PresenceInv, PresenceTypes
    <3> QED BY <2>2, <3>2 DEF PresenceInv, FlagsKnown
  <2> QED BY <2>1, <2>2, <1>1
<1> QED BY <1>10, <1>11, <1>12, <1>13 DEF PresenceInv

LEMMA SetStatusStep ==
  ASSUME PresenceInv, NEW t \in Tabs, NEW s, SetStatus(t, s), reqs' = reqs
  PROVE  PresenceInv'
<1>1. PICK v \in User : v = Me(t) BY MineIsUser DEF PresenceInv
<1> DEFINE cond == About(v) # {} \/ Held(v) = {} \/ IdleIn(conns, v)
<1>2. /\ status' = [status EXCEPT ![v] = s] /\ Announce(<<t, 0>>, v, s # "offline", s) /\ BlurIf(cond, v)
      /\ UNCHANGED <<limit, conns, link, gen, in, wire, shown, pending, idle, hushed>> /\ HubOnly
  BY <1>1 DEF SetStatus, net, HubOnly
<1> HIDE DEF cond
<1>3. /\ Tabs' = Tabs /\ (\A u : Held(u)' = Held(u)) /\ (\A u : IdleIn(conns, u)' = IdleIn(conns, u))
      /\ status'[v] = s /\ \A u : u # v => status'[u] = status[u]
  BY <1>2 DEF Tabs, Me, Held, IdleIn, PresenceInv, PresenceTypes
<1>4. cond \/ Honest(Word(<<t, 0>>, v, s # "offline", s))'
  <2> SUFFICES ASSUME ~cond PROVE Honest(Word(<<t, 0>>, v, s # "offline", s))'
    OBVIOUS
  <2>1. Held(v)' # {} /\ IdleIn(conns, v)' = FALSE
    <3>1. IdleIn(conns, v) \in BOOLEAN BY DEF IdleIn
    <3> QED BY <3>1, <1>3 DEF cond
  <2>2. Row(Word(<<t, 0>>, v, s # "offline", s))' = s BY <1>3 DEF Row, Word
  <2> QED BY <2>1, <2>2, <1>3 DEF Honest, Effective, Word
<1>5. Voiced(v)
  BY <1>2, <1>4 DEF Voiced, cond
<1>6. HeardTrue' /\ ListsRight' /\ \A u \in User : Announced(u)'
  <2>1. UNCHANGED <<limit, link, in, shown, pending, reqs>> BY <1>2
  <2> QED BY <2>1, <1>3, <1>5, HubMoves, HubStep
<1>7. PresenceTypes'
  <2>1. \E by, w, online, row : Announce(by, w, online, row) BY <1>2
  <2> QED BY <1>2, <2>1, HubTypes DEF PresenceInv, PresenceTypes
<1>8. Sockets' BY <1>2, <1>3 DEF PresenceInv, Sockets, Me
<1>9. FlagsKnown' BY <1>2 DEF PresenceInv, FlagsKnown, Flag, FlagComing
<1> QED BY <1>6, <1>7, <1>8, <1>9 DEF PresenceInv

LEMMA TellReadsStep ==
  ASSUME PresenceInv, NEW x \in telling, TellReads(x), reqs' = reqs
  PROVE  PresenceInv'
<1>0. PICK y : y = [x EXCEPT !.row = status[x.user]] OBVIOUS
<1>1. /\ telling' = (telling \ {x}) \cup {y} /\ x.row = ""
      /\ UNCHANGED <<limit, status, conns, link, gen, in, wire, shown, pending, idle, blurred, hushed>> /\ HubOnly
  BY <1>0 DEF TellReads, net, people, HubOnly
<1>2. DOMAIN x = {"by", "user", "online", "row"} BY DEF PresenceInv, PresenceTypes
<1>3. y.by = x.by /\ y.user = x.user /\ y.online = x.online /\ y.row = status[x.user] /\ DOMAIN y = DOMAIN x
  BY <1>0, <1>2
<1>4. /\ Tabs' = Tabs /\ (\A u : Held(u)' = Held(u)) /\ (\A u : IdleIn(conns, u)' = IdleIn(conns, u))
      /\ (\A u : Effective(u)' = Effective(u)) /\ \A u : Blurs(u)' <=> Blurs(u)
  BY <1>1 DEF Tabs, Me, Held, IdleIn, Effective, Blurs
<1>5. /\ \A u : u # x.user => About(u)' = About(u)
      /\ About(x.user)' = (About(x.user) \ {x}) \cup {y} /\ x \in About(x.user)
  BY <1>1, <1>3 DEF About
<1>6. \A u \in User : Announced(u)'
  <2>1. \A z : Honest(z) => Honest(z)' BY <1>1, <1>4 DEF Honest, Row
  <2>2. Honest(x) => Honest(y)' BY <1>1, <1>3, <1>4 DEF Honest, Row
  <2>3. \A u \in User : u # x.user => Announced(u)'
    BY <1>4, <1>5, <2>1 DEF PresenceInv, Announced, About
  <2>4. ASSUME x.user \in User, NEW z \in telling, About(x.user) = {z}, Honest(z) PROVE Announced(x.user)'
    <3>1. z = x /\ About(x.user)' = {y} /\ y \in telling' BY <1>1, <1>5, <2>4
    <3> QED BY <3>1, <2>2, <2>4, <1>1, <1>3 DEF Announced, About
  <2> QED BY <1>4, <1>5, <2>3, <2>4 DEF PresenceInv, Announced
<1>7. HeardTrue' /\ ListsRight'
  <2>1. \A u \in User : About(u)' # {} \/ (About(u) = {} /\ Effective(u)' = Effective(u)) BY <1>4, <1>5
  <2>2. blurred \subseteq blurred' BY <1>1
  <2> QED BY <1>1, <2>1, <2>2, HubStep
<1>8. PresenceTypes'
  <2>1. \A q : Shaped(q)' <=> Shaped(q) BY <1>1, <1>4 DEF Shaped
  <2> QED BY <1>1, <1>2, <1>3, <1>4, <2>1 DEF HubOnly, PresenceInv, PresenceTypes
<1>9. Sockets' BY <1>1, <1>4 DEF PresenceInv, Sockets, Me
<1>10. FlagsKnown' BY <1>1 DEF HubOnly, PresenceInv, FlagsKnown, Flag, FlagComing
<1> QED BY <1>6, <1>7, <1>8, <1>9, <1>10 DEF PresenceInv

LEMMA TellSendsStep ==
  ASSUME PresenceInv, NEW x \in telling, TellSends(x), reqs' = reqs
  PROVE  PresenceInv'
<1>0. PICK f : f = Frame(x) OBVIOUS
<1>1. /\ x.row # "" /\ telling' = telling \ {x} /\ in' = Sent(f, User)
      /\ UNCHANGED <<limit, status, conns, link, gen, wire, shown, pending, idle, hushed>>
  BY <1>0 DEF TellSends
<1>2. /\ Tabs' = Tabs /\ (\A u : Held(u)' = Held(u)) /\ (\A u : IdleIn(conns, u)' = IdleIn(conns, u))
      /\ (\A u : Effective(u)' = Effective(u)) /\ blurred \subseteq blurred'
  BY <1>1 DEF Tabs, Me, Held, IdleIn, Effective, TellSends, BlurIf
<1>3. \A u : About(u)' = About(u) \ {x} BY <1>1 DEF About
<1>4. f.type = "presence" /\ f.user = x.user BY <1>0 DEF Frame
<1>5. \A t \in Tabs : in'[t] = IF link[t] THEN Append(in[t], f) ELSE in[t]
  <2> TAKE t \in Tabs
  <2>1. link[t] => \E c \in conns : c.tab = t /\ c.gen = gen[t] BY DEF PresenceInv, Sockets
  <2>2. Me(t) \in User BY MineIsUser DEF PresenceInv
  <2> QED BY <1>1, <2>1, <2>2 DEF Sent
<1>6. PICK S : in \in [Tabs -> Seq(S)] BY DEF PresenceInv, PresenceTypes
<1>7. \A t \in Tabs : in[t] \in Seq(S) BY <1>6
<1>8. \A u \in User : Announced(u)'
  <2> SUFFICES ASSUME NEW u \in User PROVE Announced(u)' OBVIOUS
  <2>1. Blurs(u) => Blurs(u)' BY <1>2 DEF Blurs
  <2>2. \A z : Honest(z) => Honest(z)' BY <1>1, <1>2 DEF Honest, Row
  <2>3. CASE About(u) = {} BY <2>3, <1>3 DEF Announced
  <2>4. ASSUME NEW z \in telling, About(u) = {z}, Honest(z) PROVE Announced(u)'
    <3>1. CASE z = x BY <3>1, <2>4, <1>3 DEF Announced
    <3>2. CASE z # x
      <4>1. About(u)' = {z} /\ z \in telling' BY <3>2, <2>4, <1>1, <1>3
      <4> QED BY <4>1, <2>2, <2>4 DEF Announced
    <3> QED BY <3>1, <3>2
  <2> QED BY <2>1, <2>3, <2>4 DEF PresenceInv, Announced
<1>9. HeardTrue'
  <2> SUFFICES ASSUME NEW t \in Tabs, NEW u \in User, link[t], <<t, u>> \notin blurred, About(u)' = {}
               PROVE  Heard(t, u)'
    BY <1>1, <1>2 DEF HeardTrue
  <2>1. in[t] \in Seq(S) /\ in'[t] = Append(in[t], f) BY <1>5, <1>7
  <2>2. CASE u # x.user
    <3>1. ~Tells(f, u) BY <1>4, <2>2 DEF Tells
    <3>2. Muffled(in[t], in'[t]) \/ \A y : (Names(in'[t], u) <=> Names(in[t], u)) /\ (Says(in'[t], u, y) <=> Says(in[t], u, y))
      BY <2>1, <3>1, AppendedOther
    <3>3. About(u) = {} BY <1>3, <2>2 DEF About
    <3> QED BY <1>1, <1>2, <2>2, <3>1, <3>2, <3>3 DEF Heard, PresenceInv, HeardTrue, ListComing, Muffled
  <2>3. CASE u = x.user
    <3>1. About(u) = {x} BY <1>3, <2>3 DEF About
    <3>2. Honest(x) BY <3>1 DEF PresenceInv, Announced, Blurs
    <3>3. f.is = Effective(u)' BY <1>0, <1>1, <1>2, <2>3, <3>2 DEF Frame, Honest, Row
    <3>4. Tells(f, u) BY <1>4, <2>3 DEF Tells
    <3>5. Names(in'[t], u) /\ \A y : Says(in'[t], u, y) => y = f.is BY <2>1, <3>4, AppendedOwn
    <3> QED BY <3>3, <3>5 DEF Heard
  <2> QED BY <2>2, <2>3
<1>10. ListsRight'
  <2> SUFFICES ASSUME NEW q \in reqs, q.op = "list", q.at = "done", link[q.tab], NEW u \in User PROVE Right(q, u)'
    BY <1>1 DEF ListsRight
  <2>1. Right(q, u) BY DEF PresenceInv, ListsRight
  <2>2. q.tab \in Tabs BY DEF PresenceInv, PresenceTypes, Shaped
  <2>3. in[q.tab] \in Seq(S) /\ in'[q.tab] = Append(in[q.tab], f) BY <1>5, <1>7, <2>2
  <2>4. CASE u # x.user
    <3>1. ~Tells(f, u) BY <1>4, <2>4 DEF Tells
    <3>2. Names(in'[q.tab], u) <=> Names(in[q.tab], u) BY <2>3, <3>1, AppendedOther
    <3>3. About(u)' = About(u) BY <1>3, <2>4 DEF About
    <3> QED BY <1>2, <2>1, <3>2, <3>3 DEF Right
  <2>5. CASE u = x.user
    <3>1. Tells(f, u) BY <1>4, <2>5 DEF Tells
    <3>2. Names(in'[q.tab], u) BY <2>3, <3>1, AppendedOwn
    <3> QED BY <3>2 DEF Right
  <2> QED BY <2>4, <2>5
<1>11. PresenceTypes'
  <2>1. \A q : Shaped(q)' <=> Shaped(q) BY <1>2 DEF Shaped
  <2>2. \E R : in' \in [Tabs -> Seq(R)]
    <3>1. \A t \in Tabs : in'[t] \in Seq(S \cup {f})
      <4> TAKE t \in Tabs
      <4>1. in[t] \in Seq(S \cup {f}) BY <1>7
      <4>2. Append(in[t], f) \in Seq(S \cup {f}) BY <4>1
      <4> QED BY <4>1, <4>2, <1>5
    <3>2. in' = [t \in Tabs |-> in'[t]] BY <1>1 DEF Sent
    <3> QED BY <3>1, <3>2
  <2> QED BY <1>1, <1>2, <2>1, <2>2 DEF PresenceInv, PresenceTypes
<1>12. Sockets' BY <1>1, <1>2, <1>5 DEF PresenceInv, Sockets, Me
<1>13. FlagsKnown' BY <1>1 DEF PresenceInv, FlagsKnown, Flag, FlagComing
<1> QED BY <1>8, <1>9, <1>10, <1>11, <1>12, <1>13 DEF PresenceInv

LEMMA IdleFlipsStep ==
  ASSUME PresenceInv, NEW t \in Tabs, IdleFlips(t), reqs' = reqs
  PROVE  PresenceInv'
<1>1. /\ idle' = [idle EXCEPT ![t] = ~@] /\ SendWS(t, ~idle[t]) /\ (hushed' = IF link[t] THEN hushed \ {t} ELSE hushed)
      /\ UNCHANGED <<limit, status, conns, telling, link, gen, in, shown, pending, blurred>>
  BY DEF IdleFlips, server
<1>2. /\ Tabs' = Tabs /\ (\A u : Held(u)' = Held(u)) /\ (\A u : IdleIn(conns, u)' = IdleIn(conns, u))
      /\ (\A u : Effective(u)' = Effective(u)) /\ (\A u : About(u)' = About(u)) /\ \A u : Blurs(u)' <=> Blurs(u)
  BY <1>1 DEF Tabs, Me, Held, IdleIn, Effective, Blurs, About
<1>3. \A u \in User : Announced(u)'
  <2>1. \A z : Honest(z) => Honest(z)' BY <1>1, <1>2 DEF Honest, Row
  <2> QED BY <1>1, <1>2, <2>1 DEF PresenceInv, Announced
<1>4. HeardTrue' /\ ListsRight'
  <2>1. \A u \in User : About(u)' # {} \/ (About(u) = {} /\ Effective(u)' = Effective(u)) BY <1>2
  <2>2. blurred \subseteq blurred' BY <1>1
  <2> QED BY <1>1, <2>1, <2>2, HubStep
<1>5. wire \in [Tabs -> Seq(BOOLEAN)] /\ idle \in [Tabs -> BOOLEAN] BY DEF PresenceInv, PresenceTypes
<1>6. wire' \in [Tabs -> Seq(BOOLEAN)] /\ \A k \in Tabs : wire'[k] = IF k = t /\ link[t] THEN Append(wire[t], ~idle[t]) ELSE wire[k]
  BY <1>1, <1>5 DEF SendWS
<1>7. PresenceTypes'
  <2>1. \A q : Shaped(q)' <=> Shaped(q) BY <1>1, <1>2 DEF Shaped
  <2>2. idle' \in [Tabs -> BOOLEAN] BY <1>1, <1>5
  <2> QED BY <1>1, <1>2, <1>6, <2>1, <2>2 DEF PresenceInv, PresenceTypes
<1>8. Sockets' BY <1>1, <1>2, <1>6 DEF PresenceInv, Sockets, Me
<1>9. FlagsKnown'
  <2> SUFFICES ASSUME NEW c \in conns, link[c.tab], c.gen = gen[c.tab]
               PROVE  (Flag(c) = idle[c.tab] \/ (idle[c.tab] /\ (c.tab \in hushed \/ FlagComing(c.tab))))'
    BY <1>1 DEF FlagsKnown
  <2>1. c.tab \in Tabs BY DEF PresenceInv, PresenceTypes
  <2>2. CASE c.tab = t
    <3>0. wire'[t] = Append(wire[t], ~idle[t]) BY <1>6, <2>2
    <3>1. PICK b \in BOOLEAN : b = ~idle[t] OBVIOUS
    <3>2. wire[t] \in Seq(BOOLEAN) /\ wire'[t] = Append(wire[t], b) BY <3>0, <3>1, <1>5
    <3>3. wire'[t] # <<>> /\ wire'[t][Len(wire'[t])] = b BY <3>2
    <3>4. idle'[t] = b BY <1>1, <1>5, <3>1
    <3> QED BY <2>2, <3>3, <3>4 DEF Flag
  <2>3. CASE c.tab # t
    <3>1. Flag(c)' = Flag(c) BY <1>6, <2>1, <2>3 DEF Flag
    <3>2. (c.tab \in hushed)' <=> c.tab \in hushed BY <1>1, <2>3
    <3>3. FlagComing(c.tab)' <=> FlagComing(c.tab) BY DEF FlagComing
    <3>4. idle'[c.tab] = idle[c.tab] BY <1>1, <1>5, <2>1, <2>3
    <3> QED BY <3>1, <3>2, <3>3, <3>4 DEF PresenceInv, FlagsKnown
  <2> QED BY <2>2, <2>3
<1> QED BY <1>3, <1>4, <1>7, <1>8, <1>9 DEF PresenceInv

-----------------------------------------------------------------------------
(* The tab.                                                                *)

\* What is shown or pending is never mistaken for nothing pending.
LEMMA NeverUnset == ASSUME NEW u PROVE Effective(u) # Unset
<1>1. DOMAIN Effective(u) = {"online", "status", "idle"} BY DEF Effective
<1>2. DOMAIN Unset = {"none"} BY DEF Unset
<1> QED BY <1>1, <1>2

\* The hub stays as it is.
HubSame == UNCHANGED <<limit, status, conns, telling, blurred>>
LEMMA HubRests ==
  ASSUME PresenceInv, HubSame
  PROVE  /\ Tabs' = Tabs /\ (\A t : Me(t)' = Me(t)) /\ (\A u : Effective(u)' = Effective(u) /\ About(u)' = About(u))
         /\ (\A q : Shaped(q)' <=> Shaped(q)) /\ \A u \in User : Announced(u)'
<1> USE DEF HubSame
<1>1. Tabs' = Tabs /\ (\A t : Me(t)' = Me(t)) /\ (\A u : IdleIn(conns, u)' = IdleIn(conns, u) /\ Held(u)' = Held(u))
  BY DEF Tabs, Me, Held, IdleIn
<1>2. \A u : Effective(u)' = Effective(u) /\ About(u)' = About(u) BY <1>1 DEF Effective, About
<1>3. \A q : Shaped(q)' <=> Shaped(q) BY <1>1 DEF Shaped
<1>4. \A u \in User : Announced(u)'
  <2>1. \A z : Honest(z) => Honest(z)' BY <1>1, <1>2 DEF Honest, Row
  <2>2. \A u : Blurs(u) => Blurs(u)' BY <1>1 DEF Blurs
  <2> QED BY <1>2, <2>1, <2>2 DEF PresenceInv, Announced
<1> QED BY <1>1, <1>2, <1>3, <1>4

LEMMA FanOutPresenceStep ==
  ASSUME PresenceInv, NEW t \in Tabs, NEW u \in User, FanOutPresence(t, u), reqs' = reqs
  PROVE  PresenceInv'
<1>1. /\ pending[t][u] # Unset /\ shown' = [shown EXCEPT ![t][u] = pending[t][u]] /\ pending' = [pending EXCEPT ![t][u] = Unset]
      /\ HubSame /\ UNCHANGED <<link, gen, in, wire, idle, hushed>>
  BY DEF FanOutPresence, SetPresence, server, net, HubSame
<1>2. /\ Tabs' = Tabs /\ (\A k : Me(k)' = Me(k)) /\ (\A v : Effective(v)' = Effective(v) /\ About(v)' = About(v))
      /\ (\A q : Shaped(q)' <=> Shaped(q)) /\ \A v \in User : Announced(v)'
  BY <1>1, HubRests
<1>3. /\ DOMAIN shown = Tabs /\ DOMAIN pending = Tabs
      /\ \A k \in Tabs : DOMAIN shown[k] = User /\ DOMAIN pending[k] = User
  BY DEF PresenceInv, PresenceTypes
<1>4. /\ DOMAIN shown' = Tabs /\ DOMAIN pending' = Tabs
      /\ \A k \in Tabs : DOMAIN shown'[k] = User /\ DOMAIN pending'[k] = User
      /\ \A k \in Tabs, v \in User :
           /\ shown'[k][v] = IF k = t /\ v = u THEN pending[t][u] ELSE shown[k][v]
           /\ pending'[k][v] = IF k = t /\ v = u THEN Unset ELSE pending[k][v]
  BY <1>1, <1>3
<1>5. PresenceTypes'
  BY <1>1, <1>2, <1>4 DEF HubSame, PresenceInv, PresenceTypes
<1>6. Sockets'
  <2>1. \A k \in Tabs : Me(k) \in User BY MineIsUser DEF PresenceInv
  <2> QED BY <1>1, <1>2, <1>4, <2>1 DEF HubSame, PresenceInv, Sockets
<1>7. FlagsKnown' BY <1>1 DEF HubSame, PresenceInv, FlagsKnown, Flag, FlagComing
<1>8. HeardTrue'
  <2> SUFFICES ASSUME NEW k \in Tabs, NEW v \in User, link[k], <<k, v>> \notin blurred, About(v) = {}
               PROVE  Heard(k, v)'
    BY <1>1, <1>2 DEF HubSame, HeardTrue
  <2>1. Heard(k, v) BY DEF PresenceInv, HeardTrue
  <2> QED BY <1>1, <1>2, <1>4, <2>1 DEF Heard, ListComing
<1>9. ListsRight' BY <1>1, <1>2 DEF PresenceInv, ListsRight, Right
<1> QED BY <1>2, <1>5, <1>6, <1>7, <1>8, <1>9 DEF PresenceInv

LEMMA OnPresenceStep ==
  ASSUME PresenceInv, NEW t \in Tabs, OnPresence(t)
  PROVE  PresenceInv'
<1>0. PICK e : e = Head(in[t]) OBVIOUS
<1>1. /\ in[t] # <<>> /\ e.type = "presence" /\ in' = [in EXCEPT ![t] = Tail(@)]
      /\ SchedulePresenceUpdate(t, e.user, e.is) /\ reqs' = Overtaken(t, e, e.user)
      /\ HubSame /\ UNCHANGED <<link, gen, wire, idle, hushed>>
  BY <1>0 DEF OnPresence, Takes, server, HubSame
<1>2. /\ Tabs' = Tabs /\ (\A k : Me(k)' = Me(k)) /\ (\A v : Effective(v)' = Effective(v) /\ About(v)' = About(v))
      /\ (\A q : Shaped(q)' <=> Shaped(q)) /\ \A v \in User : Announced(v)'
  BY <1>1, HubRests
<1>3. /\ DOMAIN shown = Tabs /\ DOMAIN pending = Tabs
      /\ \A k \in Tabs : DOMAIN shown[k] = User /\ DOMAIN pending[k] = User
  BY DEF PresenceInv, PresenceTypes
<1>4. PICK S : in \in [Tabs -> Seq(S)] BY DEF PresenceInv, PresenceTypes
<1>5. in[t] \in Seq(S) /\ Tail(in[t]) \in Seq(S) /\ in' \in [Tabs -> Seq(S)] /\ in'[t] = Tail(in[t])
      /\ \A k \in Tabs \ {t} : in'[k] = in[k]
  <2>1. in[t] \in Seq(S) BY <1>4
  <2>2. Tail(in[t]) \in Seq(S) BY <1>1, <2>1, HeadTailProperties
  <2> QED BY <1>1, <1>4, <2>1, <2>2
<1>6. /\ DOMAIN shown' = Tabs /\ DOMAIN pending' = Tabs
      /\ \A k \in Tabs : DOMAIN shown'[k] = User /\ DOMAIN pending'[k] = User
      /\ \A k \in Tabs, v \in User : k # t \/ v # e.user => shown'[k][v] = shown[k][v] /\ pending'[k][v] = pending[k][v]
      /\ e.user \in User => IF e.user = Me(t) THEN shown'[t][e.user] = e.is /\ pending'[t][e.user] = pending[t][e.user]
                            ELSE /\ shown'[t][e.user] = shown[t][e.user]
                                 /\ pending'[t][e.user] = IF e.is = shown[t][e.user] THEN Unset ELSE e.is
  <2>1. CASE e.user = Me(t)
    <3>1. shown' = [shown EXCEPT ![t][e.user] = e.is] /\ pending' = pending
      BY <1>1, <2>1 DEF SchedulePresenceUpdate, SetPresence
    <3> QED BY <1>3, <2>1, <3>1
  <2>2. CASE e.user # Me(t)
    <3>1. /\ pending' = [pending EXCEPT ![t][e.user] = IF e.is = shown[t][e.user] THEN Unset ELSE e.is] /\ shown' = shown
      BY <1>1, <2>2 DEF SchedulePresenceUpdate
    <3> QED BY <1>3, <2>2, <3>1
  <2> QED BY <2>1, <2>2
<1>7. Keeps(reqs, reqs')
  <2>1. Keeps(reqs, reqs) BY SelfKeeps DEF PresenceInv, PresenceTypes
  <2> QED BY <1>1, <2>1, OvertakenKeeps
<1>8. PresenceTypes'
  BY <1>1, <1>2, <1>5, <1>6, <1>7 DEF HubSame, PresenceInv, PresenceTypes, Keeps
<1>9. Sockets'
  <2>1. \A k \in Tabs : Me(k) \in User BY MineIsUser DEF PresenceInv
  <2>2. link[t] BY <1>1 DEF PresenceInv, Sockets
  <2>3. gen[t] # 0
    <3>1. PICK c \in conns : c.tab = t /\ c.gen = gen[t] BY <2>2 DEF PresenceInv, Sockets
    <3> QED BY <3>1 DEF PresenceInv, PresenceTypes
  <2> SUFFICES ASSUME NEW k \in Tabs
               PROVE  /\ link[k] => \E c \in conns : c.tab = k /\ c.gen = gen[k]
                      /\ ~link[k] => in'[k] = <<>> /\ wire[k] = <<>>
                      /\ gen[k] = 0 => \A u \in User : pending'[k][u] = Unset
                      /\ pending'[k][Me(k)] = Unset
    BY <1>1, <1>2 DEF HubSame, Sockets
  <2>4. /\ link[k] => \E c \in conns : c.tab = k /\ c.gen = gen[k]
        /\ ~link[k] => in[k] = <<>> /\ wire[k] = <<>>
        /\ gen[k] = 0 => \A u \in User : pending[k][u] = Unset
        /\ pending[k][Me(k)] = Unset
    BY DEF PresenceInv, Sockets
  <2>5. CASE k # t BY <1>5, <1>6, <2>1, <2>4, <2>5
  <2>6. CASE k = t
    <3>1. pending'[t][Me(t)] = Unset BY <1>6, <2>1, <2>4, <2>6
    <3> QED BY <2>2, <2>3, <2>4, <2>6, <3>1
  <2> QED BY <2>5, <2>6
<1>10. \A k \in Tabs : (FlagComing(k) => FlagComing(k)') /\ (ListComing(k) => ListComing(k)')
  BY <1>7 DEF FlagComing, ListComing, Keeps, Follows, Resyncing
<1>11. FlagsKnown'
  <2>1. \A c : Flag(c)' = Flag(c) BY <1>1 DEF Flag
  <2>2. \A c \in conns : c.tab \in Tabs BY DEF PresenceInv, PresenceTypes
  <2> QED BY <1>1, <1>10, <2>1, <2>2 DEF HubSame, PresenceInv, FlagsKnown
<1>12. HeardTrue'
  <2> SUFFICES ASSUME NEW k \in Tabs, NEW v \in User, link[k], <<k, v>> \notin blurred, About(v) = {}
               PROVE  Heard(k, v)'
    BY <1>1, <1>2 DEF HubSame, HeardTrue
  <2>1. Heard(k, v) BY DEF PresenceInv, HeardTrue
  <2>2. CASE k # t BY <1>2, <1>5, <1>6, <1>10, <2>1, <2>2 DEF Heard
  <2>3. CASE k = t /\ v # e.user
    <3>1. ~Tells(e, v) BY <2>3 DEF Tells
    <3>2. (Names(in'[t], v) <=> Names(in[t], v)) /\ \A x : Says(in'[t], v, x) => Says(in[t], v, x)
      BY <1>0, <1>1, <1>5, <3>1, TakenFrame
    <3> QED BY <1>2, <1>6, <1>10, <2>1, <2>3, <3>2 DEF Heard
  <2>4. CASE k = t /\ v = e.user
    <3>1. Tells(e, v) BY <1>1, <2>4 DEF Tells
    <3>2. /\ \A x : Says(in'[t], v, x) => Says(in[t], v, x)
          /\ ~Names(in'[t], v) => Says(in[t], v, e.is)
      BY <1>0, <1>1, <1>5, <3>1, TakenFrame
    <3>3. ~Names(in'[t], v) => e.is = Effective(v) BY <2>1, <2>4, <3>2 DEF Heard
    <3>4. pending[t][Me(t)] = Unset BY DEF PresenceInv, Sockets
    <3> QED BY <1>2, <1>6, <2>1, <2>4, <3>2, <3>3, <3>4, NeverUnset DEF Heard
  <2> QED BY <2>2, <2>3, <2>4
<1>13. ListsRight'
  <2> SUFFICES ASSUME NEW p \in reqs', p.op = "list", p.at = "done", link[p.tab], NEW v \in User
               PROVE  Right(p, v)'
    BY <1>1 DEF ListsRight
  <2>1. PICK q \in reqs : p = IF q.tab = t /\ LateFor(q, e) THEN [q EXCEPT !.late = @ \cup {e.user}] ELSE q
    BY <1>1 DEF Overtaken
  <2>2. Shaped(q) BY DEF PresenceInv, PresenceTypes
  <2>3. p.tab = q.tab /\ q.op = "list" /\ q.at = "done" /\ p.row = q.row /\ q.late \subseteq p.late /\ q.tab \in Tabs
        /\ (q.tab = t /\ LateFor(q, e) => e.user \in p.late)
    BY <2>1, <2>2 DEF Shaped, ReqFields
  <2>4. Right(q, v) BY <2>3 DEF PresenceInv, ListsRight
  <2>5. CASE q.tab = t /\ v = e.user
    <3>1. LateFor(q, e) BY <2>3 DEF LateFor
    <3> QED BY <2>3, <2>5, <3>1 DEF Right
  <2>6. CASE q.tab = t /\ v # e.user
    <3>1. ~Tells(e, v) BY <2>6 DEF Tells
    <3>2. Names(in[t], v) => Names(in'[t], v)
      BY <1>0, <1>1, <1>5, <3>1, TakenFrame
    <3> QED BY <1>2, <2>3, <2>4, <2>6, <3>2 DEF Right
  <2>7. CASE q.tab # t BY <1>2, <1>5, <2>3, <2>4, <2>7 DEF Right
  <2> QED BY <2>5, <2>6, <2>7
<1> QED BY <1>2, <1>8, <1>9, <1>11, <1>12, <1>13 DEF PresenceInv

-----------------------------------------------------------------------------
(* Requests and their answers.                                             *)

\* Requests apart, only a queue changes, by a frame that is no one's presence.
Still == UNCHANGED <<limit, server, link, gen, wire, people>>
Kept == \/ in' = in
        \/ \E t \in Tabs : \E typ : typ # "presence" /\ Takes(t, typ)
        \/ \E e, audience : e.type # "presence" /\ in' = Sent(e, audience)
LEMMA StillStep ==
  ASSUME PresenceInv, Still, Carried, Kept
  PROVE  PresenceInv'
<1>0. PICK S : in \in [Tabs -> Seq(S)] BY DEF PresenceInv, PresenceTypes
<1>1. CASE in' = in
  BY <1>0, <1>1, PlainStep DEF Still, Muffled
<1>2. ASSUME NEW t \in Tabs, NEW typ, typ # "presence", Takes(t, typ) PROVE PresenceInv'
  <2>1. in[t] # <<>> /\ Head(in[t]).type # "presence" /\ in' = [in EXCEPT ![t] = Tail(@)] /\ in[t] \in Seq(S)
    BY <1>0, <1>2 DEF Takes
  <2>2. Tail(in[t]) \in Seq(S) BY <2>1, HeadTailProperties
  <2>3. in' \in [Tabs -> Seq(S)] /\ in'[t] = Tail(in[t]) /\ \A k \in Tabs \ {t} : in'[k] = in[k]
    BY <1>0, <2>1, <2>2
  <2>4. Muffled(in[t], in'[t])
    <3>1. \A u \in User : ~Tells(Head(in[t]), u) BY <2>1 DEF Tells
    <3> QED BY <2>1, <2>3, <3>1, TakenFrame DEF Muffled
  <2>5. \A k \in Tabs : Muffled(in[k], in'[k]) BY <2>3, <2>4 DEF Muffled
  <2>6. \A k \in Tabs : (in[k] = <<>> => in'[k] = <<>>) \/ link[k] BY <2>1, <2>3
  <2> QED BY <2>3, <2>5, <2>6, PlainStep DEF Still
<1>3. ASSUME NEW e, NEW audience, e.type # "presence", in' = Sent(e, audience) PROVE PresenceInv'
  <2>1. \A k \in Tabs : in[k] \in Seq(S) /\ (in'[k] = in[k] \/ (in'[k] = Append(in[k], e) /\ link[k]))
    BY <1>0, <1>3 DEF Sent
  <2>2. in' \in [Tabs -> Seq(S \cup {e})]
    <3>1. \A k \in Tabs : in'[k] \in Seq(S \cup {e})
      <4> TAKE k \in Tabs
      <4>1. in[k] \in Seq(S \cup {e}) BY <2>1
      <4>2. Append(in[k], e) \in Seq(S \cup {e}) BY <4>1
      <4> QED BY <4>1, <4>2, <2>1
    <3>2. in' = [k \in Tabs |-> in'[k]] BY <1>3 DEF Sent
    <3> QED BY <3>1, <3>2
  <2>3. \A k \in Tabs : Muffled(in[k], in'[k])
    <3> TAKE k \in Tabs
    <3>1. \A u \in User : ~Tells(e, u) BY <1>3 DEF Tells
    <3> QED BY <2>1, <3>1, AppendedOther DEF Muffled
  <2>4. \A k \in Tabs : (in[k] = <<>> => in'[k] = <<>>) \/ link[k] BY <2>1
  <2> QED BY <2>2, <2>3, <2>4, PlainStep DEF Still
<1> QED BY <1>1, <1>2, <1>3 DEF Kept

\* A request at another stage, unless it is a list that has been read.
LEMMA RestagedKeeps ==
  ASSUME PresenceInv, NEW q \in reqs, NEW r, DOMAIN r = ReqFields, r.tab = q.tab, r.op = q.op, r.val = q.val,
         Resyncing(q) => r.at \in {"ask", "done", "failed"}, ~(r.op = "list" /\ r.at = "done")
  PROVE  Keeps(reqs, Rest(q) \cup {r})
<1>1. (\A p \in reqs : Shaped(p)) /\ Shaped(r) BY DEF PresenceInv, PresenceTypes, Shaped, Resyncing
<1>2. Follows(q, r) BY DEF Follows
<1>3. \A p : Follows(p, p) BY DEF Follows
<1> QED BY <1>1, <1>2, <1>3 DEF Keeps, Rest

\* The requests a view asks its members with.
LEMMA LoadKeeps ==
  ASSUME NEW A, NEW B, Keeps(A, B), NEW t \in Tabs, NEW v, RefreshActiveMembers(t, v, B) \/ LoadChannel(t, v, B)
  PROVE  Keeps(A, reqs')
<1>0. PICK r : r = Req(t, "members", v.active, 0, Bare, "ask") OBVIOUS
<1>1. reqs' = B \/ reqs' = B \cup {r}
  BY <1>0 DEF RefreshActiveMembers, LoadChannel
<1>2. Shaped(r) /\ r.op = "members" BY <1>0, ReqShaped
<1>3. \A p \in {r} : Shaped(p) /\ ~(p.op = "list" /\ p.at = "done") BY <1>2
<1>4. Keeps(A, B \cup {r}) BY <1>3, MoreKeeps
<1> QED BY <1>1, <1>4

\* The handlers: a request goes through its stages.
LEMMA HandlersStep ==
  ASSUME PresenceInv, NEW q \in reqs,
         \/ Reads(q) \/ UpdateWrites(q) \/ UpdateLoads(q) \/ CreateWrites(q) \/ ArchiveWrites(q)
         \/ CloseDMWrites(q) \/ DMWrites(q) \/ PostWrites(q) \/ InviteWrites(q)
         \/ RemoveGathers(q) \/ RemoveWrites(q) \/ MuteWrites(q) \/ MembersAnswers(q)
         \/ Gathers(q) \/ Broadcasts(q) \/ Refused(q)
  PROVE  PresenceInv'
<1>0. DOMAIN q = ReqFields /\ (Resyncing(q) => q.at \in {"ask", "done", "failed"}) /\ \A p \in reqs : Shaped(p)
  BY DEF PresenceInv, PresenceTypes, Shaped
<1>1. Keeps(reqs, reqs) BY <1>0, SelfKeeps
<1> DEFINE Plain(r) == /\ DOMAIN r = ReqFields /\ r.tab = q.tab /\ r.op = q.op /\ r.val = q.val
                       /\ (Resyncing(q) => r.at \in {"ask", "done", "failed"}) /\ ~(r.op = "list" /\ r.at = "done")
<1>2. ASSUME NEW r, Plain(r) PROVE Keeps(reqs, Rest(q) \cup {r}) BY <1>2, RestagedKeeps
<1>3. ASSUME NEW r, Plain(r), reqs' = Rest(q) \cup {r}, Still, Kept PROVE PresenceInv'
  BY <1>2, <1>3, KeptIsCarried, StillStep
<1>4. ASSUME NEW r, Plain(r), NEW lost, reqs' = Stale(lost, Rest(q) \cup {r}), Still, Kept PROVE PresenceInv'
  <2>1. Keeps(reqs, Stale(lost, Rest(q) \cup {r})) BY <1>2, <1>4, StaleKeeps
  <2> QED BY <1>4, <2>1, KeptIsCarried, StillStep
<1>5. ASSUME ~Resyncing(q), reqs' = reqs \ {q}, Still, Kept PROVE PresenceInv'
  <2>1. Keeps(reqs, reqs \ {q}) BY <1>1, <1>5, LessKeeps
  <2> QED BY <1>5, <2>1, KeptIsCarried, StillStep
<1> HIDE DEF Plain
<1>6. \A at : ~Resyncing(q) => Plain(At(q, at)) /\ \A row : Plain([q EXCEPT !.at = at, !.row = row])
  BY <1>0 DEF At, Plain, ReqFields, Resyncing
<1>7. \A at, aud : ~Resyncing(q) => Plain([q EXCEPT !.at = at, !.aud = aud])
  BY <1>0 DEF Plain, ReqFields, Resyncing
<1> USE DEF presence, server, net, people
<1>8. CASE Reads(q)
  BY <1>3, <1>6, <1>8 DEF Reads, Becomes, Still, Kept, Resyncing
<1>9. CASE UpdateWrites(q)
  BY <1>3, <1>6, <1>9 DEF UpdateWrites, Becomes, Still, Kept, Resyncing
<1>10. CASE UpdateLoads(q)
  BY <1>3, <1>6, <1>10 DEF UpdateLoads, Becomes, Still, Kept, Resyncing
<1>11. CASE CreateWrites(q)
  BY <1>3, <1>6, <1>11 DEF CreateWrites, Becomes, Still, Kept, Resyncing
<1>12. CASE ArchiveWrites(q)
  BY <1>3, <1>6, <1>12 DEF ArchiveWrites, Becomes, Still, Kept, Resyncing
<1>13. CASE CloseDMWrites(q)
  BY <1>4, <1>6, <1>13 DEF CloseDMWrites, Lose, Still, Kept, Resyncing
<1>14. CASE DMWrites(q)
  <2>1. PICK at : at = IF q.chan \notin made THEN "gather" ELSE "done" OBVIOUS
  <2>2. PICK lost : lost = IF q.chan \notin made THEN {} ELSE Untold(q) OBVIOUS
  <2>3. PICK r : r = [q EXCEPT !.at = at, !.row = rows[q.chan]] OBVIOUS
  <2>4. reqs' = Stale(lost, Rest(q) \cup {r}) /\ Still /\ Kept /\ ~Resyncing(q)
    BY <1>14, <2>1, <2>2, <2>3 DEF DMWrites, Lose, Still, Kept, Resyncing
  <2> QED BY <1>4, <1>6, <2>3, <2>4
<1>15. CASE PostWrites(q)
  BY <1>3, <1>5, <1>6, <1>15 DEF PostWrites, Becomes, Still, Kept, Resyncing
<1>16. CASE InviteWrites(q)
  BY <1>3, <1>6, <1>16 DEF InviteWrites, Becomes, Still, Kept, Resyncing
<1>17. CASE RemoveGathers(q)
  BY <1>3, <1>7, <1>17 DEF RemoveGathers, Becomes, Still, Kept, Resyncing
<1>18. CASE RemoveWrites(q)
  BY <1>3, <1>6, <1>18 DEF RemoveWrites, Becomes, Still, Kept, Resyncing
<1>19. CASE MuteWrites(q)
  BY <1>3, <1>7, <1>19 DEF MuteWrites, Becomes, Still, Kept, Resyncing
<1>20. CASE MembersAnswers(q)
  BY <1>3, <1>6, <1>7, <1>20 DEF MembersAnswers, Becomes, Still, Kept, Resyncing
<1>21. CASE Gathers(q)
  BY <1>0, <1>3, <1>7, <1>21 DEF Gathers, Becomes, Still, Kept
<1>22. CASE Broadcasts(q)
  <2>1. Event(q).type # "presence"
    BY DEF Event
  <2>2. Still /\ Kept /\ ~Resyncing(q) /\ (reqs' = reqs \ {q} \/ reqs' = Rest(q) \cup {At(q, "done")})
    BY <1>0, <1>22, <2>1 DEF Broadcasts, Becomes, Still, Kept
  <2> QED BY <1>3, <1>5, <1>6, <2>2
<1>23. CASE Refused(q)
  <2>1. Plain(At(q, "failed")) BY <1>0 DEF At, Plain, ReqFields
  <2> QED BY <1>3, <1>23, <2>1 DEF Refused, Becomes, Still, Kept
<1> QED BY <1>8, <1>9, <1>10, <1>11, <1>12, <1>13, <1>14, <1>15, <1>16, <1>17, <1>18, <1>19, <1>20, <1>21, <1>22, <1>23

\* The answers other than those of a resync.
LEMMA AnswersStep ==
  ASSUME PresenceInv, NEW q \in reqs,
         \/ MembersLand(q) \/ RollLands(q) \/ InviteLands(q) \/ MuteLands(q) \/ RemoveLands(q) \/ LeaveLands(q)
         \/ CloseDMLands(q) \/ StartDMLands(q)
  PROVE  PresenceInv'
<1>0. (\A p \in reqs : Shaped(p)) /\ q.tab \in Tabs BY DEF PresenceInv, PresenceTypes, Shaped
<1>1. Keeps(reqs, reqs) BY <1>0, SelfKeeps
<1> USE DEF presence, server, net, people
<1>2. Still /\ Kept /\ ~Resyncing(q)
  BY DEF MembersLand, RollLands, InviteLands, MuteLands, RemoveLands, LeaveLands, CloseDMLands, StartDMLands, Answered,
         Still, Kept, Resyncing
<1>3. SUFFICES Keeps(reqs, reqs') BY <1>2, KeptIsCarried, StillStep
<1>4. Keeps(reqs, Rest(q)) BY <1>1, <1>2, LessKeeps DEF Rest
<1>5. \A late : Keeps(reqs, Unlisted(q, late)) BY <1>1, <1>2, UnlistedKeeps
<1>6. CASE MembersLand(q)
  <2> DEFINE L(p) == [p EXCEPT !.late = @ \cup {p.chan}]
  <2>1. reqs' = {IF p.tab = q.tab /\ p.op \in {"members", "roll"} /\ p.at = "done" THEN L(p) ELSE p : p \in Rest(q)}
    BY <1>6 DEF MembersLand
  <2>2. \A p : Later(p, L(p)) /\ Later(p, p) BY DEF Later
  <2>3. (\A p \in Rest(q) : p \in reqs' \/ L(p) \in reqs') /\ \A r \in reqs' : \E p \in Rest(q) : r = p \/ r = L(p)
    BY <2>1
  <2> HIDE DEF L
  <2> QED BY <1>4, <2>2, <2>3, LaterKeeps
<1>7. CASE RollLands(q) \/ RemoveLands(q)
  BY <1>4, <1>7 DEF RollLands, RemoveLands
<1>8. CASE InviteLands(q)
  <2>1. PICK r : r = Req(q.tab, "roll", q.chan, 0, [was |-> view[q.tab].active], "ask") OBVIOUS
  <2>2. Shaped(r) /\ r.op = "roll" BY <1>0, <2>1, ReqShaped
  <2>3. \A p \in {r} : Shaped(p) /\ ~(p.op = "list" /\ p.at = "done") BY <2>2
  <2>4. Keeps(reqs, Rest(q) \cup {r}) BY <1>4, <2>3, MoreKeeps
  <2> QED BY <1>8, <2>1, <2>4 DEF InviteLands
<1>9. CASE MuteLands(q)
  BY <1>4, <1>9, StaleKeeps DEF MuteLands, Lose
<1>10. CASE LeaveLands(q)
  <2>1. CASE q.at = "done"
    <3>1. LoadChannel(q.tab, Render(RemoveChannel(view[q.tab], q.chan)), Unlisted(q, q.late # {}))
      BY <1>10, <2>1 DEF LeaveLands
    <3> QED BY <1>0, <1>5, <3>1, LoadKeeps
  <2>2. CASE q.at # "done" BY <1>4, <1>10, <2>2 DEF LeaveLands
  <2> QED BY <2>1, <2>2
<1>11. CASE CloseDMLands(q)
  <2>1. PICK late \in BOOLEAN :
          \/ reqs' = Unlisted(q, late)
          \/ \E v : LoadChannel(q.tab, v, Unlisted(q, late))
    BY <1>11 DEF CloseDMLands
  <2> QED BY <1>0, <1>5, <2>1, LoadKeeps
<1>12. CASE StartDMLands(q)
  <2>1. \E v : LoadChannel(q.tab, v, Unlisted(q, q.late # {})) BY <1>12 DEF StartDMLands
  <2> QED BY <1>0, <1>5, <2>1, LoadKeeps
<1> QED BY <1>6, <1>7, <1>8, <1>9, <1>10, <1>11, <1>12

\* The other frames, and the repaint.
LEMMA EventsStep ==
  ASSUME PresenceInv, NEW t \in Tabs, OnChannel(t) \/ OnArchive(t) \/ OnMemberRemove(t) \/ OnMute(t) \/ FlushRenders(t)
  PROVE  PresenceInv'
<1>0. \A p \in reqs : Shaped(p) BY DEF PresenceInv, PresenceTypes
<1>1. Keeps(reqs, reqs) BY <1>0, SelfKeeps
<1> USE DEF presence, server, net, people
<1>2. Still
  BY DEF OnChannel, OnArchive, OnMemberRemove, OnMute, FlushRenders, Still
<1>3. Kept
  BY DEF OnChannel, OnArchive, OnMemberRemove, OnMute, FlushRenders, Kept
<1>4. \A e, what : Keeps(reqs, Overtaken(t, e, what)) BY <1>1, OvertakenKeeps
<1>5. \/ reqs' = reqs
      \/ \E e, what : \/ reqs' = Overtaken(t, e, what)
                      \/ \E v : RefreshActiveMembers(t, v, Overtaken(t, e, what)) \/ LoadChannel(t, v, Overtaken(t, e, what))
  <2>1. CASE OnChannel(t) BY <2>1 DEF OnChannel
  <2>2. CASE OnArchive(t) BY <2>2 DEF OnArchive
  <2>3. CASE OnMemberRemove(t) BY <2>3 DEF OnMemberRemove
  <2>4. CASE OnMute(t) BY <2>4 DEF OnMute
  <2>5. CASE FlushRenders(t) BY <2>5 DEF FlushRenders
  <2> QED BY <2>1, <2>2, <2>3, <2>4, <2>5
<1>6. Keeps(reqs, reqs') BY <1>1, <1>4, <1>5, LoadKeeps
<1> QED BY <1>2, <1>3, <1>6, KeptIsCarried, StillStep

\* What users do.
LEMMA UsesStep == ASSUME PresenceInv, Uses PROVE PresenceInv'
<1>0. \A p \in reqs : Shaped(p) BY DEF PresenceInv, PresenceTypes
<1>1. Keeps(reqs, reqs) BY <1>0, SelfKeeps
<1>2. PICK t \in Tabs :
        \/ \E c \in Chan : Click(t, c) \/ ToggleMute(t, c) \/ CreateChannel(t, c) \/ DeleteChannel(t, c)
                           \/ StartDM(t, c) \/ CloseDM(t, c) \/ Post(t, c) \/ Press(t, c)
        \/ \E c \in Chan, u \in User : AddMember(t, c, u)
        \/ \E d \in {-1, 1} : NavigateChannels(t, d)
        \/ \E u \in User : RemoveMember(t, u)
        \/ SaveTopic(t) \/ OpenInviteModal(t) \/ LeaveActiveChannel(t)
        \/ BeginDrag(t) \/ (\E k \in 0..3 : UpdateDrag(t, k)) \/ EndDrag(t) \/ Release(t)
  BY DEF Uses
<1> USE DEF presence, server, net, people, UserDoes
<1>3. SUFFICES Still /\ Kept /\ Keeps(reqs, reqs') BY KeptIsCarried, StillStep
<1>4. ASSUME NEW op, ~(op \in {"list", "summary", "settle"}), NEW c, NEW u, NEW val, NEW at, reqs' = reqs \cup {Req(t, op, c, u, val, at)}
      PROVE  Keeps(reqs, reqs')
  <2>1. PICK r : r = Req(t, op, c, u, val, at) OBVIOUS
  <2>2. Shaped(r) /\ r.op = op BY <1>4, <2>1, ReqShaped
  <2>3. \A p \in {r} : Shaped(p) /\ ~(p.op = "list" /\ p.at = "done") BY <1>4, <2>2
  <2> QED BY <1>1, <1>4, <2>1, <2>3, MoreKeeps
<1>5. ASSUME NEW c, Select(t, c) PROVE Still /\ Kept /\ Keeps(reqs, reqs')
  <2>1. Still /\ Kept BY <1>5 DEF Select, Still, Kept
  <2>2. \E v : LoadChannel(t, v, reqs) BY <1>5 DEF Select
  <2> QED BY <1>1, <2>1, <2>2, LoadKeeps
<1>6. ASSUME NEW c, Click(t, c) \/ NavigateChannels(t, 1) \/ NavigateChannels(t, -1) PROVE Still /\ Kept /\ Keeps(reqs, reqs')
  <2>1. \E d : Select(t, d) BY <1>6 DEF Click, NavigateChannels
  <2> QED BY <1>5, <2>1
<1>7. ASSUME NEW c, ToggleMute(t, c) PROVE Still /\ Kept /\ Keeps(reqs, reqs')
  <2>1. Still /\ Kept BY <1>7 DEF ToggleMute, Still, Kept
  <2> DEFINE L(p) == [p EXCEPT !.late = @ \cup {c}]
             B == {IF q.tab = t /\ ((q.op = "mute" /\ q.chan = c) \/ (q.op = "summary" /\ q.at = "done")) THEN L(q) ELSE q : q \in reqs}
  <2>2. PICK on : on = (c \notin view[t].muted) OBVIOUS
  <2>3. PICK r : r = Req(t, "mute", c, Me(t), [on |-> on], "write") OBVIOUS
  <2>4. PICK X : X = {q.chan : q \in {q \in Of(t) : q.op = "mute" /\ q.chan = c}} OBVIOUS
  <2>5. reqs' = B \cup {[r EXCEPT !.late = X]} BY <1>7, <2>2, <2>3, <2>4 DEF ToggleMute
  <2>6. Shaped(r) /\ r.op = "mute" /\ r.late = {} BY <2>3, ReqShaped
  <2>7. Shaped([r EXCEPT !.late = X]) /\ [r EXCEPT !.late = X].op = "mute"
    BY <2>6 DEF Shaped, ReqFields, Resyncing
  <2>8. \A p : Later(p, L(p)) /\ Later(p, p) BY DEF Later
  <2>9. (\A p \in reqs : p \in B \/ L(p) \in B) /\ \A z \in B : \E p \in reqs : z = p \/ z = L(p) OBVIOUS
  <2> HIDE DEF L, B
  <2>10. Keeps(reqs, B) BY <1>1, <2>8, <2>9, LaterKeeps
  <2>11. \A p \in {[r EXCEPT !.late = X]} : Shaped(p) /\ ~(p.op = "list" /\ p.at = "done") BY <2>7
  <2> QED BY <2>1, <2>5, <2>10, <2>11, MoreKeeps
<1>8. ASSUME NEW c, CreateChannel(t, c) \/ DeleteChannel(t, c) \/ StartDM(t, c) \/ CloseDM(t, c) \/ Post(t, c)
      PROVE  Still /\ Kept /\ Keeps(reqs, reqs')
  <2>1. Still /\ Kept BY <1>8 DEF CreateChannel, DeleteChannel, StartDM, CloseDM, Post, Still, Kept
  <2> QED BY <1>4, <1>8, <2>1 DEF CreateChannel, DeleteChannel, StartDM, CloseDM, Post, Asks
<1>9. ASSUME NEW c, NEW u, AddMember(t, c, u) \/ RemoveMember(t, u) \/ LeaveActiveChannel(t) \/ OpenInviteModal(t) \/ SaveTopic(t)
      PROVE  Still /\ Kept /\ Keeps(reqs, reqs')
  <2>1. Still /\ Kept BY <1>9 DEF AddMember, RemoveMember, LeaveActiveChannel, OpenInviteModal, SaveTopic, Still, Kept
  <2> QED BY <1>4, <1>9, <2>1 DEF AddMember, RemoveMember, LeaveActiveChannel, OpenInviteModal, SaveTopic, Asks
<1>10. ASSUME NEW c, NEW k, Press(t, c) \/ BeginDrag(t) \/ UpdateDrag(t, k) \/ Release(t)
       PROVE  Still /\ Kept /\ Keeps(reqs, reqs')
  BY <1>1, <1>10 DEF Press, BeginDrag, UpdateDrag, Release, Grips, Still, Kept
<1>11. ASSUME EndDrag(t) PROVE Still /\ Kept /\ Keeps(reqs, reqs')
  <2>1. Still /\ Kept BY <1>11 DEF EndDrag, Still, Kept
  <2>2. CASE reqs' = reqs BY <1>1, <2>1, <2>2
  <2>3. ASSUME reqs' # reqs PROVE Keeps(reqs, reqs')
    <3>0. PICK ids : ids = view[t].list OBVIOUS
    <3>9. PICK D : D = {Req(t, "update", c, Me(t), [pos |-> Place(ids, c)], "read") :
                          c \in Patches(ids, [view[t] EXCEPT !.grip = Free].chans)}
      OBVIOUS
    <3>1. reqs' = reqs \cup D BY <1>11, <2>3, <3>0, <3>9 DEF EndDrag
    <3>2. \A p \in D : Shaped(p) /\ ~(p.op = "list" /\ p.at = "done")
      <4> TAKE p \in D
      <4>1. PICK c : p = Req(t, "update", c, Me(t), [pos |-> Place(ids, c)], "read") BY <3>9
      <4> QED BY <4>1, ReqShaped
    <3> QED BY <1>1, <3>1, <3>2, MoreKeeps
  <2> QED BY <2>1, <2>2, <2>3
<1> QED BY <1>2, <1>6, <1>7, <1>8, <1>9, <1>10, <1>11

-----------------------------------------------------------------------------
(* Connections, the load of the page and resync.                           *)

LEMMA EnterAppStep == ASSUME PresenceInv, NEW t \in Tabs, EnterApp(t) PROVE PresenceInv'
<1>0. \A p \in reqs : Shaped(p) BY DEF PresenceInv, PresenceTypes
<1>1. Keeps(reqs, reqs) BY <1>0, SelfKeeps
<1>2. PICK r : r = Req(t, "list", 0, 0, [boot |-> TRUE], "ask") OBVIOUS
<1>3. Shaped(r) /\ r.at = "ask" BY <1>2, ReqShaped
<1>4. \A p \in {r} : Shaped(p) /\ ~(p.op = "list" /\ p.at = "done") BY <1>3
<1>5. Keeps(reqs, reqs \cup {r}) BY <1>1, <1>4, MoreKeeps
<1>6. Still /\ Kept BY DEF EnterApp, presence, server, net, people, Still, Kept
<1> QED BY <1>2, <1>5, <1>6, KeptIsCarried, StillStep DEF EnterApp

LEMMA DropStep == ASSUME PresenceInv, NEW t \in Tabs, Drop(t) PROVE PresenceInv'
<1>1. /\ link' = [link EXCEPT ![t] = FALSE] /\ in' = [in EXCEPT ![t] = <<>>] /\ wire' = [wire EXCEPT ![t] = <<>>]
      /\ HubSame /\ UNCHANGED <<gen, shown, pending, idle, hushed, reqs>>
  BY DEF Drop, server, people, HubSame
<1>2. /\ Tabs' = Tabs /\ (\A k : Me(k)' = Me(k)) /\ (\A v : Effective(v)' = Effective(v) /\ About(v)' = About(v))
      /\ (\A q : Shaped(q)' <=> Shaped(q)) /\ \A v \in User : Announced(v)'
  BY <1>1, HubRests
<1>3. PICK S : in \in [Tabs -> Seq(S)] BY DEF PresenceInv, PresenceTypes
<1>4. link \in [Tabs -> BOOLEAN] /\ wire \in [Tabs -> Seq(BOOLEAN)] BY DEF PresenceInv, PresenceTypes
<1>5. /\ link' \in [Tabs -> BOOLEAN] /\ in' \in [Tabs -> Seq(S)] /\ wire' \in [Tabs -> Seq(BOOLEAN)]
      /\ link'[t] = FALSE /\ in'[t] = <<>> /\ wire'[t] = <<>>
      /\ \A k \in Tabs : k # t => link'[k] = link[k] /\ in'[k] = in[k] /\ wire'[k] = wire[k]
  BY <1>1, <1>3, <1>4
<1>6. PresenceTypes' BY <1>1, <1>2, <1>5 DEF HubSame, PresenceInv, PresenceTypes
<1>7. Sockets' BY <1>1, <1>2, <1>5 DEF HubSame, PresenceInv, Sockets
<1>8. FlagsKnown'
  <2>1. \A c \in conns : c.tab \in Tabs BY DEF PresenceInv, PresenceTypes
  <2> QED BY <1>1, <1>5, <2>1 DEF HubSame, PresenceInv, FlagsKnown, Flag, FlagComing
<1>9. HeardTrue'
  <2> SUFFICES ASSUME NEW k \in Tabs, NEW v \in User, link'[k], <<k, v>> \notin blurred, About(v) = {}
               PROVE  Heard(k, v)'
    BY <1>1, <1>2 DEF HubSame, HeardTrue
  <2>1. k # t /\ in'[k] = in[k] /\ Heard(k, v) BY <1>5 DEF PresenceInv, HeardTrue
  <2> QED BY <1>1, <1>2, <2>1 DEF Heard, ListComing
<1>10. ListsRight'
  <2> SUFFICES ASSUME NEW q \in reqs, q.op = "list", q.at = "done", link'[q.tab], NEW v \in User PROVE Right(q, v)'
    BY <1>1 DEF ListsRight
  <2>1. q.tab \in Tabs BY DEF PresenceInv, PresenceTypes, Shaped
  <2>2. link[q.tab] /\ in'[q.tab] = in[q.tab] BY <1>5, <2>1
  <2> QED BY <1>2, <2>2 DEF PresenceInv, ListsRight, Right
<1> QED BY <1>2, <1>6, <1>7, <1>8, <1>9, <1>10 DEF PresenceInv

\* Requests that a new socket comes after.
LEMMA OutlivedKeeps ==
  ASSUME PresenceInv, NEW t
  PROVE  /\ Keeps(reqs, Outlived(t))
         /\ \A p \in Outlived(t) : p.op = "list" /\ p.at = "done" => User \subseteq p.late \/ (p.tab # t /\ p \in reqs)
<1> DEFINE L(p) == [p EXCEPT !.late = @ \cup Chan \cup User]
           hit(q) == q.tab = t /\ (q.op \in {"summary", "mute"} \/ q.at \notin {"ask", "read", "write"})
           C == Outlived(t)
<1>0. \A p \in reqs : Shaped(p) BY DEF PresenceInv, PresenceTypes
<1>1. Keeps(reqs, reqs) BY <1>0, SelfKeeps
<1>2. \A p : Later(p, L(p)) /\ Later(p, p)
  <2> TAKE p
  <2>1. L(p) = [p EXCEPT !.late = @ \cup (Chan \cup User)]
    <3>1. (p.late \cup Chan) \cup User = p.late \cup (Chan \cup User) OBVIOUS
    <3> QED BY <3>1
  <2> QED BY <2>1 DEF Later
<1>3. C = {IF hit(q) THEN L(q) ELSE q : q \in reqs} BY DEF Outlived
<1>4. \A p \in reqs : User \subseteq L(p).late /\ L(p).tab = p.tab /\ L(p).op = p.op /\ L(p).at = p.at
  BY <1>0 DEF Shaped, ReqFields
<1>5. \A p \in C : p.op = "list" /\ p.at = "done" => User \subseteq p.late \/ (p.tab # t /\ p \in reqs)
  <2> SUFFICES ASSUME NEW q \in reqs, ~hit(q), q.op = "list", q.at = "done" PROVE q.tab # t
    BY <1>3, <1>4
  <2> QED OBVIOUS
<1>6. (\A p \in reqs : p \in C \/ L(p) \in C) /\ \A r \in C : \E p \in reqs : r = p \/ r = L(p) BY <1>3
<1> HIDE DEF L, C, hit
<1>7. Keeps(reqs, C) BY <1>1, <1>2, <1>6, LaterKeeps
<1> QED BY <1>5, <1>7 DEF C

\* The lists on their way when a socket opens are still right, or marked late.
LEMMA OutlivedRight ==
  ASSUME PresenceInv, NEW t \in Tabs, UNCHANGED <<limit, in>>, \A k \in Tabs : k # t => link'[k] = link[k],
         \A u \in User : About(u)' # {} \/ (About(u) = {} /\ Effective(u)' = Effective(u)),
         \A p \in reqs' : p.op = "list" /\ p.at = "done" => p \in Outlived(t)
  PROVE  ListsRight'
<1> SUFFICES ASSUME NEW p \in reqs', p.op = "list", p.at = "done", link'[p.tab], NEW u \in User PROVE Right(p, u)'
  BY DEF ListsRight
<1>1. User \subseteq p.late \/ (p.tab # t /\ p \in reqs) BY OutlivedKeeps
<1>2. CASE User \subseteq p.late BY <1>2 DEF Right
<1>3. CASE p.tab # t /\ p \in reqs
  <2>1. p.tab \in Tabs BY <1>3 DEF PresenceInv, PresenceTypes, Shaped
  <2>2. Right(p, u) BY <1>3, <2>1 DEF PresenceInv, ListsRight
  <2> QED BY <2>2 DEF Right
<1> QED BY <1>1, <1>2, <1>3

LEMMA ReconnectStep == ASSUME PresenceInv, NEW t \in Tabs, Reconnect(t) PROVE PresenceInv'
<1>0. PICK c : c = [tab |-> t, gen |-> gen[t] + 1, idle |-> FALSE] OBVIOUS
<1>1. PICK v \in User : v = Me(t) BY MineIsUser DEF PresenceInv
<1>2. PICK r : r = Req(t, "list", 0, 0, [boot |-> FALSE], "ask") OBVIOUS
<1>3. /\ ~link[t] /\ gen[t] > 0 /\ conns' = conns \cup {c} /\ gen' = [gen EXCEPT ![t] = @ + 1] /\ link' = [link EXCEPT ![t] = TRUE]
      /\ pending' = [pending EXCEPT ![t] = [u \in User |-> Unset]] /\ reqs' = Outlived(t) \cup {r}
      /\ UNCHANGED <<limit, status, in, wire, shown, idle, hushed>>
  BY <1>0, <1>2 DEF Reconnect, Register, Resync
<1>4. Tabs' = Tabs /\ (\A k : Me(k)' = Me(k)) /\ \A q : Shaped(q)' <=> Shaped(q) BY <1>3 DEF Tabs, Me, Shaped
<1>5. /\ c.tab = t /\ c.gen = gen[t] + 1 /\ c.idle = FALSE /\ gen[t] \in Nat /\ c \in [tab : Tabs, gen : Nat, idle : BOOLEAN]
      /\ \A d \in conns : d \in [tab : Tabs, gen : Nat, idle : BOOLEAN] /\ d.gen \in 1..gen[d.tab]
  BY <1>0 DEF PresenceInv, PresenceTypes
<1>6. \A u \in User : u # v => Held(u)' = Held(u) /\ IdleIn(conns, u)' = IdleIn(conns, u) /\ status'[u] = status[u]
  BY <1>1, <1>3, <1>4, <1>5 DEF Held, IdleIn
<1>7. Held(v)' # {} /\ IdleIn(conns, v)' = IdleIn(conns', v)
  BY <1>1, <1>3, <1>4, <1>5 DEF Held, IdleIn
<1>8. Unsaid(v) \/ Voiced(v)
  <2>1. CASE Held(v) = {} \/ IdleIn(conns, v)' # IdleIn(conns, v)
    <3>1. Announce(<<t, c.gen>>, v, TRUE, "") /\ BlurIf(About(v) # {}, v)
      BY <2>1, <1>0, <1>1, <1>3, <1>7 DEF Reconnect, Register
    <3>2. IdleIn(conns, v)' \in BOOLEAN BY DEF IdleIn
    <3>3. c.gen # 0 BY <1>5
    <3>4. Honest(Word(<<t, c.gen>>, v, TRUE, ""))'
      BY <3>2, <3>3, <1>3, <1>7 DEF Honest, Effective, Row, Word
    <3> QED BY <3>1, <3>4 DEF Voiced
  <2>2. CASE Held(v) # {} /\ IdleIn(conns, v)' = IdleIn(conns, v)
    <3>1. UNCHANGED <<telling, blurred>>
      BY <2>2, <1>0, <1>1, <1>3, <1>7 DEF Reconnect, Register
    <3> QED BY <3>1, <1>3, <1>7, <2>2 DEF Unsaid
  <2> QED BY <2>1, <2>2
<1>9. /\ blurred \subseteq blurred' /\ (\A u \in User : Announced(u)')
      /\ \A u \in User : About(u)' # {} \/ (About(u) = {} /\ Effective(u)' = Effective(u))
  BY <1>3, <1>6, <1>8, HubMoves
<1>10. Shaped(r) /\ r.tab = t /\ r.op = "list" /\ r.val = [boot |-> FALSE] /\ r.at = "ask"
  BY <1>2, ReqShaped
<1>11. Keeps(reqs, reqs')
  <2>1. \A p \in {r} : Shaped(p) /\ ~(p.op = "list" /\ p.at = "done") BY <1>10
  <2> QED BY <1>3, <2>1, OutlivedKeeps, MoreKeeps
<1>12. \A k \in Tabs : (FlagComing(k) => FlagComing(k)') /\ (ListComing(k) => ListComing(k)')
  BY <1>11, KeptIsCarried DEF Carried
<1>13. FlagComing(t)' /\ ListComing(t)' BY <1>3, <1>10 DEF FlagComing, ListComing
<1>14. /\ link' \in [Tabs -> BOOLEAN] /\ gen' \in [Tabs -> Nat] /\ link'[t] = TRUE /\ gen'[t] = gen[t] + 1
       /\ \A k \in Tabs : k # t => link'[k] = link[k] /\ gen'[k] = gen[k]
  BY <1>3, <1>5 DEF PresenceInv, PresenceTypes
<1>15. /\ DOMAIN pending' = Tabs /\ (\A k \in Tabs : DOMAIN pending'[k] = User) /\ (\A u \in User : pending'[t][u] = Unset)
       /\ \A k \in Tabs : k # t => pending'[k] = pending[k]
  BY <1>3 DEF PresenceInv, PresenceTypes
<1>16. PresenceTypes'
  <2>1. \A d \in conns' : d \in [tab : Tabs, gen : Nat, idle : BOOLEAN] /\ d.gen \in 1..gen'[d.tab]
    <3> TAKE d \in conns'
    <3>1. CASE d = c BY <3>1, <1>5, <1>14
    <3>2. CASE d \in conns BY <3>2, <1>5, <1>14
    <3> QED BY <3>1, <3>2, <1>3
  <2>2. \A d, e \in conns' : d.tab = e.tab /\ d.gen = e.gen => d = e
    <3>1. \A d \in conns : ~(d.tab = t /\ d.gen = gen[t] + 1) BY <1>5
    <3> QED BY <3>1, <1>3, <1>5 DEF PresenceInv, PresenceTypes
  <2>3. \A x \in telling' : DOMAIN x = {"by", "user", "online", "row"}
    <3>1. telling' = telling \/ \E by, w, online, row : Announce(by, w, online, row)
      BY DEF Reconnect, Register
    <3> QED BY <3>1 DEF Announce, PresenceInv, PresenceTypes
  <2>4. \A p \in reqs' : Shaped(p) BY <1>11 DEF Keeps
  <2> QED BY <1>3, <1>4, <1>14, <1>15, <2>1, <2>2, <2>3, <2>4 DEF PresenceInv, PresenceTypes
<1>17. Sockets'
  <2>1. \A k \in Tabs : Me(k) \in User BY MineIsUser DEF PresenceInv
  <2> QED BY <1>3, <1>4, <1>5, <1>14, <1>15, <2>1 DEF PresenceInv, Sockets
<1>18. FlagsKnown'
  <2> SUFFICES ASSUME NEW d \in conns', link'[d.tab], d.gen = gen'[d.tab]
               PROVE  Flag(d)' = idle[d.tab] \/ (idle[d.tab] /\ (d.tab \in hushed \/ FlagComing(d.tab)'))
    BY <1>3 DEF FlagsKnown
  <2>1. CASE d.tab = t
    <3>1. d = c BY <2>1, <1>3, <1>5, <1>14
    <3>2. wire[t] = <<>> BY <1>3 DEF PresenceInv, Sockets
    <3>3. Flag(d)' = FALSE BY <3>1, <3>2, <1>3, <1>5 DEF Flag
    <3>4. idle[t] \in BOOLEAN BY DEF PresenceInv, PresenceTypes
    <3> QED BY <2>1, <3>3, <3>4, <1>13
  <2>2. CASE d.tab # t
    <3>1. d \in conns /\ d.tab \in Tabs BY <2>2, <1>3, <1>5
    <3>2. Flag(d)' = Flag(d) BY <1>3 DEF Flag
    <3> QED BY <2>2, <3>1, <3>2, <1>12, <1>14 DEF PresenceInv, FlagsKnown
  <2> QED BY <2>1, <2>2
<1>19. HeardTrue'
  <2> SUFFICES ASSUME NEW k \in Tabs, NEW u \in User, link'[k], <<k, u>> \notin blurred', About(u)' = {}
               PROVE  Heard(k, u)'
    BY <1>4 DEF HeardTrue
  <2>1. About(u) = {} /\ Effective(u)' = Effective(u) /\ <<k, u>> \notin blurred BY <1>9
  <2>2. CASE k = t
    <3>1. in[t] = <<>> BY <1>3 DEF PresenceInv, Sockets
    <3>2. ~Names(in[t], u) /\ \A x : ~Says(in[t], u, x) BY <3>1 DEF Names, Says
    <3> QED BY <2>2, <3>2, <1>3, <1>13, <1>15 DEF Heard
  <2>3. CASE k # t
    <3>1. Heard(k, u) BY <2>1, <2>3, <1>14 DEF PresenceInv, HeardTrue
    <3> QED BY <2>1, <2>3, <3>1, <1>3, <1>12, <1>15 DEF Heard
  <2> QED BY <2>2, <2>3
<1>20. ListsRight'
  BY <1>3, <1>9, <1>10, <1>14, OutlivedRight
<1> QED BY <1>9, <1>16, <1>17, <1>18, <1>19, <1>20 DEF PresenceInv

LEMMA StartRealtimeStep == ASSUME PresenceInv, NEW t \in Tabs, StartRealtime(t) PROVE PresenceInv'
<1>0. PICK c : c = [tab |-> t, gen |-> 1, idle |-> FALSE] OBVIOUS
<1>1. PICK v \in User : v = Me(t) BY MineIsUser DEF PresenceInv
<1>2. PICK w : w = Word(<<t, 1>>, v, TRUE, "") OBVIOUS
<1>3. /\ gen[t] = 0 /\ conns' = conns \cup {c} /\ gen' = [gen EXCEPT ![t] = 1] /\ link' = [link EXCEPT ![t] = TRUE]
      /\ reqs' = Outlived(t) /\ hushed' = (IF idle[t] THEN hushed \cup {t} ELSE hushed)
      /\ IF Held(v) = {} \/ IdleIn(conns, v) THEN telling' = telling \cup {w} ELSE telling' = telling
      /\ UNCHANGED <<limit, status, in, wire, shown, pending, idle>>
  BY <1>0, <1>1, <1>2 DEF StartRealtime, Announce, Word
<1>4. /\ blurred \subseteq blurred' /\ (About(v) # {} => \A k \in Tabs : <<k, v>> \in blurred')
      /\ \A u \in User : shown[t][u] # Effective(u) => <<t, u>> \in blurred'
  BY <1>1 DEF StartRealtime
<1>5. Tabs' = Tabs /\ (\A k : Me(k)' = Me(k)) /\ \A q : Shaped(q)' <=> Shaped(q) BY <1>3 DEF Tabs, Me, Shaped
<1>6. /\ c.tab = t /\ c.gen = 1 /\ c.idle = FALSE /\ c \in [tab : Tabs, gen : Nat, idle : BOOLEAN]
      /\ \A d \in conns : d \in [tab : Tabs, gen : Nat, idle : BOOLEAN] /\ d.gen \in 1..gen[d.tab] /\ d.tab # t
  BY <1>0, <1>3 DEF PresenceInv, PresenceTypes
<1>7. \A u \in User : u # v => Held(u)' = Held(u) /\ IdleIn(conns, u)' = IdleIn(conns, u) /\ status'[u] = status[u]
  BY <1>1, <1>3, <1>5, <1>6 DEF Held, IdleIn
<1>8. Held(v)' # {} /\ IdleIn(conns, v)' = FALSE
  BY <1>1, <1>3, <1>5, <1>6 DEF Held, IdleIn
<1>9. w.user = v /\ w.online = TRUE /\ w.row = "" /\ w.by[2] # 0 /\ DOMAIN w = {"by", "user", "online", "row"}
  <2>1. PICK by : by = <<t, 1>> OBVIOUS
  <2>2. by[2] # 0 BY <2>1
  <2>3. w = Word(by, v, TRUE, "") BY <1>2, <2>1
  <2>4. w.user = v /\ w.online = TRUE /\ w.row = "" /\ w.by = by BY <2>3 DEF Word
  <2>5. DOMAIN w = {"by", "user", "online", "row"} BY <2>3 DEF Word
  <2>6. w.by[2] # 0 BY <2>2, <2>4
  <2> QED BY <2>4, <2>5, <2>6, Zenon
<1>10. \A u \in User \ {v} : About(u)' = About(u) /\ Effective(u)' = Effective(u)
  BY <1>3, <1>7, <1>9 DEF About, Effective
<1>11. \/ About(v)' = About(v) /\ Effective(v)' = Effective(v)
       \/ About(v)' = About(v) \cup {w} /\ (Honest(w)' \/ Blurs(v)') /\ (About(v) # {} => Blurs(v)')
  <2>1. CASE Held(v) = {} \/ IdleIn(conns, v)
    <3>1. About(v)' = About(v) \cup {w} BY <2>1, <1>3, <1>9 DEF About
    <3>2. Honest(w)' BY <1>3, <1>8, <1>9 DEF Honest, Effective, Row
    <3>3. About(v) # {} => Blurs(v)' BY <1>4, <1>5 DEF Blurs
    <3> QED BY <3>1, <3>2, <3>3
  <2>2. CASE ~(Held(v) = {} \/ IdleIn(conns, v))
    <3>1. About(v)' = About(v) BY <2>2, <1>3 DEF About
    <3>2. IdleIn(conns, v) \in BOOLEAN BY DEF IdleIn
    <3>3. IdleIn(conns, v) = FALSE BY <2>2, <3>2
    <3>4. Effective(v)' = Effective(v) BY <2>2, <3>3, <1>3, <1>8 DEF Effective
    <3> QED BY <3>1, <3>4
  <2> QED BY <2>1, <2>2
<1>12. /\ \A u \in User : Announced(u)'
       /\ \A u \in User : About(u)' # {} \/ (About(u) = {} /\ Effective(u)' = Effective(u))
  BY <1>3, <1>4, <1>10, <1>11, NewsAnnounced
<1>13. Keeps(reqs, reqs') BY <1>3, OutlivedKeeps
<1>14. \A k \in Tabs : (FlagComing(k) => FlagComing(k)') /\ (ListComing(k) => ListComing(k)')
  BY <1>13, KeptIsCarried DEF Carried
<1>15. /\ link' \in [Tabs -> BOOLEAN] /\ gen' \in [Tabs -> Nat] /\ link'[t] = TRUE /\ gen'[t] = 1
       /\ \A k \in Tabs : k # t => link'[k] = link[k] /\ gen'[k] = gen[k]
  BY <1>3 DEF PresenceInv, PresenceTypes
<1>16. ~link[t] /\ in[t] = <<>> /\ wire[t] = <<>> /\ \A u \in User : pending[t][u] = Unset
  BY <1>3, <1>6 DEF PresenceInv, Sockets
<1>17. PresenceTypes'
  <2>1. \A d \in conns' : d \in [tab : Tabs, gen : Nat, idle : BOOLEAN] /\ d.gen \in 1..gen'[d.tab]
    <3> TAKE d \in conns'
    <3>1. CASE d = c BY <3>1, <1>6, <1>15
    <3>2. CASE d \in conns BY <3>2, <1>6, <1>15
    <3> QED BY <3>1, <3>2, <1>3
  <2>2. \A d, e \in conns' : d.tab = e.tab /\ d.gen = e.gen => d = e
    BY <1>3, <1>6 DEF PresenceInv, PresenceTypes
  <2>3. \A x \in telling' : DOMAIN x = {"by", "user", "online", "row"}
    BY <1>3, <1>9 DEF PresenceInv, PresenceTypes
  <2>4. \A p \in reqs' : Shaped(p) BY <1>13 DEF Keeps
  <2> QED BY <1>3, <1>5, <1>15, <2>1, <2>2, <2>3, <2>4 DEF PresenceInv, PresenceTypes
<1>18. Sockets'
  BY <1>3, <1>5, <1>6, <1>15, <1>16 DEF PresenceInv, Sockets
<1>19. FlagsKnown'
  <2> SUFFICES ASSUME NEW d \in conns', link'[d.tab], d.gen = gen'[d.tab]
               PROVE  Flag(d)' = idle[d.tab] \/ (idle[d.tab] /\ (d.tab \in hushed' \/ FlagComing(d.tab)'))
    BY <1>3 DEF FlagsKnown
  <2>1. CASE d.tab = t
    <3>1. d = c BY <2>1, <1>3, <1>6
    <3>2. Flag(d)' = FALSE BY <3>1, <1>3, <1>6, <1>16 DEF Flag
    <3>3. idle[t] \in BOOLEAN BY DEF PresenceInv, PresenceTypes
    <3> QED BY <2>1, <3>2, <3>3, <1>3
  <2>2. CASE d.tab # t
    <3>1. d \in conns /\ d.tab \in Tabs BY <2>2, <1>3, <1>6
    <3>2. Flag(d)' = Flag(d) BY <1>3 DEF Flag
    <3> QED BY <2>2, <3>1, <3>2, <1>3, <1>14, <1>15 DEF PresenceInv, FlagsKnown
  <2> QED BY <2>1, <2>2
<1>20. HeardTrue'
  <2> SUFFICES ASSUME NEW k \in Tabs, NEW u \in User, link'[k], <<k, u>> \notin blurred', About(u)' = {}
               PROVE  Heard(k, u)'
    BY <1>5 DEF HeardTrue
  <2>1. About(u) = {} /\ Effective(u)' = Effective(u) /\ <<k, u>> \notin blurred BY <1>4, <1>12
  <2>2. CASE k = t
    <3>1. ~Names(in[t], u) /\ \A x : ~Says(in[t], u, x) BY <1>16 DEF Names, Says
    <3> QED BY <2>1, <2>2, <3>1, <1>3, <1>4, <1>16 DEF Heard
  <2>3. CASE k # t
    <3>1. Heard(k, u) BY <2>1, <2>3, <1>15 DEF PresenceInv, HeardTrue
    <3> QED BY <2>1, <2>3, <3>1, <1>3, <1>14 DEF Heard
  <2> QED BY <2>2, <2>3
<1>21. ListsRight'
  BY <1>3, <1>12, <1>15, OutlivedRight
<1> QED BY <1>12, <1>17, <1>18, <1>19, <1>20, <1>21 DEF PresenceInv

LEMMA ListAnswersStep == ASSUME PresenceInv, NEW q \in reqs, ListAnswers(q) PROVE PresenceInv'
<1> USE DEF presence, server, net, people
<1>0. Still /\ Kept /\ HubSame /\ \A p \in reqs : Shaped(p)
  BY DEF ListAnswers, Still, Kept, HubSame, PresenceInv, PresenceTypes
<1>1. CASE q.op = "summary"
  <2>1. PICK r : r = [q EXCEPT !.at = "done", !.aud = silenced[Me(q.tab)]] OBVIOUS
  <2>2. DOMAIN r = ReqFields /\ r.tab = q.tab /\ r.op = q.op /\ r.val = q.val /\ r.at = "done"
    BY <1>0, <2>1 DEF Shaped, ReqFields
  <2>3. Keeps(reqs, Rest(q) \cup {r}) BY <1>1, <2>2, RestagedKeeps
  <2> QED BY <1>0, <1>1, <2>1, <2>3, KeptIsCarried, StillStep DEF ListAnswers, Becomes
<1>2. CASE q.op = "list"
  <2>0. PICK us : us = [w \in User |-> Effective(w)] OBVIOUS
  <2>1. PICK r : r = [q EXCEPT !.at = "done", !.row = [chans |-> ListChannels(Me(q.tab)), users |-> us]] OBVIOUS
  <2>2. /\ DOMAIN r = ReqFields /\ r.tab = q.tab /\ r.op = q.op /\ r.val = q.val /\ r.at = "done" /\ r.row.users = us
    BY <1>0, <2>1 DEF Shaped, ReqFields
  <2>3. reqs' = Rest(q) \cup {r} BY <1>2, <2>0, <2>1 DEF ListAnswers, Becomes
  <2>4. Shaped(r) BY <1>0, <1>2, <2>0, <2>2 DEF Shaped
  <2>5. /\ Tabs' = Tabs /\ (\A k : Me(k)' = Me(k)) /\ (\A v : Effective(v)' = Effective(v) /\ About(v)' = About(v))
        /\ (\A p : Shaped(p)' <=> Shaped(p)) /\ \A v \in User : Announced(v)'
    BY <1>0, HubRests
  <2>6. \A k \in Tabs : (FlagComing(k)' <=> FlagComing(k)) /\ (ListComing(k)' <=> ListComing(k))
    BY <1>2, <2>2, <2>3 DEF FlagComing, ListComing, Rest
  <2>7. PresenceTypes'
    <3>1. \A p \in reqs' : Shaped(p) BY <1>0, <2>3, <2>4 DEF Rest
    <3>2. UNCHANGED <<limit, status, conns, telling, link, gen, in, wire, shown, pending, idle>> BY DEF ListAnswers
    <3> QED BY <2>5, <3>1, <3>2 DEF PresenceInv, PresenceTypes
  <2>8. Sockets' BY <2>5 DEF ListAnswers, PresenceInv, Sockets
  <2>9. FlagsKnown'
    <3>1. \A c \in conns : c.tab \in Tabs BY DEF PresenceInv, PresenceTypes
    <3> QED BY <2>6, <3>1 DEF ListAnswers, PresenceInv, FlagsKnown, Flag
  <2>10. HeardTrue'
    <3> SUFFICES ASSUME NEW k \in Tabs, NEW v \in User, link[k], <<k, v>> \notin blurred, About(v) = {}
                 PROVE  Heard(k, v)'
      BY <2>5 DEF ListAnswers, HeardTrue
    <3>1. Heard(k, v) BY DEF PresenceInv, HeardTrue
    <3> QED BY <2>5, <2>6, <3>1 DEF ListAnswers, Heard
  <2>11. ListsRight'
    <3> SUFFICES ASSUME NEW p \in reqs', p.op = "list", p.at = "done", link[p.tab], NEW v \in User PROVE Right(p, v)'
      BY DEF ListAnswers, ListsRight
    <3>1. CASE p = r
      <4>1. p.row.users[v] = Effective(v) BY <2>0, <2>2, <3>1
      <4> QED BY <2>5, <4>1 DEF Right
    <3>2. CASE p \in reqs
      <4>1. Right(p, v) BY <3>2 DEF PresenceInv, ListsRight
      <4> QED BY <2>5, <4>1 DEF ListAnswers, Right
    <3> QED BY <2>3, <3>1, <3>2 DEF Rest
  <2> QED BY <2>5, <2>7, <2>8, <2>9, <2>10, <2>11 DEF PresenceInv
<1> QED BY <1>1, <1>2 DEF ListAnswers

\* What is left when a request is done, each as it was or later.
LEMMA RestLater ==
  ASSUME PresenceInv, NEW q \in reqs, NEW lost
  PROVE  Keeps(Rest(q), Rest(q)) /\ Keeps(Rest(q), Stale(lost, Rest(q)))
<1>1. Keeps(Rest(q), Rest(q)) BY SelfKeeps DEF PresenceInv, PresenceTypes, Rest
<1> QED BY <1>1, StaleKeeps

\* A list that is done, and gone: what the others carry.
LEMMA RestCarries ==
  ASSUME NEW q \in reqs, NEW B, Keeps(Rest(q), B), reqs' = B \/ \E r : reqs' = B \cup {r}
  PROVE  /\ \A k : ListComing(k) /\ (q.op # "list" \/ k # q.tab) => ListComing(k)'
         /\ \A k : FlagComing(k) /\ k # q.tab => FlagComing(k)'
         /\ FlagComing(q.tab) => FlagComing(q.tab)' \/ q.op = "settle" \/ (q.op \in {"list", "summary"} /\ ~q.val.boot)
<1>1. \A p \in reqs : p # q /\ Resyncing(p) => \E r \in reqs' : r.tab = p.tab /\ r.op = p.op /\ r.val = p.val
  BY DEF Keeps, Rest, Follows
<1>2. \A k : ListComing(k) /\ (q.op # "list" \/ k # q.tab) => ListComing(k)'
  BY <1>1 DEF ListComing, Resyncing
<1>3. \A k : FlagComing(k) => FlagComing(k)' \/ (k = q.tab /\ (q.op = "settle" \/ (q.op \in {"list", "summary"} /\ ~q.val.boot)))
  <2> SUFFICES ASSUME NEW k, NEW p \in reqs, p.tab = k, p.op = "settle" \/ (p.op \in {"list", "summary"} /\ ~p.val.boot), p # q
               PROVE  FlagComing(k)'
    BY DEF FlagComing
  <2>1. PICK r \in reqs' : r.tab = p.tab /\ r.op = p.op /\ r.val = p.val BY <1>1 DEF Resyncing
  <2> QED BY <2>1 DEF FlagComing
<1> QED BY <1>2, <1>3

LEMMA ListLandsStep == ASSUME PresenceInv, NEW q \in reqs, ListLands(q) PROVE PresenceInv'
<1> USE DEF server, net
<1>0. PICK t \in Tabs : t = q.tab BY DEF PresenceInv, PresenceTypes, Shaped
<1>1. /\ q.op = "list" /\ q.at = "done" /\ shown' = [shown EXCEPT ![t] = q.row.users]
      /\ UNCHANGED <<limit, status, conns, telling, link, gen, in, wire, pending, idle, hushed>>
  BY <1>0 DEF ListLands
<1>2. blurred' = {b \in blurred : b[1] = t => \/ About(b[2]) # {} \/ pending[t][b[2]] # Unset
                                              \/ \E i \in DOMAIN in[t] : in[t][i].user = b[2]}
                 \cup {<<t, u>> : u \in q.late \cap User}
  BY <1>0 DEF ListLands
<1>3. PICK lost : lost = {t} \X (q.late \cap Chan) OBVIOUS
<1>4. PICK X : X = q.late \cup {c \in Coming(t) : <<t, c>> \in apart} OBVIOUS
<1>5. PICK r : r = [Req(t, "summary", 0, 0, q.val, "ask") EXCEPT !.late = X] OBVIOUS
<1> DEFINE L(p) == [p EXCEPT !.late = @ \cup Chan \cup User]
           S == Stale(lost, Rest(q))
           B == {IF p.tab = t /\ (p.op = "mute" \/ (p.at = "done" /\ p.op # "members")) THEN L(p) ELSE p : p \in S}
<1>6. reqs' = B \cup {r} BY <1>0, <1>3, <1>4, <1>5 DEF ListLands
<1>7. /\ Tabs' = Tabs /\ (\A k : Me(k)' = Me(k)) /\ (\A v : Effective(v)' = Effective(v) /\ About(v)' = About(v))
      /\ \A p : Shaped(p)' <=> Shaped(p)
  BY <1>1 DEF Tabs, Me, Effective, Held, IdleIn, About, Shaped
<1>8. Shaped(r) /\ r.tab = t /\ r.op = "summary" /\ r.val = q.val /\ r.at = "ask"
  <2>1. PICK z : z = Req(t, "summary", 0, 0, q.val, "ask") OBVIOUS
  <2>2. Shaped(z) /\ z.tab = t /\ z.op = "summary" /\ z.val = q.val /\ z.at = "ask" BY <2>1, ReqShaped
  <2>3. /\ DOMAIN r = ReqFields /\ r.tab = t /\ r.op = "summary" /\ r.val = q.val /\ r.at = "ask"
    BY <1>5, <2>1, <2>2 DEF Shaped, ReqFields
  <2> QED BY <2>3 DEF Shaped, Resyncing
<1>9. Keeps(Rest(q), S) BY RestLater
<1>10. \A p \in S : Shaped(p) BY <1>9 DEF Keeps
<1>11. \A p \in B : p.tab = t /\ p.op = "list" /\ p.at = "done" => User \subseteq p.late
  BY <1>10 DEF Shaped, ReqFields
<1>12. \A p : Later(p, L(p)) /\ Later(p, p)
  <2> TAKE p
  <2>1. (p.late \cup Chan) \cup User = p.late \cup (Chan \cup User) OBVIOUS
  <2>2. L(p) = [p EXCEPT !.late = @ \cup (Chan \cup User)] BY <2>1
  <2> QED BY <2>2 DEF Later
<1>13. (\A p \in S : p \in B \/ L(p) \in B) /\ \A z \in B : \E p \in S : z = p \/ z = L(p) OBVIOUS
<1> HIDE DEF L, B, S
<1>14. Keeps(Rest(q), B) BY <1>9, <1>12, <1>13, LaterKeeps
<1>15. /\ \A k : ListComing(k) /\ k # t => ListComing(k)'
       /\ \A k : FlagComing(k) => FlagComing(k)'
  <2>1. /\ \A k : ListComing(k) /\ k # t => ListComing(k)'
        /\ \A k : FlagComing(k) /\ k # t => FlagComing(k)'
        /\ FlagComing(t) => FlagComing(t)' \/ ~q.val.boot
    BY <1>0, <1>1, <1>6, <1>14, RestCarries
  <2>2. ~q.val.boot => FlagComing(t)' BY <1>6, <1>8 DEF FlagComing
  <2> QED BY <2>1, <2>2
<1>16. DOMAIN q.row.users = User BY <1>1 DEF PresenceInv, PresenceTypes, Shaped
<1>17. /\ DOMAIN shown' = Tabs /\ (\A k \in Tabs : DOMAIN shown'[k] = User)
       /\ shown'[t] = q.row.users /\ \A k \in Tabs : k # t => shown'[k] = shown[k]
  BY <1>1, <1>16 DEF PresenceInv, PresenceTypes
<1>18. PresenceTypes'
  <2>1. \A p \in reqs' : Shaped(p) BY <1>6, <1>8, <1>14 DEF Keeps
  <2> QED BY <1>1, <1>7, <1>17, <2>1 DEF PresenceInv, PresenceTypes
<1>19. Sockets' BY <1>1, <1>7 DEF PresenceInv, Sockets
<1>20. FlagsKnown' BY <1>1, <1>15 DEF PresenceInv, FlagsKnown, Flag
<1>21. \A u \in User : Announced(u)'
  <2> SUFFICES ASSUME NEW u \in User, About(u) # {} PROVE Announced(u)'
    BY <1>7 DEF Announced
  <2>1. \A k : <<k, u>> \in blurred => <<k, u>> \in blurred' BY <1>2
  <2>2. Blurs(u) => Blurs(u)' BY <1>7, <2>1 DEF Blurs
  <2>3. \A x : Honest(x) => Honest(x)' BY <1>1, <1>7 DEF Honest, Row, IdleIn
  <2> QED BY <1>1, <1>7, <2>2, <2>3 DEF PresenceInv, Announced
<1>22. HeardTrue'
  <2> SUFFICES ASSUME NEW k \in Tabs, NEW v \in User, link[k], <<k, v>> \notin blurred', About(v) = {}
               PROVE  Heard(k, v)'
    BY <1>1, <1>7 DEF HeardTrue
  <2>1. CASE k # t
    <3>1. <<k, v>> \notin blurred BY <1>2, <2>1
    <3>2. Heard(k, v) BY <3>1 DEF PresenceInv, HeardTrue
    <3> QED BY <1>1, <1>7, <1>15, <1>17, <2>1, <3>2 DEF Heard
  <2>2. CASE k = t
    <3>1. v \notin q.late BY <1>2, <2>2
    <3>2. Names(in[t], v) \/ q.row.users[v] = Effective(v)
      BY <1>0, <1>1, <2>2, <3>1 DEF PresenceInv, ListsRight, Right
    <3>3. CASE <<t, v>> \in blurred
      <4>1. pending[t][v] = Unset /\ \A i \in DOMAIN in[t] : in[t][i].user # v
        BY <1>2, <2>2, <3>3
      <4>2. DOMAIN in[t] = 1..Len(in[t]) BY DEF PresenceInv, PresenceTypes
      <4>3. ~Names(in[t], v) /\ \A x : ~Says(in[t], v, x) BY <4>1, <4>2 DEF Names, Says, Tells
      <4> QED BY <1>1, <1>7, <1>17, <2>2, <3>2, <4>1, <4>3 DEF Heard
    <3>4. CASE <<t, v>> \notin blurred
      <4>1. Heard(t, v) BY <2>2, <3>4 DEF PresenceInv, HeardTrue
      <4> QED BY <1>1, <1>7, <1>17, <2>2, <3>2, <4>1 DEF Heard
    <3> QED BY <3>3, <3>4
  <2> QED BY <2>1, <2>2
<1>23. ListsRight'
  <2> SUFFICES ASSUME NEW p \in reqs', p.op = "list", p.at = "done", link[p.tab], NEW v \in User PROVE Right(p, v)'
    BY <1>1 DEF ListsRight
  <2>1. p \in B BY <1>6, <1>8
  <2>2. PICK z \in Rest(q) : Follows(z, p) BY <1>14, <2>1 DEF Keeps
  <2>3. Right(z, v) BY <2>2 DEF PresenceInv, ListsRight, Follows, Rest
  <2> QED BY <1>1, <1>7, <2>2, <2>3 DEF Right, Follows
<1> QED BY <1>18, <1>19, <1>20, <1>21, <1>22, <1>23 DEF PresenceInv

LEMMA ResyncFailsStep == ASSUME PresenceInv, NEW q \in reqs, ResyncFails(q) PROVE PresenceInv'
<1> USE DEF server, net
<1>0. PICK t \in Tabs : t = q.tab BY DEF PresenceInv, PresenceTypes, Shaped
<1>1. /\ q.op = "list" /\ reqs' = Stale({t} \X Chan, Rest(q)) /\ blurred' = blurred \cup ({t} \X User)
      /\ hushed' = (IF idle[t] THEN hushed \cup {t} ELSE hushed)
      /\ UNCHANGED <<limit, status, conns, telling, link, gen, in, wire, shown, pending, idle>>
  BY <1>0 DEF ResyncFails, Lose
<1>2. /\ Tabs' = Tabs /\ (\A k : Me(k)' = Me(k)) /\ (\A v : Effective(v)' = Effective(v) /\ About(v)' = About(v))
      /\ \A p : Shaped(p)' <=> Shaped(p)
  BY <1>1 DEF Tabs, Me, Effective, Held, IdleIn, About, Shaped
<1>3. Keeps(Rest(q), reqs') BY <1>1, RestLater
<1>4. /\ \A k : ListComing(k) /\ k # t => ListComing(k)'
      /\ \A k : FlagComing(k) /\ k # t => FlagComing(k)'
  BY <1>0, <1>3, RestCarries
<1>5. \A u \in User : Announced(u)'
  BY <1>1, <1>2, NewsAnnounced
<1>6. PresenceTypes'
  <2>1. \A p \in reqs' : Shaped(p) BY <1>3 DEF Keeps
  <2> QED BY <1>1, <1>2, <2>1 DEF PresenceInv, PresenceTypes
<1>7. Sockets' BY <1>1, <1>2 DEF PresenceInv, Sockets
<1>8. FlagsKnown'
  <2> SUFFICES ASSUME NEW c \in conns, link[c.tab], c.gen = gen[c.tab]
               PROVE  Flag(c)' = idle[c.tab] \/ (idle[c.tab] /\ (c.tab \in hushed' \/ FlagComing(c.tab)'))
    BY <1>1 DEF FlagsKnown
  <2>1. Flag(c)' = Flag(c) BY <1>1 DEF Flag
  <2> QED BY <1>1, <1>4, <2>1 DEF PresenceInv, FlagsKnown
<1>9. HeardTrue'
  <2> SUFFICES ASSUME NEW k \in Tabs, NEW v \in User, link[k], <<k, v>> \notin blurred', About(v) = {}
               PROVE  Heard(k, v)'
    BY <1>1, <1>2 DEF HeardTrue
  <2>1. k # t /\ <<k, v>> \notin blurred BY <1>1
  <2>2. Heard(k, v) BY <2>1 DEF PresenceInv, HeardTrue
  <2> QED BY <1>1, <1>2, <1>4, <2>1, <2>2 DEF Heard
<1>10. ListsRight'
  <2> SUFFICES ASSUME NEW p \in reqs', p.op = "list", p.at = "done", link[p.tab], NEW v \in User PROVE Right(p, v)'
    BY <1>1 DEF ListsRight
  <2>1. PICK z \in Rest(q) : Follows(z, p) BY <1>3 DEF Keeps
  <2>2. Right(z, v) BY <2>1 DEF PresenceInv, ListsRight, Follows, Rest
  <2> QED BY <1>1, <1>2, <2>1, <2>2 DEF Right, Follows
<1> QED BY <1>5, <1>6, <1>7, <1>8, <1>9, <1>10 DEF PresenceInv

LEMMA SummaryLandsStep ==
  ASSUME PresenceInv, NEW q \in reqs, NEW scrolled, NEW saved, SummaryLands(q, scrolled, saved)
  PROVE  PresenceInv'
<1>0. PICK t \in Tabs : t = q.tab BY DEF PresenceInv, PresenceTypes, Shaped
<1>1. Still /\ Kept /\ q.op = "summary"
  BY DEF SummaryLands, presence, server, net, people, Still, Kept
<1>2. PICK r : r = Req(t, "settle", 0, 0, Bare, "done") OBVIOUS
<1>3. PICK B : B = Rest(q) \cup (IF q.val.boot THEN {} ELSE {r}) OBVIOUS
<1>4. reqs' = B \/ \E v : LoadChannel(t, v, B)
  BY <1>0, <1>2, <1>3 DEF SummaryLands
<1>5. Shaped(r) /\ r.tab = t /\ r.op = "settle" BY <1>2, ReqShaped
<1>6. Keeps(Rest(q), B)
  <2>1. Keeps(Rest(q), Rest(q)) BY RestLater
  <2>2. \A p \in (IF q.val.boot THEN {} ELSE {r}) : Shaped(p) /\ ~(p.op = "list" /\ p.at = "done") BY <1>5
  <2> QED BY <1>3, <2>1, <2>2, MoreKeeps
<1>7. Keeps(Rest(q), reqs') BY <1>4, <1>6, LoadKeeps
<1>8. B \subseteq reqs' /\ (reqs' = B \/ \E z : reqs' = B \cup {z})
  BY <1>4 DEF LoadChannel, RefreshActiveMembers
<1>9. /\ \A k : ListComing(k) => ListComing(k)'
      /\ \A k : FlagComing(k) /\ k # t => FlagComing(k)'
      /\ FlagComing(t) => FlagComing(t)' \/ ~q.val.boot
  BY <1>0, <1>1, <1>6, <1>8, RestCarries
<1>10. ~q.val.boot => FlagComing(t)' BY <1>3, <1>5, <1>8 DEF FlagComing
<1>11. Carried
  <2>1. \A p \in reqs' : Shaped(p) BY <1>7 DEF Keeps
  <2>2. \A p \in reqs' : p.op = "list" /\ p.at = "done" => \E z \in reqs : Follows(z, p) BY <1>7 DEF Keeps, Rest
  <2> QED BY <1>9, <1>10, <2>1, <2>2 DEF Carried
<1> QED BY <1>1, <1>11, StillStep

LEMMA ResyncSettlesStep == ASSUME PresenceInv, NEW q \in reqs, ResyncSettles(q) PROVE PresenceInv'
<1> USE DEF server
<1>0. PICK t \in Tabs, on \in BOOLEAN : t = q.tab /\ on = TRUE BY DEF PresenceInv, PresenceTypes, Shaped
<1>1. /\ q.op = "settle" /\ reqs' = Rest(q) /\ hushed' = hushed \ {t}
      /\ wire' = IF idle[t] /\ link[t] THEN [wire EXCEPT ![t] = Append(@, on)] ELSE wire
      /\ HubSame /\ UNCHANGED <<link, gen, in, shown, pending, idle>>
  BY <1>0 DEF ResyncSettles, SendWS, HubSame
<1>2. /\ Tabs' = Tabs /\ (\A k : Me(k)' = Me(k)) /\ (\A v : Effective(v)' = Effective(v) /\ About(v)' = About(v))
      /\ (\A p : Shaped(p)' <=> Shaped(p)) /\ \A v \in User : Announced(v)'
  BY <1>1, HubRests
<1>3. Keeps(Rest(q), reqs') BY <1>1, RestLater
<1>4. /\ \A k : ListComing(k) => ListComing(k)'
      /\ \A k : FlagComing(k) /\ k # t => FlagComing(k)'
  BY <1>0, <1>1, <1>3, RestCarries
<1>5. wire \in [Tabs -> Seq(BOOLEAN)] /\ idle \in [Tabs -> BOOLEAN] BY DEF PresenceInv, PresenceTypes
<1>6. wire' \in [Tabs -> Seq(BOOLEAN)] /\ \A k \in Tabs : wire'[k] = IF k = t /\ idle[t] /\ link[t] THEN Append(wire[k], on) ELSE wire[k]
  BY <1>1, <1>5
<1>7. PresenceTypes'
  <2>1. \A p \in reqs' : Shaped(p) BY <1>3 DEF Keeps
  <2> QED BY <1>1, <1>2, <1>6, <2>1 DEF HubSame, PresenceInv, PresenceTypes
<1>8. Sockets' BY <1>1, <1>2, <1>6 DEF HubSame, PresenceInv, Sockets
<1>9. FlagsKnown'
  <2> SUFFICES ASSUME NEW c \in conns, link[c.tab], c.gen = gen[c.tab]
               PROVE  Flag(c)' = idle[c.tab] \/ (idle[c.tab] /\ (c.tab \in hushed' \/ FlagComing(c.tab)'))
    BY <1>1 DEF HubSame, FlagsKnown
  <2>1. c.tab \in Tabs BY DEF PresenceInv, PresenceTypes
  <2>2. Flag(c) = idle[c.tab] \/ (idle[c.tab] /\ (c.tab \in hushed \/ FlagComing(c.tab)))
    BY DEF PresenceInv, FlagsKnown
  <2>3. CASE c.tab # t
    <3>1. Flag(c)' = Flag(c) BY <1>6, <2>1, <2>3 DEF Flag
    <3> QED BY <1>1, <1>4, <2>2, <2>3, <3>1
  <2>4. CASE c.tab = t /\ ~idle[t]
    <3>1. Flag(c)' = Flag(c) BY <1>6, <2>1, <2>4 DEF Flag
    <3> QED BY <2>2, <2>4, <3>1
  <2>5. CASE c.tab = t /\ idle[t]
    <3>1. wire[t] \in Seq(BOOLEAN) /\ wire'[t] = Append(wire[t], on) BY <1>5, <1>6, <2>5
    <3>2. wire'[t] # <<>> /\ wire'[t][Len(wire'[t])] = on BY <3>1
    <3>3. Flag(c)' = on BY <2>5, <3>2 DEF Flag
    <3>4. idle[t] = on BY <1>0, <1>5, <2>5
    <3> QED BY <2>5, <3>3, <3>4
  <2> QED BY <2>3, <2>4, <2>5
<1>10. HeardTrue'
  <2> SUFFICES ASSUME NEW k \in Tabs, NEW v \in User, link[k], <<k, v>> \notin blurred, About(v) = {}
               PROVE  Heard(k, v)'
    BY <1>1, <1>2 DEF HubSame, HeardTrue
  <2>1. Heard(k, v) BY DEF PresenceInv, HeardTrue
  <2> QED BY <1>1, <1>2, <1>4, <2>1 DEF Heard
<1>11. ListsRight' BY <1>1, <1>2 DEF PresenceInv, ListsRight, Right, Rest
<1> QED BY <1>2, <1>7, <1>8, <1>9, <1>10, <1>11 DEF PresenceInv

LEMMA UpdateLandsStep == ASSUME PresenceInv, NEW q \in reqs, UpdateLands(q) PROVE PresenceInv'
<1> USE DEF presence, server, net, people
<1>0. (\A p \in reqs : Shaped(p)) /\ \E k \in Tabs : k = q.tab BY DEF PresenceInv, PresenceTypes, Shaped
<1>1. Keeps(reqs, reqs) BY <1>0, SelfKeeps
<1>2. ~Resyncing(q) BY DEF UpdateLands, Answered, Resyncing
<1>3. Keeps(reqs, Rest(q)) BY <1>1, <1>2, LessKeeps DEF Rest
<1>4. CASE ~(q.at = "failed" /\ "pos" \in DOMAIN q.val)
  <2>1. Still /\ Kept BY <1>4 DEF UpdateLands, Still, Kept
  <2>2. Keeps(reqs, Unlisted(q, q.late # {})) BY <1>1, <1>2, UnlistedKeeps
  <2>3. Keeps(reqs, reqs') BY <1>3, <1>4, <2>2 DEF UpdateLands
  <2> QED BY <2>1, <2>3, KeptIsCarried, StillStep
<1>5. CASE q.at = "failed" /\ "pos" \in DOMAIN q.val
  <2>0. PICK t \in Tabs : t = q.tab BY <1>0
  <2>1. PICK r : r = Req(t, "list", 0, 0, [boot |-> FALSE], "ask") OBVIOUS
  <2>2. /\ pending' = [pending EXCEPT ![t] = [u \in User |-> Unset]] /\ reqs' = Rest(q) \cup {r}
        /\ HubSame /\ UNCHANGED <<link, gen, in, wire, shown, idle, hushed>>
    BY <1>5, <2>0, <2>1 DEF UpdateLands, Resync, HubSame
  <2>3. /\ Tabs' = Tabs /\ (\A k : Me(k)' = Me(k)) /\ (\A v : Effective(v)' = Effective(v) /\ About(v)' = About(v))
        /\ (\A p : Shaped(p)' <=> Shaped(p)) /\ \A v \in User : Announced(v)'
    BY <2>2, HubRests
  <2>4. Shaped(r) /\ r.tab = t /\ r.op = "list" /\ r.at = "ask" BY <2>1, ReqShaped
  <2>5. Keeps(reqs, reqs')
    <3>1. \A p \in {r} : Shaped(p) /\ ~(p.op = "list" /\ p.at = "done") BY <2>4
    <3> QED BY <1>3, <2>2, <3>1, MoreKeeps
  <2>6. Carried /\ ListComing(t)'
    <3>1. ListComing(t)' BY <2>2, <2>4 DEF ListComing
    <3> QED BY <2>5, <3>1, KeptIsCarried
  <2>7. /\ DOMAIN pending' = Tabs /\ (\A k \in Tabs : DOMAIN pending'[k] = User) /\ (\A u \in User : pending'[t][u] = Unset)
        /\ \A k \in Tabs : k # t => pending'[k] = pending[k]
    BY <2>2 DEF PresenceInv, PresenceTypes
  <2>8. PresenceTypes'
    BY <2>2, <2>3, <2>6, <2>7 DEF HubSame, Carried, PresenceInv, PresenceTypes
  <2>9. Sockets'
    <3>1. \A k \in Tabs : Me(k) \in User BY MineIsUser DEF PresenceInv
    <3> QED BY <2>2, <2>3, <2>7, <3>1 DEF HubSame, PresenceInv, Sockets
  <2>10. FlagsKnown'
    <3>1. \A c \in conns : c.tab \in Tabs BY DEF PresenceInv, PresenceTypes
    <3> QED BY <2>2, <2>6, <3>1 DEF HubSame, Carried, PresenceInv, FlagsKnown, Flag
  <2>11. HeardTrue'
    <3> SUFFICES ASSUME NEW k \in Tabs, NEW v \in User, link[k], <<k, v>> \notin blurred, About(v) = {}
                 PROVE  Heard(k, v)'
      BY <2>2, <2>3 DEF HubSame, HeardTrue
    <3>1. Heard(k, v) BY DEF PresenceInv, HeardTrue
    <3>2. CASE k = t BY <2>2, <2>3, <2>6, <2>7, <3>1, <3>2 DEF Heard
    <3>3. CASE k # t BY <2>2, <2>3, <2>6, <2>7, <3>1, <3>3 DEF Heard, Carried
    <3> QED BY <3>2, <3>3
  <2>12. ListsRight' BY <2>2, <2>3, <2>4 DEF PresenceInv, ListsRight, Right, Rest
  <2> QED BY <2>3, <2>8, <2>9, <2>10, <2>11, <2>12 DEF PresenceInv
<1> QED BY <1>4, <1>5

LEMMA RefreshedFlags == ASSUME PresenceInv, UNCHANGED vars PROVE PresenceInv'
<1>1. \A p \in reqs : Shaped(p) BY DEF PresenceInv, PresenceTypes
<1>2. Keeps(reqs, reqs') BY <1>1, SelfKeeps DEF vars
<1>3. Still /\ Kept BY DEF vars, presence, server, net, people, Still, Kept
<1> QED BY <1>2, <1>3, KeptIsCarried, StillStep

LEMMA PresenceInit0 == ASSUME Init PROVE PresenceInv
<1> USE DEF Init, PresenceInit
<1>0. limit \in Limits /\ reqs = {} /\ telling = {} /\ blurred = {} /\ hushed = {} OBVIOUS
<1>1. \A t \in Tabs : Me(t) \in User BY LimitsAssumption DEF Tabs, Me
<1>2. \A t \in Tabs : link[t] = (t \notin limit.late) /\ (gen[t] = IF t \in limit.late THEN 0 ELSE 1) /\ in[t] = <<>> /\ wire[t] = <<>>
                      /\ idle[t] = FALSE
  OBVIOUS
<1>3. \A t \in Tabs, u \in User : pending[t][u] = Unset /\ shown[t][u] = Effective(u)
  OBVIOUS
<1>4. \A c \in conns : c \in [tab : Tabs, gen : Nat, idle : BOOLEAN] /\ c.gen = 1 /\ c.idle = FALSE /\ c.tab \notin limit.late
  <2> TAKE c \in conns
  <2>1. PICK t \in Tabs \ limit.late : c = [tab |-> t, gen |-> 1, idle |-> FALSE] OBVIOUS
  <2> QED BY <2>1
<1>5. \A t \in Tabs : t \notin limit.late => \E c \in conns : c.tab = t /\ c.gen = 1
  <2> TAKE t \in Tabs
  <2>1. [tab |-> t, gen |-> 1, idle |-> FALSE].tab = t /\ [tab |-> t, gen |-> 1, idle |-> FALSE].gen = 1 OBVIOUS
  <2> QED BY <2>1
<1>6. PresenceTypes
  <2>1. \A c, d \in conns : c.tab = d.tab /\ c.gen = d.gen => c = d BY <1>4
  <2>2. \E S : in \in [Tabs -> Seq(S)]
    <3>1. in \in [Tabs -> Seq({})] OBVIOUS
    <3> QED BY <3>1
  <2>3. \A c \in conns : c \in [tab : Tabs, gen : Nat, idle : BOOLEAN] /\ c.gen \in 1..gen[c.tab] BY <1>2, <1>4
  <2>4. link \in [Tabs -> BOOLEAN] /\ gen \in [Tabs -> Nat] /\ idle \in [Tabs -> BOOLEAN] /\ wire \in [Tabs -> Seq(BOOLEAN)]
    OBVIOUS
  <2> QED BY <1>0, <2>1, <2>2, <2>3, <2>4 DEF PresenceTypes
<1>7. Sockets BY <1>1, <1>2, <1>3, <1>5 DEF Sockets
<1>8. FlagsKnown BY <1>2, <1>4 DEF FlagsKnown, Flag
<1>9. \A u \in User : Announced(u) BY <1>0 DEF Announced, About
<1>10. HeardTrue
  <2>1. \A t \in Tabs, u \in User : ~Names(in[t], u) /\ \A x : ~Says(in[t], u, x) BY <1>2 DEF Names, Says
  <2> QED BY <1>3, <2>1 DEF HeardTrue, Heard
<1>11. ListsRight BY <1>0 DEF ListsRight
<1> QED BY <1>6, <1>7, <1>8, <1>9, <1>10, <1>11 DEF PresenceInv

LEMMA PresenceNext == ASSUME PresenceInv, [Next]_vars PROVE PresenceInv'
<1>1. CASE UNCHANGED vars BY <1>1, RefreshedFlags
<1>2. CASE People
  BY <1>2, ReapStep, OnIdleFrameStep, TellReadsStep, TellSendsStep, IdleFlipsStep, FanOutPresenceStep, SetStatusStep
  DEF People, Presents
<1>3. CASE Handlers
  BY <1>3, HandlersStep, ListAnswersStep DEF Handlers
<1>4. CASE Answers
  BY <1>4, AnswersStep, UpdateLandsStep, ListLandsStep, ResyncFailsStep, ResyncSettlesStep, SummaryLandsStep DEF Answers
<1>5. CASE Events
  BY <1>5, OnPresenceStep, EventsStep DEF Events
<1>6. CASE Links
  BY <1>6, DropStep, ReconnectStep, EnterAppStep, StartRealtimeStep DEF Links
<1>7. CASE Uses BY <1>7, UsesStep
<1> QED BY <1>1, <1>2, <1>3, <1>4, <1>5, <1>6, <1>7 DEF Next

LEMMA ShownIsSaid == ASSUME PresenceInv PROVE PresenceTrue
<1> SUFFICES ASSUME NEW t \in Tabs, NEW u \in User, Quiet(t), Settled(u), pending[t][u] = Unset, <<t, u>> \notin blurred,
                    \A x \in hushed : Me(x) # u
             PROVE  shown[t][u] = Said(u)
  BY DEF PresenceTrue
<1>1. link[t] /\ in[t] = <<>> /\ reqs = {} BY DEF Quiet
<1>2. About(u) = {} /\ \A c \in conns : Me(c.tab) = u => link[c.tab] /\ c.gen = gen[c.tab] /\ wire[c.tab] = <<>>
  BY DEF Settled
<1>3. shown[t][u] = Effective(u)
  <2>1. Heard(t, u) BY <1>1, <1>2 DEF PresenceInv, HeardTrue
  <2>2. ~Names(in[t], u) /\ ~ListComing(t) BY <1>1 DEF Names, ListComing
  <2> QED BY <2>1, <2>2 DEF Heard
<1>4. \A c \in conns : Me(c.tab) = u => c.tab \in Tabs /\ link[c.tab] /\ c.idle = idle[c.tab]
  <2> SUFFICES ASSUME NEW c \in conns, Me(c.tab) = u PROVE c.tab \in Tabs /\ link[c.tab] /\ c.idle = idle[c.tab]
    OBVIOUS
  <2>1. c.tab \in Tabs /\ link[c.tab] /\ c.gen = gen[c.tab] /\ wire[c.tab] = <<>> BY <1>2 DEF PresenceInv, PresenceTypes
  <2>2. ~FlagComing(c.tab) /\ c.tab \notin hushed BY <1>1 DEF FlagComing
  <2> QED BY <2>1, <2>2 DEF PresenceInv, FlagsKnown, Flag
<1>5. \A k \in Tabs : Me(k) = u /\ link[k] => \E c \in conns : c.tab = k BY DEF PresenceInv, Sockets
<1> DEFINE here == {k \in Tabs : Me(k) = u /\ link[k]}
<1>6. Held(u) # {} <=> here # {} BY <1>4, <1>5 DEF Held
<1>7. IdleIn(conns, u) <=> (here # {} /\ \A k \in here : idle[k]) BY <1>4, <1>5, <1>6 DEF IdleIn, Held
<1>8. IdleIn(conns, u) = (here # {} /\ \A k \in here : idle[k]) 
  <2>1. IdleIn(conns, u) \in BOOLEAN BY DEF IdleIn
  <2> QED BY <1>7, <2>1
<1> QED BY <1>3, <1>6, <1>8 DEF Effective, Said

\* Every tab shows of every user, once nothing of theirs is on its way, what
\* their own tabs say: however many tabs and users there are, through flips
\* within the debounce, reconnects and sockets that linger.
THEOREM ShownAsSaid == Spec => []PresenceTrue
<1>1. Init => PresenceInv BY PresenceInit0
<1>2. PresenceInv /\ [Next]_vars => PresenceInv' BY PresenceNext
<1>3. PresenceInv => PresenceTrue BY ShownIsSaid
<1> QED BY <1>1, <1>2, <1>3, PTL DEF Spec
=============================================================================
