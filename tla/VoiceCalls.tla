----------------------------- MODULE VoiceCalls -----------------------------
(***************************************************************************)
(* The server side of voice calls: who is listed in which voice channel,   *)
(* and how connections, the voice.join / voice.leave / voice.mute handlers *)
(* and the reconnection grace timers of DM calls change that list.         *)
(*                                                                         *)
(* Processes and their atomic steps                                        *)
(*   - every WebSocket connection handles its frames one at a time, in its *)
(*     own goroutine (Hub.Serve, readPump); the next frame is read only    *)
(*     when the handler of the last one has returned;                      *)
(*   - every Hub method runs under Hub.mu or Hub.voiceMu and is one step;  *)
(*     a handler that calls several of them is several steps, and other    *)
(*     connections and timers interleave between them;                     *)
(*   - a fired grace timer runs its callback in a goroutine of its own.    *)
(*                                                                         *)
(* Abstracted: JoinedAt (only sorts the list), Muted and Sharing (set and  *)
(* lost together with VideoMuted, which the video cap reads), private      *)
(* group channels (voice uses the visibility predicate of messages), and   *)
(* the frames sent to clients (module VoiceSync).                          *)
(***************************************************************************)
EXTENDS Naturals, FiniteSets

CONSTANTS
  User,           \* registered users
  DM,             \* two-party direct-message channels
  Group,          \* every other voice channel
  Party,          \* DM channel -> the set of its two members
  Conn,           \* connection slots: a slot is reused after it closed
  Owner,          \* connection slot -> the user who opens it
  Timer,          \* time.AfterFunc objects of one (DM, user) key (bound: how
                  \* many of them may be alive at once)
  NoTimer,        \* the absent entry of voiceGraceTimers
  MaxVoiceAudio,  \* cfg.MaxVoiceAudio; 0 is "no cap"
  MaxVoiceVideo,  \* cfg.MaxVoiceVideo; 0 is "no cap"
  StoreMayFail    \* whether a database read may return an error

Channel == DM \cup Group

ASSUME ChannelAssumption == DM \cap Group = {} /\ DM # {} /\ User # {}
ASSUME OwnerAssumption == Owner \in [Conn -> User]
ASSUME PartyAssumption == Party \in [DM -> SUBSET User]
ASSUME TimerAssumption == NoTimer \notin Timer
ASSUME CapAssumption == MaxVoiceAudio \in Nat /\ MaxVoiceVideo \in Nat
ASSUME StoreAssumption == StoreMayFail \in BOOLEAN

VARIABLES
  roster,   \* Hub.voiceChannels: channel -> users listed in it
  camera,   \* channel -> listed users whose VideoMuted is false
  grace,    \* Server.voiceGraceTimers: DM -> user -> timer or NoTimer
  timer,    \* DM -> user -> timer armed for that key -> where it is in its life
  pc,       \* connection -> where its goroutine is
  chan,     \* connection -> channel of the frame being handled
  flag,     \* connection -> a value the handler read and will act on
  todo,     \* connection -> snapshot channels its clean-up has yet to visit
  shared,   \* connection -> those that had another participant in it
  callLog   \* DM -> the last system message about a call posted there

voice  == <<roster, camera>>
timers == <<grace, timer>>
locals == <<chan, flag, todo, shared>>
callVars == <<voice, timers, pc, locals, callLog>>

JoinPC  == {"joinCap", "joinEvict", "joinEnter", "joinLog"}
LeavePC == {"leaveClear", "leaveLog"}
DropPC  == {"dropLookup", "dropClean"}
\* A connection is in Hub.byUser from add until remove.
LivePC  == {"reading", "muteSet"} \cup JoinPC \cup LeavePC
PC      == {"closed"} \cup LivePC \cup DropPC

TimerState == {"idle", "armed", "fired", "check", "clear", "log"}
LogEntry   == {"none", "started", "ended"}

CallTypeOK ==
  /\ roster \in [Channel -> SUBSET User]
  /\ camera \in [Channel -> SUBSET User]
  /\ \A c \in Channel : camera[c] \subseteq roster[c]
  /\ grace \in [DM -> [User -> Timer \cup {NoTimer}]]
  /\ timer \in [DM -> [User -> [Timer -> TimerState]]]
  /\ pc \in [Conn -> PC]
  /\ chan \in [Conn -> Channel]
  /\ flag \in [Conn -> BOOLEAN]
  /\ todo \in [Conn -> SUBSET Channel]
  /\ shared \in [Conn -> SUBSET Channel]
  /\ callLog \in [DM -> LogEntry]

CallInit ==
  /\ roster = [c \in Channel |-> {}]
  /\ camera = [c \in Channel |-> {}]
  /\ grace = [d \in DM |-> [u \in User |-> NoTimer]]
  /\ timer = [d \in DM |-> [u \in User |-> [t \in Timer |-> "idle"]]]
  /\ pc = [k \in Conn |-> "closed"]
  /\ chan = [k \in Conn |-> CHOOSE d \in DM : TRUE]
  /\ flag = [k \in Conn |-> FALSE]
  /\ todo = [k \in Conn |-> {}]
  /\ shared = [k \in Conn |-> {}]
  /\ callLog = [d \in DM |-> "none"]

-----------------------------------------------------------------------------
(* Hub and timer-map operations, each under one lock.                      *)

Online(u) == \E k \in Conn : Owner[k] = u /\ pc[k] \in LivePC

\* k's goroutine moves from label `from` to label `to`.
Goto(k, from, to) == pc[k] = from /\ pc' = [pc EXCEPT ![k] = to]

\* Hub.VoiceJoin: a new participant starts video-muted, a listed one keeps
\* its flags.
VoiceJoin(c, u) ==
  /\ roster' = [roster EXCEPT ![c] = @ \cup {u}]
  /\ UNCHANGED camera

\* Hub.VoiceLeave
VoiceLeave(c, u) ==
  /\ roster' = [roster EXCEPT ![c] = @ \ {u}]
  /\ camera' = [camera EXCEPT ![c] = @ \ {u}]

\* Hub.VoiceLeaveAll
VoiceLeaveAll(u) ==
  /\ roster' = [c \in Channel |-> roster[c] \ {u}]
  /\ camera' = [c \in Channel |-> camera[c] \ {u}]

\* Hub.VoiceClear
VoiceClear(c) ==
  /\ roster' = [roster EXCEPT ![c] = {}]
  /\ camera' = [camera EXCEPT ![c] = {}]

\* Hub.VoiceSetMute: no effect on a user who is not listed.
VoiceSetMute(c, u, videoOn) ==
  /\ camera' = [camera EXCEPT ![c] =
                  IF videoOn /\ u \in roster[c] THEN @ \cup {u} ELSE @ \ {u}]
  /\ UNCHANGED roster

\* Hub.VoiceCounts: the asking user is not counted.
AudioFull(c, u) ==
  MaxVoiceAudio > 0 /\ Cardinality(roster[c] \ {u}) >= MaxVoiceAudio
VideoFull(c, u) ==
  MaxVoiceVideo > 0 /\ Cardinality(camera[c] \ {u}) >= MaxVoiceVideo

\* time.Timer.Stop on the entry of (d, u): it disarms a timer that has not
\* fired and does nothing to one whose callback is already running.
Stopped(d, u) ==
  [t \in Timer |-> IF t = grace[d][u] /\ timer[d][u][t] = "armed"
                   THEN "idle" ELSE timer[d][u][t]]

Post(d, entry) == callLog' = [callLog EXCEPT ![d] = entry]

-----------------------------------------------------------------------------
(* Connections come and go.                                                *)

\* Hub.Serve: a client opens a connection and it is registered.
Connect(k) ==
  /\ Goto(k, "closed", "reading")
  /\ UNCHANGED <<voice, timers, locals, callLog>>

\* Hub.remove when the read loop ends. Only the connection that was the
\* user's last goes on to onPresenceChange(user, false).
Drop(k) ==
  LET last == \A j \in Conn \ {k} : Owner[j] = Owner[k] => pc[j] \notin LivePC
  IN  /\ Goto(k, "reading", IF last THEN "dropLookup" ELSE "closed")
      /\ UNCHANGED <<voice, timers, locals, callLog>>

\* onPresenceChange after its user lookup and broadcast, then the snapshot
\* that cleanupVoiceForUser takes (VoiceChannelsForUser).
DropSnapshot(k) ==
  LET u == Owner[k]
  IN  /\ Goto(k, "dropLookup", "dropClean")
      /\ todo' = [todo EXCEPT ![k] = {c \in Channel : u \in roster[c]}]
      /\ shared' = [shared EXCEPT ![k] =
                      {c \in Channel : u \in roster[c] /\ roster[c] # {u}}]
      /\ UNCHANGED <<voice, timers, chan, flag, callLog>>

\* The presence lookup fails: the handler returns before any clean-up.
DropLookupFails(k) ==
  /\ StoreMayFail
  /\ Goto(k, "dropLookup", "closed")
  /\ UNCHANGED <<voice, timers, locals, callLog>>

\* Mutated form: a timer that is still pending is stopped and not replaced.
DropScheduleOnlyStops(k, d, t) ==
  LET u == Owner[k]
  IN  /\ pc[k] = "dropClean"
      /\ d \in todo[k] \cap DM /\ d \in shared[k]
      /\ Stopped(d, u)[t] = "idle"
      /\ timer' = [timer EXCEPT ![d][u] = IF grace[d][u] = NoTimer
                                         THEN [@ EXCEPT ![t] = "armed"]
                                         ELSE Stopped(d, u)]
      /\ grace' = [grace EXCEPT ![d][u] = IF @ = NoTimer THEN t ELSE NoTimer]
      /\ todo' = [todo EXCEPT ![k] = @ \ {d}]
      /\ UNCHANGED <<voice, pc, chan, flag, shared, callLog>>

\* cleanupVoiceForUser visits a DM whose snapshot had the other party in it:
\* scheduleDMTeardown stops the entry's timer and arms a new one.
DropSchedule(k, d, t) ==
  LET u == Owner[k]
  IN  /\ pc[k] = "dropClean"
      /\ d \in todo[k] \cap DM /\ d \in shared[k]
      /\ Stopped(d, u)[t] = "idle"
      /\ timer' = [timer EXCEPT ![d][u] = [Stopped(d, u) EXCEPT ![t] = "armed"]]
      /\ grace' = [grace EXCEPT ![d][u] = t]
      /\ todo' = [todo EXCEPT ![k] = @ \ {d}]
      /\ UNCHANGED <<voice, pc, chan, flag, shared, callLog>>

\* ... or a group channel, or a DM whose snapshot had nobody else in it.
DropLeave(k, c) ==
  /\ pc[k] = "dropClean"
  /\ c \in todo[k] /\ (c \in DM => c \notin shared[k])
  /\ VoiceLeave(c, Owner[k])
  /\ todo' = [todo EXCEPT ![k] = @ \ {c}]
  /\ UNCHANGED <<timers, pc, chan, flag, shared, callLog>>

\* ... or a channel whose lookup fails: it is skipped.
DropSkip(k, c) ==
  /\ StoreMayFail
  /\ pc[k] = "dropClean" /\ c \in todo[k]
  /\ todo' = [todo EXCEPT ![k] = @ \ {c}]
  /\ UNCHANGED <<voice, timers, pc, chan, flag, shared, callLog>>

DropDone(k) ==
  /\ todo[k] = {}
  /\ Goto(k, "dropClean", "closed")
  /\ shared' = [shared EXCEPT ![k] = {}]
  /\ UNCHANGED <<voice, timers, chan, flag, todo, callLog>>

-----------------------------------------------------------------------------
(* voice.join                                                              *)

CanAccess(c, u) == c \in DM => u \in Party[c]

\* Mutated form: the pending teardown is not cancelled.
JoinFrameNoCancel(k, c) ==
  /\ CanAccess(c, Owner[k])
  /\ Goto(k, "reading", IF c \in DM THEN "joinEvict" ELSE "joinCap")
  /\ chan' = [chan EXCEPT ![k] = c]
  /\ UNCHANGED <<voice, timers, flag, todo, shared, callLog>>

\* The frame is accepted; cancelDMTeardown stops the user's pending timer.
JoinFrame(k, c) ==
  LET u == Owner[k]
  IN  /\ CanAccess(c, u)
      /\ Goto(k, "reading", IF c \in DM THEN "joinEvict" ELSE "joinCap")
      /\ chan' = [chan EXCEPT ![k] = c]
      /\ IF c \in DM THEN /\ timer' = [timer EXCEPT ![c][u] = Stopped(c, u)]
                          /\ grace' = [grace EXCEPT ![c][u] = NoTimer]
                     ELSE UNCHANGED timers
      /\ UNCHANGED <<voice, flag, todo, shared, callLog>>

\* The audio cap of a group channel, read before the join is done.
JoinCap(k) ==
  /\ Goto(k, "joinCap", IF AudioFull(chan[k], Owner[k]) THEN "reading"
                                                        ELSE "joinEvict")
  /\ UNCHANGED <<voice, timers, locals, callLog>>

\* Mutated form: only the channel being joined is left.
JoinEvictTarget(k) ==
  /\ Goto(k, "joinEvict", "joinEnter")
  /\ VoiceLeave(chan[k], Owner[k])
  /\ UNCHANGED <<timers, locals, callLog>>

\* VoiceLeaveAll: leave every channel, the one being joined included.
JoinEvict(k) ==
  /\ Goto(k, "joinEvict", "joinEnter")
  /\ VoiceLeaveAll(Owner[k])
  /\ UNCHANGED <<timers, locals, callLog>>

\* VoiceJoin; the size of the list it returns decides on the log entry.
JoinEnter(k) ==
  LET c == chan[k]
  IN  /\ VoiceJoin(c, Owner[k])
      /\ Goto(k, "joinEnter",
              IF c \in DM /\ Cardinality(roster'[c]) = 2 THEN "joinLog"
                                                         ELSE "reading")
      /\ UNCHANGED <<timers, locals, callLog>>

JoinLog(k) ==
  /\ Goto(k, "joinLog", "reading")
  /\ Post(chan[k], "started")
  /\ UNCHANGED <<voice, timers, locals>>

-----------------------------------------------------------------------------
(* voice.leave and voice.mute                                              *)

\* Leaving a group channel is one Hub call.
LeaveGroup(k, c) ==
  /\ c \in Group
  /\ pc[k] = "reading"
  /\ VoiceLeave(c, Owner[k])
  /\ UNCHANGED <<timers, pc, locals, callLog>>

\* Hanging up a DM call first reads whether both parties were in it.
LeaveDM(k, d) ==
  /\ d \in DM /\ Owner[k] \in Party[d]
  /\ Goto(k, "reading", "leaveClear")
  /\ chan' = [chan EXCEPT ![k] = d]
  /\ flag' = [flag EXCEPT ![k] = Cardinality(roster[d]) >= 2]
  /\ UNCHANGED <<voice, timers, todo, shared, callLog>>

\* endDMVoiceCall: everybody out, then the log entry if the call was active.
LeaveClear(k) ==
  /\ Goto(k, "leaveClear", IF flag[k] THEN "leaveLog" ELSE "reading")
  /\ VoiceClear(chan[k])
  /\ flag' = [flag EXCEPT ![k] = FALSE]
  /\ UNCHANGED <<timers, chan, todo, shared, callLog>>

LeaveLog(k) ==
  /\ Goto(k, "leaveLog", "reading")
  /\ Post(chan[k], "ended")
  /\ UNCHANGED <<voice, timers, locals>>

\* voice.mute with the camera on or off; a group channel reads the video cap
\* first and turns an over-cap request into "off".
MuteFrame(k, c, videoOn) ==
  /\ CanAccess(c, Owner[k])
  /\ Goto(k, "reading", "muteSet")
  /\ chan' = [chan EXCEPT ![k] = c]
  /\ flag' = [flag EXCEPT ![k] =
                videoOn /\ ~(c \in Group /\ VideoFull(c, Owner[k]))]
  /\ UNCHANGED <<voice, timers, todo, shared, callLog>>

MuteSet(k) ==
  /\ Goto(k, "muteSet", "reading")
  /\ VoiceSetMute(chan[k], Owner[k], flag[k])
  /\ flag' = [flag EXCEPT ![k] = FALSE]
  /\ UNCHANGED <<timers, chan, todo, shared, callLog>>

-----------------------------------------------------------------------------
(* The callback that scheduleDMTeardown arms for the key (d, u).           *)

TimerAt(d, u, t, from, to) ==
  timer[d][u][t] = from /\ timer' = [timer EXCEPT ![d][u][t] = to]

\* The grace window is over; the callback goroutine starts.
Fire(d, u, t) ==
  /\ TimerAt(d, u, t, "armed", "fired")
  /\ UNCHANGED <<voice, grace, pc, locals, callLog>>

\* Under voiceGraceMu it deletes the entry of its key, whoever's it is now.
Expire(d, u, t) ==
  /\ TimerAt(d, u, t, "fired", "check")
  /\ grace' = [grace EXCEPT ![d][u] = NoTimer]
  /\ UNCHANGED <<voice, pc, locals, callLog>>

\* Mutated form: the test is inverted.
ExpireCheckInverted(d, u, t) ==
  /\ TimerAt(d, u, t, "check", IF u \in roster[d] THEN "idle" ELSE "clear")
  /\ UNCHANGED <<voice, grace, pc, locals, callLog>>

\* VoiceHasUser: nothing to end if the call is already over.
ExpireCheck(d, u, t) ==
  /\ TimerAt(d, u, t, "check", IF u \in roster[d] THEN "clear" ELSE "idle")
  /\ UNCHANGED <<voice, grace, pc, locals, callLog>>

\* endDMVoiceCall(ch, user, true)
ExpireClear(d, u, t) ==
  /\ TimerAt(d, u, t, "clear", "log")
  /\ VoiceClear(d)
  /\ UNCHANGED <<grace, pc, locals, callLog>>

ExpireLog(d, u, t) ==
  /\ TimerAt(d, u, t, "log", "idle")
  /\ Post(d, "ended")
  /\ UNCHANGED <<voice, grace, pc, locals>>

-----------------------------------------------------------------------------
Handle(k) ==
  \/ JoinCap(k) \/ JoinEvict(k) \/ JoinEnter(k) \/ JoinLog(k)
  \/ LeaveClear(k) \/ LeaveLog(k) \/ MuteSet(k)

CleanUp(k) ==
  \/ DropSnapshot(k) \/ DropLookupFails(k) \/ DropDone(k)
  \/ \E d \in DM, t \in Timer : DropSchedule(k, d, t)
  \/ \E c \in Channel : DropLeave(k, c) \/ DropSkip(k, c)

Frame(k) ==
  \/ \E c \in Channel : JoinFrame(k, c)
  \/ \E c \in Group : LeaveGroup(k, c)
  \/ \E d \in DM : LeaveDM(k, d)
  \/ \E c \in Channel, videoOn \in BOOLEAN : MuteFrame(k, c, videoOn)

Callback(d, u, t) ==
  \/ Fire(d, u, t) \/ Expire(d, u, t) \/ ExpireCheck(d, u, t)
  \/ ExpireClear(d, u, t) \/ ExpireLog(d, u, t)

CallNext ==
  \/ \E k \in Conn : Connect(k) \/ Drop(k) \/ Frame(k) \/ Handle(k) \/ CleanUp(k)
  \/ \E d \in DM, u \in User, t \in Timer : Callback(d, u, t)

CallSpec == CallInit /\ [][CallNext]_callVars

\* Handlers and callbacks return and armed timers fire; clients owe nothing.
Fairness ==
  /\ \A k \in Conn : WF_callVars(Handle(k)) /\ WF_callVars(CleanUp(k))
  /\ \A d \in DM, u \in User, t \in Timer : WF_callVars(Callback(d, u, t))

FairSpec == CallSpec /\ Fairness

\* The behaviours in which no handler or timer callback overlaps another: the
\* next one starts when the last has returned.
Active ==
  {k \in Conn : pc[k] \notin {"closed", "reading"}} \cup
  {x \in DM \X User \X Timer : timer[x[1]][x[2]][x[3]] \notin {"idle", "armed"}}

Elapsed(d, u, t) ==
  Expire(d, u, t) \/ ExpireCheck(d, u, t) \/ ExpireClear(d, u, t) \/ ExpireLog(d, u, t)

SerialNext ==
  \/ \E k \in Conn : Connect(k) \/ Handle(k) \/ CleanUp(k)
  \/ \E d \in DM, u \in User, t \in Timer : Elapsed(d, u, t)
  \/ Active = {} /\ \E k \in Conn : Drop(k) \/ Frame(k)
  \/ Active = {} /\ \E d \in DM, u \in User, t \in Timer : Fire(d, u, t)

SerialSpec == CallInit /\ [][SerialNext]_callVars

-----------------------------------------------------------------------------
(* Properties of every behaviour.                                          *)

CleaningUp(u, c) ==
  \E k \in Conn :
    /\ Owner[k] = u
    /\ \/ pc[k] = "dropLookup"
       \/ pc[k] = "dropClean" /\ c \in todo[k]

TeardownPending(c, u) ==
  /\ c \in DM
  /\ \E t \in Timer : timer[c][u][t] \in {"armed", "fired", "check", "clear"}

\* Nobody is forgotten in a call: a user listed in a voice channel without a
\* connection is about to be visited by the clean-up of the connection that
\* was lost, or a grace timer that will end the call is running for them,
\* however drops, re-announcements, hang-ups and expiring timers interleave
\* (cleanupVoiceForUser, scheduleDMTeardown, cancelDMTeardown). It takes a
\* database that answers: a failed lookup skips the clean-up.
DroppedPartyCovered ==
  \A c \in Channel : \A u \in roster[c] :
    Online(u) \/ CleaningUp(u, c) \/ TeardownPending(c, u)

\* A party that dropped out of a call and stays away is eventually delisted:
\* at once from a group channel, when the grace window closes from a DM call.
DroppedPartyResolved ==
  \A c \in Channel, u \in User :
    (u \in roster[c] /\ ~Online(u)) ~> (u \notin roster[c] \/ Online(u))

\* A user whose frames all arrive on one connection is in one voice channel at
\* most: voice.join leaves every other channel first (VoiceLeaveAll).
SoleConn(u) == \A j, k \in Conn : Owner[j] = u /\ Owner[k] = u => j = k
OneCallPerUser ==
  \A u \in User : SoleConn(u) =>
    \A b, c \in Channel : u \in roster[b] /\ u \in roster[c] => b = c

-----------------------------------------------------------------------------
(* Properties of SerialSpec. Each rests on a value that is read under one   *)
(* lock and acted on under the next, so that an overlapping handler can     *)
(* break it; these are what the handlers give as long as none overlaps.     *)

\* The caps of a group channel: participants, which voice.join checks, and
\* cameras, which voice.mute checks.
AudioCap ==
  MaxVoiceAudio > 0 => \A g \in Group : Cardinality(roster[g]) <= MaxVoiceAudio
VideoCap ==
  MaxVoiceVideo > 0 => \A g \in Group : Cardinality(camera[g]) <= MaxVoiceVideo
OneCallEach == \A u \in User, b, c \in Channel : u \in roster[b] /\ u \in roster[c] => b = c

\* No group channel exceeds its caps, and a user is in one channel at most,
\* however many tabs they have (voice.join, voice.mute, VoiceLeaveAll).
RosterHeld == AudioCap /\ VideoCap /\ OneCallEach

\* The drop is left to the grace timer.
DropSpares(k, d) ==
  pc[k] = "dropClean" /\ todo'[k] # todo[k] /\ Cardinality(roster[d]) = 2 => roster'[d] = roster[d]
\* No timer of the user and call is counting any more.
CancelStops(k) ==
  pc[k] = "reading" /\ pc'[k] = "joinEvict" => \A t \in Timer : timer'[chan'[k]][Owner[k]][t] # "armed"
EndsStarted(k) == pc[k] = "leaveLog" /\ pc'[k] = "reading" => callLog[chan[k]] = "started"

\* A lost connection takes nobody out of a DM call that both parties are in, a
\* party that comes back in time stops the grace timer ("the call is alive and
\* must not be torn down"), and a hang-up logs the end of a call only where its
\* start is logged (cleanupVoiceForUser, cancelDMTeardown, endDMVoiceCall).
CallHeld == [][\A k \in Conn : (\A d \in DM : DropSpares(k, d)) /\ CancelStops(k) /\ EndsStarted(k)]_callVars
=============================================================================
