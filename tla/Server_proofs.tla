--------------------------- MODULE Server_proofs ---------------------------
(***************************************************************************)
(* Proofs about two parts of the server. Accounts: typing, single use of   *)
(* invitations and links, nobody locked out, the last admin, and that      *)
(* Accounts implements Credentials; all of them rest on Inv. VoiceCalls,   *)
(* in the second half: typing, nobody forgotten, the caps and the calls'   *)
(* lasting, for every set of users, channels, connections and timers and   *)
(* every value of the caps.                                                *)
(***************************************************************************)
EXTENDS Accounts, VoiceCalls, FiniteSetTheorems, TLAPS

Existing(n) == n \in Name /\ users[n] # None

\* What a handler knows of its request, stage by stage.
Knows(r) ==
  /\ Running(r) /\ job[r].op \in {"create", "signup", "login"} => job[r].name \in Name
  /\ Running(r) /\ job[r].op \in {"link", "role", "active"} => Existing(job[r].name)
  /\ job[r].at \in {"store", "session", "verify"} => Existing(job[r].name)
  /\ At(r, {"create"}, "mint") => Existing(job[r].name)
  /\ At(r, {"password"}, "start") => job[r].key \in Link /\ links[job[r].key].state # "none"
  /\ Running(r) /\ job[r].op \in {"signup", "revoke"} => job[r].key \in Invite
  /\ Running(r) /\ job[r].op = "logout" => job[r].by \in Name

Types ==
  /\ TypeOK
  /\ \A l \in Link : links[l].state # "none" => Existing(links[l].by)
  /\ \A r \in Req : Knows(r)
  /\ server = "mint" => users[Boot] # None

\* A sign-up whose transaction is open.
Open(r) == job[r].op = "signup" /\ job[r].at \in {"mark", "commit"}

\* What the locks of the database keep.
Locks ==
  /\ server # "up" => \A r \in Req : ~ByServer(r)
  /\ \A r \in Req : Open(r) => users[job[r].name] = None
  /\ \A r, q \in Req : Open(r) /\ Open(q) /\ job[r].name = job[q].name => r = q
  /\ \A r \in Req : At(r, {"signup"}, "commit") => invites[job[r].key].state = "open"
  /\ \A r, q \in Req : At(r, {"signup"}, "commit") /\ At(q, {"signup"}, "commit")
                         /\ job[r].key = job[q].key => r = q

\* What is left of an invitation or a link that has been used.
Uses ==
  /\ \A r \in Req : Redeemed(r) => /\ job[r].at \in {"session", "done"}
                                   /\ Existing(job[r].name) /\ job[r].key \in Invite
                                   /\ invites[job[r].key].state \in {"used", "gone"}
  /\ \A r \in Req : Spent(r) => /\ job[r].at \in {"store", "session", "done"}
                                /\ job[r].key \in Link /\ links[job[r].key].state = "used"

\* While no two removals have overlapped, the one that has passed the count
\* leaves another admin.
Admins ==
  ~raced =>
    /\ \A r, q \in Req : Removing(r) /\ Removing(q) => r = q
    /\ \A r \in Req :
         Removing(r) /\ job[r].at = "write" =>
           \E n \in Name : n # job[r].name /\ ActiveAdmin(n)
    /\ \A r \in Req :
         job[r].op \in AdminOps /\ job[r].at \in {"work", "count", "write"} => HasAdmin

Used == Uses /\ OneAccountPerInvitation /\ LinkOnce
Inv == Types /\ Locks /\ Used

-----------------------------------------------------------------------------
(* What the steps do to the requests.                                      *)

Others(r) == \A q \in Req \ {r} : job'[q] = job[q]

LEMMA Goes ==
  ASSUME TypeOK, NEW r \in Req, NEW s \in Stage, Go(r, s)
  PROVE  /\ job' \in [Req -> Jobs] /\ Others(r)
         /\ job'[r].at = s /\ job'[r].op = job[r].op /\ job'[r].by = job[r].by
         /\ job'[r].name = job[r].name /\ job'[r].key = job[r].key
         /\ job'[r].arg = job[r].arg /\ job'[r].ok = job[r].ok
<1> DEFINE j == [job[r] EXCEPT !.at = s]
<1>1. job[r] \in Jobs BY DEF TypeOK
<1>2. /\ j \in Jobs /\ j.at = s /\ j.op = job[r].op /\ j.by = job[r].by /\ j.name = job[r].name
      /\ j.key = job[r].key /\ j.arg = job[r].arg /\ j.ok = job[r].ok
  BY <1>1 DEF Jobs
<1>3. job' = [job EXCEPT ![r] = j] BY DEF Go
<1> HIDE DEF j
<1> QED BY <1>2, <1>3 DEF TypeOK, Others

LEMMA Replies ==
  ASSUME TypeOK, NEW r \in Req, Reply(r)
  PROVE  /\ job' \in [Req -> Jobs] /\ Others(r)
         /\ job'[r].at = "done" /\ job'[r].ok = job[r].ok
         /\ job[r].ok => /\ job'[r].op = job[r].op /\ job'[r].name = job[r].name
                         /\ job'[r].key = job[r].key
         /\ ~job[r].ok => job'[r].op = "login"
<1> DEFINE j == Ended(r)
<1>1. job[r] \in Jobs BY DEF TypeOK
<1>2. FreeJob \in Jobs BY DEF FreeJob, Jobs, Op, Stage
<1>3. CASE job[r].ok
  <2>1. j = [job[r] EXCEPT !.at = "done"] BY <1>3 DEF Ended
  <2>2. /\ j \in Jobs /\ j.at = "done" /\ j.ok = job[r].ok /\ j.op = job[r].op
        /\ j.name = job[r].name /\ j.key = job[r].key
    BY <1>1, <2>1 DEF Jobs, Stage
  <2>3. job' = [job EXCEPT ![r] = j] BY DEF Reply
  <2> HIDE DEF j
  <2> QED BY <1>3, <2>2, <2>3 DEF TypeOK, Others
<1>4. CASE ~job[r].ok
  <2>1. j = [FreeJob EXCEPT !.at = "done"] BY <1>4 DEF Ended
  <2>2. j \in Jobs /\ j.at = "done" /\ j.ok = FALSE /\ j.op = "login"
    BY <1>2, <2>1 DEF FreeJob, Jobs, Stage
  <2>3. job' = [job EXCEPT ![r] = j] BY DEF Reply
  <2>4. job[r].ok = FALSE BY <1>1, <1>4 DEF Jobs
  <2> HIDE DEF j
  <2> QED BY <1>4, <2>2, <2>3, <2>4 DEF TypeOK, Others
<1> QED BY <1>3, <1>4

\* A request knows what it knew as long as the store only grows.
LEMMA KnowsStill ==
  ASSUME Types, NEW r \in Req, Others(r), Knows(r)',
         \A n \in Name : users[n] # None => users'[n] # None,
         \A l \in Link : links[l].state # "none" => links'[l].state # "none"
  PROVE  \A q \in Req : Knows(q)'
<1> SUFFICES ASSUME NEW q \in Req, q # r PROVE Knows(q)'
  OBVIOUS
<1>1. Knows(q) BY DEF Types
<1>2. job'[q] = job[q] BY DEF Others
<1> QED BY <1>1, <1>2 DEF Knows, Running, At, Existing

\* Steps that only change what a handler does next.
LEMMA GoTypes ==
  ASSUME Types, NEW r \in Req, NEW s \in Stage, Go(r, s), UNCHANGED <<store, server, crashes>>,
         raced' \in BOOLEAN, interrupted' \in BOOLEAN, Running(r),
         s \in {"session", "verify"} => Existing(job[r].name),
         s \notin {"store", "mint", "start", "free"}
  PROVE  Types'
<1>1. /\ job' \in [Req -> Jobs] /\ Others(r)
      /\ job'[r].at = s /\ job'[r].op = job[r].op /\ job'[r].by = job[r].by
      /\ job'[r].name = job[r].name /\ job'[r].key = job[r].key
  BY Goes DEF Types
<1>2. TypeOK' BY <1>1 DEF Types, TypeOK, store
<1>3. Knows(r)
  BY DEF Types
<1>4. Knows(r)'
  BY <1>1, <1>3 DEF Knows, Running, At, Existing, store
<1>5. \A q \in Req : Knows(q)'
  BY <1>1, <1>4, KnowsStill DEF store
<1> QED BY <1>2, <1>5 DEF Types, Existing, store

LEMMA ReplyTypes ==
  ASSUME Types, NEW r \in Req, Reply(r), UNCHANGED <<store, server, crashes>>,
         raced' \in BOOLEAN, interrupted' \in BOOLEAN
  PROVE  Types'
<1>1. job' \in [Req -> Jobs] /\ Others(r) /\ job'[r].at = "done"
  BY Replies DEF Types
<1>2. TypeOK' BY <1>1 DEF Types, TypeOK, store
<1>3. Knows(r)'
  BY <1>1 DEF Knows, Running, At
<1>4. \A q \in Req : Knows(q)'
  BY <1>1, <1>3, KnowsStill DEF store
<1> QED BY <1>2, <1>4 DEF Types, Existing, store


-----------------------------------------------------------------------------
(* Typing.                                                                 *)

LEMMA TypesInit == Init => Types
<1> SUFFICES ASSUME Init PROVE Types
  OBVIOUS
<1>1. PICK F \in SUBSET Founder :
        users = [n \in Name |-> IF n \in F THEN Account(TRUE, TRUE) ELSE None] /\ sessions = F
  BY DEF Init
<1>2. FreeJob \in Jobs /\ FreeJob.at = "free"
  BY DEF FreeJob, Jobs, Op, Stage
<1>3. Account(TRUE, TRUE) \in Rows
  BY DEF Account, Rows
<1>4. users \in [Name -> Rows \cup {None}] /\ sessions \subseteq {n \in Name : users[n] # None}
  BY <1>1, <1>3, NameAssumption, RowAssumption
<1>5. TypeOK
  <2>1. [state |-> "none", by |-> None] \in
          [state : {"none", "open", "used", "gone"}, by : Name \cup {None}]
    OBVIOUS
  <2>2. [state |-> "none", by |-> None] \in
          [state : {"none", "open", "used"}, by : Name \cup {None}]
    OBVIOUS
  <2>3. invites \in [Invite -> [state : {"none", "open", "used", "gone"}, by : Name \cup {None}]]
    BY <2>1 DEF Init
  <2>4. links \in [Link -> [state : {"none", "open", "used"}, by : Name \cup {None}]]
    BY <2>2 DEF Init
  <2>5. job \in [Req -> Jobs] BY <1>2 DEF Init
  <2>6. crashes \in 0..MaxCrashes BY CrashAssumption DEF Init
  <2> QED BY <1>4, <2>3, <2>4, <2>5, <2>6 DEF Init, TypeOK
<1>6. \A r \in Req : Knows(r)
  BY <1>2 DEF Init, Knows, Running, At
<1> QED BY <1>5, <1>6 DEF Init, Types

\* A row that is written is a row, and no other goes.
LEMMA RowWritten ==
  ASSUME TypeOK, NEW n \in Name, NEW row \in Rows, users' = [users EXCEPT ![n] = row]
  PROVE  /\ users' \in [Name -> Rows \cup {None}] /\ users'[n] = row /\ users'[n] # None
         /\ \A m \in Name \ {n} : users'[m] = users[m]
         /\ \A m \in Name : users[m] # None => users'[m] # None
BY RowAssumption DEF TypeOK

\* Creating an account.
LEMMA AccountTypes ==
  ASSUME NEW x \in BOOLEAN, NEW y \in BOOLEAN
  PROVE  Account(x, y) \in Rows /\ Account(x, y).admin = x /\ Account(x, y).active = TRUE
         /\ Account(x, y).password = y
BY DEF Account, Rows

LEMMA LinkTypes ==
  ASSUME TypeOK, NEW l \in Link, NEW n \in Name, NewLink(l, n)
  PROVE  /\ links' \in [Link -> [state : {"none", "open", "used"}, by : Name \cup {None}]]
         /\ links'[l].by = n /\ links'[l].state = "open"
         /\ \A k \in Link \ {l} : links'[k] = links[k]
         /\ \A k \in Link : links[k].state # "none" => links'[k].state # "none"
<1> DEFINE new == [state |-> "open", by |-> n]
<1>1. new \in [state : {"none", "open", "used"}, by : Name \cup {None}]
      /\ new.by = n /\ new.state = "open"
  OBVIOUS
<1>2. links' = [links EXCEPT ![l] = new] BY DEF NewLink
<1> HIDE DEF new
<1> QED BY <1>1, <1>2 DEF TypeOK, NewLink

LEMMA BootTypes == Types /\ (Start \/ BootCount \/ BootCreate \/ BootMint \/ Crash) => Types'
<1> SUFFICES ASSUME Types, Start \/ BootCount \/ BootCreate \/ BootMint \/ Crash PROVE Types'
  OBVIOUS
<1> Boot \in Name BY NameAssumption
<1>1. CASE Start
  <2>1. TypeOK' BY <1>1 DEF Start, Types, TypeOK, store, ghosts
  <2>2. \A r \in Req : Knows(r)'
    BY <1>1 DEF Start, Types, Knows, Running, At, Existing, store
  <2> QED BY <1>1, <2>1, <2>2 DEF Start, Types, Existing, store
<1>2. CASE BootCount
  <2>1. TypeOK' BY <1>2 DEF BootCount, Types, TypeOK, store, ghosts
  <2>2. \A r \in Req : Knows(r)'
    BY <1>2 DEF BootCount, Types, Knows, Running, At, Existing, store
  <2> QED BY <1>2, <2>1, <2>2 DEF BootCount, Types, Existing, store
<1>3. CASE BootCreate
  <2>1. users' \in [Name -> Rows \cup {None}] /\ \A m \in Name : users[m] # None => users'[m] # None
    <3>1. CASE users[Boot] = None
      BY <1>3, <3>1, RowWritten, AccountTypes DEF BootCreate, Types
    <3>2. CASE users[Boot] # None
      BY <1>3, <3>2 DEF BootCreate, Types, TypeOK
    <3> QED BY <3>1, <3>2
  <2>2. server' = "mint" => users'[Boot] # None
    BY <1>3, RowWritten, AccountTypes DEF BootCreate, Types
  <2>3. server' \in {"mint", "up"} BY <1>3 DEF BootCreate
  <2>4. TypeOK' BY <1>3, <2>1, <2>3 DEF BootCreate, Types, TypeOK, ghosts
  <2>5. \A r \in Req : Knows(r)'
    BY <1>3, <2>1 DEF BootCreate, Types, Knows, Running, At, Existing
  <2> QED BY <1>3, <2>1, <2>2, <2>4, <2>5 DEF BootCreate, Types, Existing
<1>4. CASE BootMint
  <2>1. /\ links' \in [Link -> [state : {"none", "open", "used"}, by : Name \cup {None}]]
        /\ \A l \in Link : links'[l].state # "none" =>
             \/ links'[l] = links[l]
             \/ links'[l].by = Boot
        /\ \A l \in Link : links[l].state # "none" => links'[l].state # "none"
    <3>1. CASE UNCHANGED links BY <3>1 DEF Types, TypeOK
    <3>2. CASE \E l \in Link : NewLink(l, Boot)
      BY <1>4, <3>2, LinkTypes DEF BootMint, Types
    <3> QED BY <1>4, <3>1, <3>2 DEF BootMint
  <2>2. TypeOK' BY <1>4, <2>1 DEF BootMint, Types, TypeOK
  <2>3. \A r \in Req : Knows(r)'
    BY <1>4, <2>1 DEF BootMint, Types, Knows, Running, At, Existing
  <2>4. users[Boot] # None BY <1>4 DEF BootMint, Types
  <2> QED BY <1>4, <2>1, <2>2, <2>3, <2>4 DEF BootMint, Types, Existing
<1>5. CASE Crash
  <2>1. \A r \in Req : Ended(r) \in Jobs /\ Ended(r).at = "done"
    <3> SUFFICES ASSUME NEW r \in Req PROVE Ended(r) \in Jobs /\ Ended(r).at = "done"
      OBVIOUS
    <3>1. job[r] \in Jobs BY DEF Types, TypeOK
    <3>2. FreeJob \in Jobs BY DEF FreeJob, Jobs, Op, Stage
    <3> QED BY <3>1, <3>2 DEF Ended, Jobs, Stage
  <2>2. job' \in [Req -> Jobs] /\ \A r \in Req : job'[r] = job[r] \/ job'[r].at = "done"
    BY <1>5, <2>1 DEF Crash, Types, TypeOK
  <2>3. crashes' \in 0..MaxCrashes
    BY <1>5, CrashAssumption DEF Crash, Types, TypeOK
  <2>4. interrupted' \in BOOLEAN BY <1>5 DEF Crash
  <2>5. TypeOK' BY <1>5, <2>2, <2>3, <2>4 DEF Crash, Types, TypeOK, store
  <2>6. \A r \in Req : Knows(r)'
    BY <1>5, <2>2 DEF Crash, Types, Knows, Running, At, Existing, store
  <2> QED BY <1>5, <2>5, <2>6 DEF Crash, Types, Existing, store
<1> QED BY <1>1, <1>2, <1>3, <1>4, <1>5


LEMMA RequestTypes ==
  ASSUME Types, NEW r \in Req, NEW op \in Op, Request(r, op)
  PROVE  Types'
<1>1. PICK by \in By(op), name \in About(op), key \in With(op), arg \in For(op) :
        job' = [job EXCEPT ![r] = [op |-> op, at |-> "start", by |-> by, name |-> name,
                                   key |-> key, arg |-> arg, ok |-> FALSE]]
  BY DEF Request
<1> DEFINE new == [op |-> op, at |-> "start", by |-> by, name |-> name,
                   key |-> key, arg |-> arg, ok |-> FALSE]
<1>2. by \in Name \cup {None} /\ (op = "logout" => by \in Name)
  BY DEF By, Types, TypeOK
<1>3. /\ name \in Name \cup {None}
      /\ op \in {"create", "signup", "login"} => name \in Name
      /\ op \in {"link", "role", "active"} => Existing(name)
  BY DEF About, Existing
<1>4. /\ key \in Invite \cup Link \cup {None}
      /\ op \in {"signup", "revoke"} => key \in Invite
      /\ op = "password" => key \in Link /\ links[key].state # "none"
  BY DEF With
<1>5. arg \in BOOLEAN BY DEF For
<1>6. new \in Jobs BY <1>2, <1>3, <1>4, <1>5 DEF Jobs, Stage
<1>7. /\ new.op = op /\ new.at = "start" /\ new.by = by /\ new.name = name /\ new.key = key
      /\ new.ok = FALSE
  OBVIOUS
<1>8. job' = [job EXCEPT ![r] = new] BY <1>1
<1> HIDE DEF new
<1>9. job' \in [Req -> Jobs] /\ Others(r) /\ job'[r] = new
  BY <1>6, <1>8 DEF Types, TypeOK, Others
<1>10. UNCHANGED <<store, server, crashes, ghosts>> BY DEF Request
<1>11. TypeOK' BY <1>9, <1>10 DEF Types, TypeOK, store, ghosts
<1>12. Knows(r)'
  BY <1>2, <1>3, <1>4, <1>7, <1>9, <1>10 DEF Knows, Running, At, Existing, store
<1>13. \A q \in Req : Knows(q)'
  BY <1>9, <1>10, <1>12, KnowsStill DEF store
<1> QED BY <1>10, <1>11, <1>13 DEF Types, Existing, store

\* A refusal changes nothing but the request; so does a handler that ends early.
LEMMA RefuseTypes ==
  ASSUME Types, NEW r \in Req, Refuse(r) \/ Abort(r)
  PROVE  Types'
<1>1. Reply(r) /\ UNCHANGED <<store, server, crashes>> BY DEF Refuse, Abort
<1>2. raced' \in BOOLEAN /\ interrupted' \in BOOLEAN
  BY DEF Refuse, Abort, Types, TypeOK, ghosts, Halfway, At
<1> QED BY <1>1, <1>2, ReplyTypes

\* Steps of a handler that change the store.
LEMMA CommitTypes ==
  ASSUME Types, NEW r \in Req, Commit(r)
  PROVE  /\ Types' /\ Others(r) /\ job'[r].op = "signup" /\ job'[r].at = "session"
         /\ job'[r].ok = TRUE /\ job'[r].name = job[r].name /\ job'[r].key = job[r].key
         /\ job[r].name \in Name /\ job[r].key \in Invite
         /\ users'[job[r].name] = Account(FALSE, TRUE) /\ users'[job[r].name] # None
         /\ \A m \in Name \ {job[r].name} : users'[m] = users[m]
         /\ invites'[job[r].key].state = "used" /\ invites'[job[r].key].by = job[r].name
         /\ \A i \in Invite \ {job[r].key} : invites'[i] = invites[i]
<1> DEFINE n == job[r].name
           used == [state |-> "used", by |-> n]
           j == [job[r] EXCEPT !.at = "session", !.ok = TRUE]
<1>1. job[r] \in Jobs /\ job[r].op = "signup" /\ n \in Name /\ job[r].key \in Invite
  BY DEF Types, TypeOK, Commit, At, Knows, Running
<1>2. /\ j \in Jobs /\ j.at = "session" /\ j.ok = TRUE /\ j.op = job[r].op
      /\ j.name = n /\ j.key = job[r].key
  BY <1>1 DEF Jobs, Stage
<1>3. used \in [state : {"none", "open", "used", "gone"}, by : Name \cup {None}]
      /\ used.state = "used" /\ used.by = n
  BY <1>1
<1>4. job' = [job EXCEPT ![r] = j] /\ invites' = [invites EXCEPT ![job[r].key] = used]
  BY DEF Commit
<1>5. users' = [users EXCEPT ![n] = Account(FALSE, TRUE)] BY DEF Commit
<1> HIDE DEF j, used
<1>6. job' \in [Req -> Jobs] /\ Others(r) /\ job'[r] = j
  BY <1>2, <1>4 DEF Types, TypeOK, Others
<1>7. /\ users' \in [Name -> Rows \cup {None}] /\ users'[n] = Account(FALSE, TRUE)
      /\ users'[n] # None
      /\ \A m \in Name \ {n} : users'[m] = users[m]
      /\ \A m \in Name : users[m] # None => users'[m] # None
  BY <1>1, <1>5, RowWritten, AccountTypes DEF Types
<1>8. /\ invites' \in [Invite -> [state : {"none", "open", "used", "gone"}, by : Name \cup {None}]]
      /\ invites'[job[r].key] = used
      /\ \A i \in Invite \ {job[r].key} : invites'[i] = invites[i]
  BY <1>1, <1>3, <1>4 DEF Types, TypeOK
<1>9. UNCHANGED <<links, sessions, server, crashes, raced, interrupted>> BY DEF Commit, ghosts
<1>10. TypeOK' BY <1>6, <1>7, <1>8, <1>9 DEF Types, TypeOK
<1>11. Knows(r)'
  BY <1>1, <1>2, <1>6, <1>7 DEF Knows, Running, At, Existing
<1>12. \A q \in Req : Knows(q)'
  BY <1>6, <1>7, <1>9, <1>11, KnowsStill
<1>13. Types'
  BY <1>7, <1>9, <1>10, <1>12, NameAssumption DEF Types, Existing
<1> QED BY <1>1, <1>2, <1>3, <1>6, <1>7, <1>8, <1>13


LEMMA CreateUserTypes ==
  ASSUME Types, NEW r \in Req, CreateUser(r), users[job[r].name] = None
  PROVE  /\ Types' /\ Go(r, "mint") /\ job[r].name \in Name
         /\ users'[job[r].name] = Account(TRUE, FALSE) /\ users'[job[r].name] # None
         /\ \A m \in Name \ {job[r].name} : users'[m] = users[m]
         /\ UNCHANGED <<invites, links, sessions, server, crashes, ghosts>>
<1>1. job[r].name \in Name
  BY DEF Types, CreateUser, At, Knows, Running
<1>2. /\ Go(r, "mint") /\ users' = [users EXCEPT ![job[r].name] = Account(TRUE, FALSE)]
      /\ UNCHANGED <<invites, links, sessions, server, crashes, ghosts>>
      /\ job[r].op = "create"
  BY DEF CreateUser, At
<1>3. /\ users' \in [Name -> Rows \cup {None}]
      /\ users'[job[r].name] = Account(TRUE, FALSE) /\ users'[job[r].name] # None
      /\ \A m \in Name \ {job[r].name} : users'[m] = users[m]
      /\ \A m \in Name : users[m] # None => users'[m] # None
  BY <1>1, <1>2, RowWritten, AccountTypes DEF Types
<1>4. "mint" \in Stage BY DEF Stage
<1>5. /\ job' \in [Req -> Jobs] /\ Others(r)
      /\ job'[r].at = "mint" /\ job'[r].op = job[r].op /\ job'[r].name = job[r].name
  BY <1>2, <1>4, Goes DEF Types
<1>6. TypeOK' BY <1>2, <1>3, <1>5 DEF Types, TypeOK, ghosts
<1>7. Knows(r)' BY <1>1, <1>2, <1>3, <1>5 DEF Knows, Running, At, Existing
<1>8. \A q \in Req : Knows(q)' BY <1>2, <1>3, <1>5, <1>7, KnowsStill
<1>9. Types' BY <1>2, <1>3, <1>6, <1>8, NameAssumption DEF Types, Existing
<1> QED BY <1>1, <1>2, <1>3, <1>9

\* A link is issued, by the command line or by an administrator.
LEMMA IssueTypes ==
  ASSUME Types, NEW r \in Req, MintLink(r) \/ CreateMagicLink(r)
  PROVE  /\ Types' /\ Reply(r)
         /\ \A l \in Link : \/ links'[l] = links[l]
                            \/ links[l].state = "none" /\ links'[l].state = "open"
                               /\ links'[l].by = job[r].name
         /\ At(r, {"create"}, "mint") =>
              \E l \in Link : links'[l].state = "open" /\ links'[l].by = job[r].name
         /\ UNCHANGED <<users, invites, sessions, server, crashes, ghosts>>
<1>1. Existing(job[r].name)
  BY DEF Types, MintLink, CreateMagicLink, At, Knows, Running
<1>2. PICK l \in Link : NewLink(l, job[r].name)
  BY DEF MintLink, CreateMagicLink
<1>3. Reply(r) /\ UNCHANGED <<users, invites, sessions, server, crashes, ghosts>>
  BY DEF MintLink, CreateMagicLink
<1>4. /\ links' \in [Link -> [state : {"none", "open", "used"}, by : Name \cup {None}]]
      /\ links'[l].by = job[r].name /\ links'[l].state = "open"
      /\ \A k \in Link \ {l} : links'[k] = links[k]
      /\ \A k \in Link : links[k].state # "none" => links'[k].state # "none"
  BY <1>1, <1>2, LinkTypes DEF Types, Existing
<1>5. links[l].state = "none" BY <1>2 DEF NewLink
<1>6. job' \in [Req -> Jobs] /\ Others(r) /\ job'[r].at = "done"
  BY <1>3, Replies DEF Types
<1>7. TypeOK' BY <1>3, <1>4, <1>6 DEF Types, TypeOK, ghosts
<1>8. Knows(r)' BY <1>6 DEF Knows, Running, At
<1>9. \A q \in Req : Knows(q)' BY <1>3, <1>4, <1>6, <1>8, KnowsStill
<1>10. Types' BY <1>1, <1>3, <1>4, <1>7, <1>9 DEF Types, Existing
<1> QED BY <1>3, <1>4, <1>5, <1>10

\* Sessions come and go.
LEMMA SessionTypes ==
  ASSUME Types, NEW r \in Req, StartSession(r) \/ Logout(r)
  PROVE  Types' /\ Reply(r) /\ UNCHANGED <<users, invites, links, server, crashes, ghosts>>
<1>1. Reply(r) /\ UNCHANGED <<users, invites, links, server, crashes, ghosts>>
  BY DEF StartSession, Logout
<1>2. sessions' \subseteq {n \in Name : users[n] # None}
  <2>1. CASE StartSession(r)
    BY <2>1 DEF StartSession, Types, TypeOK, Knows, Existing
  <2>2. CASE Logout(r)
    BY <2>2 DEF Logout, Types, TypeOK
  <2> QED BY <2>1, <2>2
<1>3. job' \in [Req -> Jobs] /\ Others(r) /\ job'[r].at = "done"
  BY <1>1, Replies DEF Types
<1>4. TypeOK' BY <1>1, <1>2, <1>3 DEF Types, TypeOK, ghosts
<1>5. Knows(r)' BY <1>3 DEF Knows, Running, At
<1>6. \A q \in Req : Knows(q)' BY <1>1, <1>3, <1>5, KnowsStill
<1>7. Types' BY <1>1, <1>4, <1>6 DEF Types, Existing
<1> QED BY <1>1, <1>7

LEMMA ConsumeTypes ==
  ASSUME Types, NEW r \in Req, ConsumeMagicLink(r), links[job[r].key].state = "open"
  PROVE  /\ Types' /\ Others(r) /\ job[r].key \in Link /\ Existing(links[job[r].key].by)
         /\ job'[r].op = "password" /\ job'[r].at = "store" /\ job'[r].key = job[r].key
         /\ job'[r].name = links[job[r].key].by /\ links'[job[r].key].state = "used"
         /\ \A l \in Link \ {job[r].key} : links'[l] = links[l]
         /\ UNCHANGED <<users, invites, sessions, server, crashes, ghosts>>
<1> DEFINE k == job[r].key
           n == links[k].by
           j == [job[r] EXCEPT !.at = "store", !.ok = TRUE, !.name = n]
           used == [links[k] EXCEPT !.state = "used"]
<1>1. /\ job[r] \in Jobs /\ job[r].op = "password" /\ job[r].at = "start"
      /\ k \in Link /\ links[k].state # "none"
  BY DEF Types, TypeOK, ConsumeMagicLink, At, Knows
<1>2. Existing(n) BY <1>1 DEF Types
<1>3. /\ j \in Jobs /\ j.at = "store" /\ j.op = job[r].op /\ j.key = k /\ j.name = n
  BY <1>1, <1>2 DEF Jobs, Stage, Existing
<1>4. links[k] \in [state : {"none", "open", "used"}, by : Name \cup {None}]
  BY <1>1 DEF Types, TypeOK
<1>5. used \in [state : {"none", "open", "used"}, by : Name \cup {None}]
      /\ used.state = "used" /\ used.by = n
  BY <1>4
<1>6. /\ job' = [job EXCEPT ![r] = j] /\ links' = [links EXCEPT ![k] = used]
      /\ UNCHANGED <<users, invites, sessions, server, crashes, ghosts>>
  BY DEF ConsumeMagicLink
<1> HIDE DEF j, used
<1>7. job' \in [Req -> Jobs] /\ Others(r) /\ job'[r] = j
  BY <1>3, <1>6 DEF Types, TypeOK, Others
<1>8. /\ links' \in [Link -> [state : {"none", "open", "used"}, by : Name \cup {None}]]
      /\ links'[k] = used /\ \A l \in Link \ {k} : links'[l] = links[l]
  BY <1>1, <1>5, <1>6 DEF Types, TypeOK
<1>9. TypeOK' BY <1>6, <1>7, <1>8 DEF Types, TypeOK, ghosts
<1>10. Knows(r)' BY <1>1, <1>2, <1>3, <1>6, <1>7 DEF Knows, Running, At, Existing
<1>11. \A q \in Req : Knows(q)' BY <1>5, <1>6, <1>7, <1>8, <1>10, KnowsStill
<1>12. Types' BY <1>2, <1>5, <1>6, <1>8, <1>9, <1>11 DEF Types, Existing
<1> QED BY <1>1, <1>2, <1>3, <1>5, <1>6, <1>7, <1>8, <1>12


LEMMA PasswordTypes ==
  ASSUME Types, NEW r \in Req, SetPassword(r)
  PROVE  /\ Types' /\ Go(r, "session") /\ Existing(job[r].name)
         /\ users'[job[r].name] # None /\ users'[job[r].name].password = TRUE
         /\ users'[job[r].name].admin = users[job[r].name].admin
         /\ users'[job[r].name].active = users[job[r].name].active
         /\ \A m \in Name \ {job[r].name} : users'[m] = users[m]
         /\ UNCHANGED <<invites, links, sessions, server, crashes, ghosts>>
<1> DEFINE n == job[r].name
           row == [users[n] EXCEPT !.password = TRUE]
<1>1. Existing(n) BY DEF Types, Knows, SetPassword, At
<1>2. users[n] \in Rows BY <1>1 DEF Types, TypeOK, Existing
<1>3. /\ row \in Rows /\ row.password = TRUE /\ row.admin = users[n].admin
      /\ row.active = users[n].active
  BY <1>2 DEF Rows
<1>4. /\ Go(r, "session") /\ users' = [users EXCEPT ![n] = row]
      /\ UNCHANGED <<invites, links, sessions, server, crashes, ghosts>>
  BY DEF SetPassword
<1> HIDE DEF row
<1>5. /\ users' \in [Name -> Rows \cup {None}] /\ users'[n] = row /\ users'[n] # None
      /\ \A m \in Name \ {n} : users'[m] = users[m]
      /\ \A m \in Name : users[m] # None => users'[m] # None
  BY <1>1, <1>3, <1>4, RowWritten DEF Types, Existing
<1>6. "session" \in Stage BY DEF Stage
<1>7. /\ job' \in [Req -> Jobs] /\ Others(r)
      /\ job'[r].at = "session" /\ job'[r].op = job[r].op /\ job'[r].name = n
  BY <1>4, <1>6, Goes DEF Types
<1>8. TypeOK' BY <1>4, <1>5, <1>7 DEF Types, TypeOK, ghosts
<1>9. job[r].op = "password" BY DEF SetPassword, At
<1>10. Knows(r)' BY <1>1, <1>5, <1>7, <1>9 DEF Knows, Running, At, Existing
<1>11. \A q \in Req : Knows(q)' BY <1>4, <1>5, <1>7, <1>10, KnowsStill
<1>12. Types' BY <1>4, <1>5, <1>8, <1>11, NameAssumption DEF Types, Existing
<1> QED BY <1>1, <1>3, <1>4, <1>5, <1>12 DEF Existing

LEMMA InvitationTypes ==
  ASSUME Types, NEW r \in Req, CreateInvitation(r) \/ DeleteInvitation(r)
  PROVE  /\ Types' /\ Reply(r)
         /\ \A i \in Invite : \/ invites'[i] = invites[i]
                              \/ invites[i].state = "none" /\ invites'[i].state = "open"
                              \/ invites'[i].state = "gone" /\ ~RowHeld(i)
         /\ UNCHANGED <<users, links, sessions, server, crashes, ghosts>>
<1>1. Reply(r) /\ UNCHANGED <<users, links, sessions, server, crashes, ghosts>>
  BY DEF CreateInvitation, DeleteInvitation
<1>2. /\ invites' \in [Invite -> [state : {"none", "open", "used", "gone"}, by : Name \cup {None}]]
      /\ \A i \in Invite : \/ invites'[i] = invites[i]
                           \/ invites[i].state = "none" /\ invites'[i].state = "open"
                           \/ invites'[i].state = "gone" /\ ~RowHeld(i)
  <2>1. CASE CreateInvitation(r)
    <3>1. PICK i \in Invite : /\ invites[i].state = "none"
                              /\ invites' = [invites EXCEPT ![i].state = "open"]
      BY <2>1 DEF CreateInvitation
    <3> DEFINE new == [invites[i] EXCEPT !.state = "open"]
    <3>2. invites[i] \in [state : {"none", "open", "used", "gone"}, by : Name \cup {None}]
      BY DEF Types, TypeOK
    <3>3. new \in [state : {"none", "open", "used", "gone"}, by : Name \cup {None}]
          /\ new.state = "open"
      BY <3>2
    <3>4. invites' = [invites EXCEPT ![i] = new] BY <3>1
    <3> HIDE DEF new
    <3> QED BY <3>1, <3>3, <3>4 DEF Types, TypeOK
  <2>2. CASE DeleteInvitation(r)
    <3> DEFINE new == [state |-> "gone", by |-> None]
    <3>1. new \in [state : {"none", "open", "used", "gone"}, by : Name \cup {None}]
          /\ new.state = "gone"
      OBVIOUS
    <3>2. /\ invites' = [invites EXCEPT ![job[r].key] = new] /\ job[r].key \in Invite
          /\ ~RowHeld(job[r].key)
      BY <2>2 DEF DeleteInvitation, Types, Knows, Running, At
    <3> HIDE DEF new
    <3> QED BY <3>1, <3>2 DEF Types, TypeOK
  <2> QED BY <2>1, <2>2
<1>3. job' \in [Req -> Jobs] /\ Others(r) /\ job'[r].at = "done"
  BY <1>1, Replies DEF Types
<1>4. TypeOK' BY <1>1, <1>2, <1>3 DEF Types, TypeOK, ghosts
<1>5. Knows(r)' BY <1>3 DEF Knows, Running, At
<1>6. \A q \in Req : Knows(q)' BY <1>1, <1>3, <1>5, KnowsStill
<1>7. Types' BY <1>1, <1>4, <1>6 DEF Types, Existing
<1> QED BY <1>1, <1>2, <1>7

LEMMA WriteTypes ==
  ASSUME Types, NEW r \in Req, WriteTarget(r)
  PROVE  /\ Types' /\ Reply(r) /\ Existing(job[r].name)
         /\ users'[job[r].name].password = users[job[r].name].password
         /\ users'[job[r].name] # None
         /\ job[r].arg => /\ users[job[r].name].admin => users'[job[r].name].admin
                          /\ users[job[r].name].active => users'[job[r].name].active
         /\ \A m \in Name \ {job[r].name} : users'[m] = users[m]
         /\ UNCHANGED <<invites, links, sessions, server, crashes, ghosts>>
<1> DEFINE n == job[r].name
           a == [users[n] EXCEPT !.admin = job[r].arg]
           b == [users[n] EXCEPT !.active = job[r].arg]
           row == IF job[r].op = "role" THEN a ELSE b
<1>1. Existing(n) BY DEF Types, Knows, WriteTarget, At, Running
<1>2. users[n] \in Rows BY <1>1 DEF Types, TypeOK, Existing
<1>3. job[r].arg \in BOOLEAN BY DEF Types, TypeOK, Jobs
<1>4. a \in Rows /\ a.password = users[n].password /\ a.active = users[n].active
      /\ a.admin = job[r].arg
  BY <1>2, <1>3 DEF Rows
<1>5. b \in Rows /\ b.password = users[n].password /\ b.admin = users[n].admin
      /\ b.active = job[r].arg
  BY <1>2, <1>3 DEF Rows
<1>6. /\ Reply(r) /\ UNCHANGED <<invites, links, sessions, server, crashes, ghosts>>
      /\ users' = IF job[r].op = "role" THEN [users EXCEPT ![n] = a] ELSE [users EXCEPT ![n] = b]
  BY DEF WriteTarget
<1> HIDE DEF a, b
<1>7. /\ row \in Rows /\ row.password = users[n].password
      /\ job[r].arg => (users[n].admin => row.admin) /\ (users[n].active => row.active)
  BY <1>4, <1>5
<1>8. users' = [users EXCEPT ![n] = row] BY <1>6
<1> HIDE DEF row
<1>9. /\ users' \in [Name -> Rows \cup {None}] /\ users'[n] = row /\ users'[n] # None
      /\ \A m \in Name \ {n} : users'[m] = users[m]
      /\ \A m \in Name : users[m] # None => users'[m] # None
  BY <1>1, <1>7, <1>8, RowWritten DEF Types, Existing
<1>10. job' \in [Req -> Jobs] /\ Others(r) /\ job'[r].at = "done"
  BY <1>6, Replies DEF Types
<1>11. TypeOK' BY <1>6, <1>9, <1>10 DEF Types, TypeOK, ghosts
<1>12. Knows(r)' BY <1>10 DEF Knows, Running, At
<1>13. \A q \in Req : Knows(q)' BY <1>6, <1>9, <1>10, <1>12, KnowsStill
<1>14. Types' BY <1>6, <1>9, <1>11, <1>13, NameAssumption DEF Types, Existing
<1> QED BY <1>1, <1>6, <1>7, <1>9, <1>14


\* The steps that move a handler on without touching the store.
Advances(r) ==
  \/ At(r, {"signup"}, "start") /\ ~NameHeld(job[r].name) /\ users[job[r].name] = None
       /\ Go(r, "mark") /\ UNCHANGED raced
  \/ At(r, {"signup"}, "mark") /\ ~RowHeld(job[r].key) /\ invites[job[r].key].state = "open"
       /\ Go(r, "commit") /\ UNCHANGED raced
  \/ Lookup(r) /\ Go(r, "verify") /\ users[job[r].name] # None /\ UNCHANGED raced
  \/ Verify(r) /\ Go(r, "session") /\ UNCHANGED raced
  \/ Admit(r) /\ Go(r, "work") /\ HasAdmin /\ UNCHANGED raced
  \/ ReadTarget(r)
  \/ CountAdmins(r) /\ Go(r, "write") /\ UNCHANGED raced
       /\ \E m, n \in Name : m # n /\ ActiveAdmin(m) /\ ActiveAdmin(n)

Stores(r) ==
  \/ Commit(r)
  \/ CreateUser(r) /\ users[job[r].name] = None
  \/ MintLink(r) \/ CreateMagicLink(r)
  \/ StartSession(r) \/ Logout(r)
  \/ ConsumeMagicLink(r) /\ links[job[r].key].state = "open"
  \/ SetPassword(r) \/ CreateInvitation(r) \/ DeleteInvitation(r) \/ WriteTarget(r)

LEMMA Steps ==
  ASSUME Types, NEW r \in Req, Handler(r)
  PROVE  \/ Refuse(r) /\ ~Halfway(r)
         \/ Abort(r)
         \/ Advances(r) /\ UNCHANGED <<store, server, crashes, interrupted>>
         \/ Stores(r)
<1>1. CASE Insert(r) BY <1>1 DEF Insert, Advances, ghosts, Halfway, At
<1>2. CASE Mark(r) BY <1>2 DEF Mark, Advances, ghosts, Halfway, At
<1>3. CASE Lookup(r) BY <1>3 DEF Lookup, Advances, ghosts, Halfway, At
<1>4. CASE Verify(r) BY <1>4 DEF Verify, Advances, ghosts, Halfway, At
<1>5. CASE Admit(r)
  <2>1. CASE Refuse(r) BY <1>5, <2>1 DEF Admit, Halfway, At
  <2>2. CASE ~Refuse(r)
    <3>1. /\ job[r].by \in sessions /\ ActiveAdmin(job[r].by)
          /\ Go(r, "work") /\ UNCHANGED <<store, server, crashes, ghosts>>
      BY <1>5, <2>2 DEF Admit
    <3>2. HasAdmin BY <3>1 DEF HasAdmin, Types, TypeOK
    <3> QED BY <1>5, <3>1, <3>2 DEF Advances, ghosts
  <2> QED BY <2>1, <2>2
<1>6. CASE ReadTarget(r) BY <1>6 DEF ReadTarget, Advances
<1>7. CASE CountAdmins(r) BY <1>7 DEF CountAdmins, Advances, ghosts, Halfway, At
<1>8. CASE CreateUser(r) BY <1>8 DEF CreateUser, Stores, Halfway, At
<1>9. CASE ConsumeMagicLink(r) BY <1>9 DEF ConsumeMagicLink, Stores, Halfway, At
<1> QED BY <1>1, <1>2, <1>3, <1>4, <1>5, <1>6, <1>7, <1>8, <1>9 DEF Handler, Stores

LEMMA AdvanceTypes ==
  ASSUME Types, NEW r \in Req, Advances(r), UNCHANGED <<store, server, crashes, interrupted>>
  PROVE  Types' /\ \E s \in Stage : Go(r, s)
<1> interrupted' \in BOOLEAN BY DEF Types, TypeOK
<1> raced' \in BOOLEAN BY DEF Advances, ReadTarget, Types, TypeOK
<1> {"mark", "commit", "verify", "session", "work", "count", "write"} \subseteq Stage
  BY DEF Stage
<1>1. CASE Lookup(r) /\ Go(r, "verify") /\ users[job[r].name] # None
  <2>1. Running(r) /\ Existing(job[r].name)
    BY <1>1 DEF Lookup, Types, Knows, Running, At, Existing
  <2> QED BY <1>1, <2>1, GoTypes
<1>2. CASE Verify(r) /\ Go(r, "session")
  <2>1. Running(r) /\ Existing(job[r].name)
    BY <1>2 DEF Verify, Types, Knows, Running, At
  <2> QED BY <1>2, <2>1, GoTypes
<1>3. CASE ReadTarget(r)
  <2>1. Running(r) /\ (Go(r, "count") \/ Go(r, "write"))
    BY <1>3 DEF ReadTarget, Running, At
  <2> QED BY <2>1, GoTypes
<1>4. CASE Running(r) /\ (Go(r, "mark") \/ Go(r, "commit") \/ Go(r, "work") \/ Go(r, "write"))
  BY <1>4, GoTypes
<1> QED BY <1>1, <1>2, <1>3, <1>4 DEF Advances, At, Running, Admit, CountAdmins

LEMMA TypesNext == Types /\ [Next]_vars => Types'
<1> SUFFICES ASSUME Types, [Next]_vars PROVE Types'
  OBVIOUS
<1>1. CASE \E r \in Req : Handler(r)
  <2> SUFFICES ASSUME NEW r \in Req, Handler(r) PROVE Types'
    BY <1>1
  <2>1. CASE Stores(r)
    BY <2>1, CommitTypes, CreateUserTypes, IssueTypes, SessionTypes, ConsumeTypes,
       PasswordTypes, InvitationTypes, WriteTypes DEF Stores
  <2> QED BY <2>1, Steps, RefuseTypes, AdvanceTypes
<1>2. CASE \E r \in Req, op \in Op : Request(r, op)
  BY <1>2, RequestTypes
<1>3. CASE Start \/ BootCount \/ BootCreate \/ BootMint \/ Crash
  BY <1>3, BootTypes
<1>4. CASE UNCHANGED vars
  <2>1. \A r \in Req : Knows(r)'
    BY <1>4 DEF Types, Knows, Running, At, Existing, vars, store
  <2> QED BY <1>4, <2>1 DEF Types, TypeOK, Existing, vars, store, ghosts
<1> QED BY <1>1, <1>2, <1>3, <1>4 DEF Next

\* Every reachable state is well-typed: rows, invitations, links, sessions of
\* existing users, and what each handler carries from statement to statement.
THEOREM Typing == Spec => []TypeOK
<1>1. Types => TypeOK BY DEF Types
<1> QED BY TypesInit, TypesNext, <1>1, PTL DEF Spec


-----------------------------------------------------------------------------
(* The locks.                                                              *)

\* A step of a handler whose transaction is not or no longer open.
LEMMA QuietLocks ==
  ASSUME Locks, NEW r \in Req, Others(r), ~Open(r)', ByServer(r)' => server' = "up",
         server' = server,
         \A q \in Req \ {r} : Open(q) => users'[job[q].name] = None,
         \A q \in Req \ {r} : At(q, {"signup"}, "commit") => invites'[job[q].key].state = "open"
  PROVE  Locks'
<1>1. \A q \in Req \ {r} : job'[q] = job[q] BY DEF Others
<1>2. \A q \in Req : At(q, {"signup"}, "commit")' => q # r
  BY DEF Open, At
<1>3. server' # "up" => \A q \in Req : ~ByServer(q)'
  BY <1>1 DEF Locks, ByServer, Running
<1>4. \A q \in Req : Open(q)' => users'[job'[q].name] = None
  BY <1>1 DEF Open
<1>5. \A q, p \in Req : Open(q)' /\ Open(p)' /\ job'[q].name = job'[p].name => q = p
  BY <1>1 DEF Locks, Open
<1>6. \A q \in Req : At(q, {"signup"}, "commit")' => invites'[job'[q].key].state = "open"
  BY <1>1, <1>2 DEF At
<1>7. \A q, p \in Req : At(q, {"signup"}, "commit")' /\ At(p, {"signup"}, "commit")'
                           /\ job'[q].key = job'[p].key => q = p
  BY <1>1, <1>2 DEF Locks, At
<1> QED BY <1>3, <1>4, <1>5, <1>6, <1>7 DEF Locks

LEMMA ReplyLocks ==
  ASSUME Types, Locks, NEW r \in Req, Reply(r), server' = server,
         \A q \in Req : Open(q) => users'[job[q].name] = None,
         \A q \in Req : At(q, {"signup"}, "commit") => invites'[job[q].key].state = "open"
  PROVE  Locks'
<1>1. Others(r) /\ job'[r].at = "done" BY Replies DEF Types
<1>2. ~Open(r)' /\ ~ByServer(r)' BY <1>1 DEF Open, ByServer, Running
<1> QED BY <1>1, <1>2, QuietLocks

LEMMA AdvanceLocks ==
  ASSUME Types, Locks, NEW r \in Req, Advances(r), UNCHANGED <<store, server, crashes, interrupted>>
  PROVE  Locks'
<1>1. PICK s \in Stage : Go(r, s) BY AdvanceTypes
<1>2. /\ Others(r) /\ job'[r].at = s /\ job'[r].op = job[r].op
      /\ job'[r].name = job[r].name /\ job'[r].key = job[r].key
  BY <1>1, Goes DEF Types
<1>3. Running(r) BY DEF Advances, At, Running, Lookup, Verify, Admit, ReadTarget, CountAdmins
<1>4. server' # "up" => \A q \in Req : ~ByServer(q)'
  BY <1>2, <1>3 DEF Locks, ByServer, Running, Others
<1>5. CASE job[r].op # "signup"
  <2>1. ~Open(r)' BY <1>2, <1>5 DEF Open
  <2>2. ByServer(r)' => server' = "up" BY <1>4
  <2> QED BY <1>2, <2>1, <2>2, QuietLocks DEF Locks, store, Open, At
<1>6. CASE At(r, {"signup"}, "start") /\ ~NameHeld(job[r].name) /\ users[job[r].name] = None
           /\ Go(r, "mark")
  <2>1. job'[r].at = "mark" /\ job[r].op = "signup" /\ job[r].at = "start"
    BY <1>6, Goes DEF Types, At, Stage
  <2>2. \A q \in Req : Open(q) => job[q].name # job[r].name
    BY <1>6 DEF NameHeld, Open
  <2>3. \A q \in Req \ {r} : job'[q] = job[q] BY <1>2 DEF Others
  <2>4. \A q \in Req : Open(q)' => users'[job'[q].name] = None
    BY <1>2, <1>6, <2>3 DEF Locks, Open, store
  <2>5. \A q, p \in Req : Open(q)' /\ Open(p)' /\ job'[q].name = job'[p].name => q = p
    BY <1>2, <2>2, <2>3 DEF Locks, Open
  <2>6. \A q \in Req : At(q, {"signup"}, "commit")' => q # r /\ At(q, {"signup"}, "commit")
    BY <2>1, <2>3 DEF At
  <2> QED BY <1>4, <2>3, <2>4, <2>5, <2>6 DEF Locks, store
<1>7. CASE At(r, {"signup"}, "mark") /\ ~RowHeld(job[r].key) /\ invites[job[r].key].state = "open"
           /\ Go(r, "commit")
  <2>1. job'[r].at = "commit" /\ job[r].op = "signup" /\ job[r].at = "mark"
    BY <1>7, Goes DEF Types, At, Stage
  <2>2. \A q \in Req : At(q, {"signup"}, "commit") => job[q].key # job[r].key
    BY <1>7 DEF RowHeld
  <2>3. \A q \in Req \ {r} : job'[q] = job[q] BY <1>2 DEF Others
  <2>4. \A q \in Req : Open(q)' => Open(q) /\ job'[q].name = job[q].name
    BY <1>2, <2>1, <2>3 DEF Open
  <2>5. \A q \in Req : At(q, {"signup"}, "commit")' =>
           (At(q, {"signup"}, "commit") \/ q = r) /\ job'[q].key = job[q].key
    BY <1>2, <2>3 DEF At
  <2>6. \A q \in Req : At(q, {"signup"}, "commit")' => invites'[job'[q].key].state = "open"
    BY <1>7, <2>5 DEF Locks, store
  <2>7. \A q, p \in Req : At(q, {"signup"}, "commit")' /\ At(p, {"signup"}, "commit")'
                             /\ job'[q].key = job'[p].key => q = p
    BY <2>2, <2>5 DEF Locks
  <2> QED BY <1>4, <2>4, <2>6, <2>7 DEF Locks, store
<1> QED BY <1>5, <1>6, <1>7 DEF Advances, At, Lookup, Verify, Admit, ReadTarget, CountAdmins, AdminOps


LEMMA StoreLocks ==
  ASSUME Types, Locks, NEW r \in Req, Stores(r)
  PROVE  Locks'
<1> DEFINE Free == \A q \in Req : Open(q) => users'[job[q].name] = None
           Kept == \A q \in Req : At(q, {"signup"}, "commit") => invites'[job[q].key].state = "open"
<1>0. \A q \in Req : /\ Open(q) => job[q].name \in Name /\ users[job[q].name] = None
                     /\ At(q, {"signup"}, "commit") => /\ job[q].key \in Invite /\ Open(q)
                                                       /\ invites[job[q].key].state = "open"
  BY DEF Types, Knows, Running, Open, At, Locks
<1>1. CASE Commit(r)
  <2>1. At(r, {"signup"}, "commit") /\ Open(r) /\ UNCHANGED server
    BY <1>1 DEF Commit, At, Open
  <2>2. ~Open(r)' BY <1>1, CommitTypes DEF Open
  <2>3. server' = "up" BY <2>1 DEF Locks, ByServer, Running, At
  <2>4. /\ Others(r)
        /\ \A m \in Name \ {job[r].name} : users'[m] = users[m]
        /\ \A i \in Invite \ {job[r].key} : invites'[i] = invites[i]
    BY <1>1, CommitTypes
  <2>5. \A q \in Req \ {r} :
          /\ Open(q) => job[q].name # job[r].name
          /\ At(q, {"signup"}, "commit") => job[q].key # job[r].key
    BY <2>1 DEF Locks
  <2>6. \A q \in Req \ {r} : Open(q) => users'[job[q].name] = None
    BY <1>0, <2>4, <2>5
  <2>7. \A q \in Req \ {r} : At(q, {"signup"}, "commit") => invites'[job[q].key].state = "open"
    BY <1>0, <2>4, <2>5
  <2> QED BY <2>1, <2>2, <2>3, <2>4, <2>6, <2>7, QuietLocks
<1>2. CASE CreateUser(r) /\ users[job[r].name] = None
  <2>1. "mint" \in Stage BY DEF Stage
  <2>2. Others(r) /\ job'[r].at = "mint" /\ job'[r].op = "create"
    BY <1>2, <2>1, CreateUserTypes, Goes DEF Types, CreateUser, At
  <2>3. ~Open(r)' /\ ~ByServer(r)' BY <2>2 DEF Open, ByServer
  <2>4. \A q \in Req : Open(q) => job[q].name # job[r].name
    BY <1>2 DEF CreateUser, NameHeld, Open
  <2>5. Free BY <1>0, <1>2, <2>4, CreateUserTypes
  <2>6. Kept BY <1>0, <1>2, CreateUserTypes
  <2> QED BY <1>2, <2>2, <2>3, <2>5, <2>6, CreateUserTypes, QuietLocks
<1>3. CASE MintLink(r) \/ CreateMagicLink(r)
  <2>1. Reply(r) /\ UNCHANGED <<users, invites, server>> BY <1>3, IssueTypes
  <2> QED BY <1>0, <2>1, ReplyLocks
<1>4. CASE StartSession(r) \/ Logout(r)
  <2>1. Reply(r) /\ UNCHANGED <<users, invites, server>> BY <1>4, SessionTypes
  <2> QED BY <1>0, <2>1, ReplyLocks
<1>5. CASE ConsumeMagicLink(r) /\ links[job[r].key].state = "open"
  <2>1. /\ Others(r) /\ UNCHANGED <<users, invites, server>>
        /\ job'[r].op = "password" /\ job'[r].at = "store"
    BY <1>5, ConsumeTypes
  <2>2. ByServer(r) BY <1>5 DEF ConsumeMagicLink, At, ByServer, Running
  <2>3. ~Open(r)' /\ server' = "up" BY <2>1, <2>2 DEF Open, Locks
  <2> QED BY <1>0, <2>1, <2>3, QuietLocks
<1>6. CASE SetPassword(r)
  <2>1. "session" \in Stage BY DEF Stage
  <2>2. Others(r) /\ job'[r].at = "session" /\ job'[r].op = "password"
    BY <1>6, <2>1, PasswordTypes, Goes DEF Types, SetPassword, At
  <2>3. ByServer(r) BY <1>6 DEF SetPassword, At, ByServer, Running
  <2>4. UNCHANGED <<invites, server>> BY <1>6, PasswordTypes
  <2>5. ~Open(r)' /\ server' = "up" BY <2>2, <2>3, <2>4 DEF Open, Locks
  <2>6. \A m \in Name : users[m] = None => users'[m] = None
    BY <1>6, PasswordTypes DEF Existing
  <2>7. Free BY <1>0, <2>6
  <2> QED BY <1>0, <2>2, <2>4, <2>5, <2>7, QuietLocks
<1>7. CASE CreateInvitation(r) \/ DeleteInvitation(r)
  <2>1. Reply(r) /\ UNCHANGED <<users, server>> BY <1>7, InvitationTypes
  <2>2. \A q \in Req : At(q, {"signup"}, "commit") => RowHeld(job[q].key)
    BY DEF RowHeld
  <2>3. Kept BY <1>0, <1>7, <2>2, InvitationTypes
  <2> QED BY <1>0, <2>1, <2>3, ReplyLocks
<1>8. CASE WriteTarget(r)
  <2>1. Reply(r) /\ UNCHANGED <<invites, server>> BY <1>8, WriteTypes
  <2>2. Free BY <1>0, <1>8, WriteTypes DEF Existing
  <2> QED BY <1>0, <2>1, <2>2, ReplyLocks
<1> QED BY <1>1, <1>2, <1>3, <1>4, <1>5, <1>6, <1>7, <1>8 DEF Stores

LEMMA RequestMade ==
  ASSUME Types, NEW r \in Req, NEW op \in Op, Request(r, op)
  PROVE  /\ Others(r) /\ job[r].at = "free"
         /\ job'[r].op = op /\ job'[r].at = "start" /\ job'[r].ok = FALSE
         /\ server = "up" \/ op = "create"
         /\ UNCHANGED <<store, server, crashes, ghosts>>
<1>1. PICK by \in By(op), name \in About(op), key \in With(op), arg \in For(op) :
        job' = [job EXCEPT ![r] = [op |-> op, at |-> "start", by |-> by, name |-> name,
                                   key |-> key, arg |-> arg, ok |-> FALSE]]
  BY DEF Request
<1> DEFINE new == [op |-> op, at |-> "start", by |-> by, name |-> name,
                   key |-> key, arg |-> arg, ok |-> FALSE]
<1>2. job' = [job EXCEPT ![r] = new] BY <1>1
<1>3. new.op = op /\ new.at = "start" /\ new.ok = FALSE OBVIOUS
<1>4. job[r].at = "free" /\ (server = "up" \/ op = "create")
      /\ UNCHANGED <<store, server, crashes, ghosts>>
  BY DEF Request
<1> HIDE DEF new
<1> QED BY <1>2, <1>3, <1>4 DEF Types, TypeOK, Others

LEMMA CrashJobs ==
  ASSUME Types, Crash, NEW r \in Req
  PROVE  IF ByServer(r)
           THEN /\ job'[r].at = "done" /\ job'[r].ok = job[r].ok
                /\ job[r].ok => /\ job'[r].op = job[r].op /\ job'[r].name = job[r].name
                                /\ job'[r].key = job[r].key
                /\ ~job[r].ok => job'[r].op = "login"
           ELSE job'[r] = job[r]
<1>1. job'[r] = IF ByServer(r) THEN Ended(r) ELSE job[r]
  BY DEF Crash
<1>2. job[r] \in Jobs BY DEF Types, TypeOK
<1>3. CASE job[r].ok
  <2>1. Ended(r) = [job[r] EXCEPT !.at = "done"] BY <1>3 DEF Ended
  <2> QED BY <1>1, <1>2, <1>3, <2>1 DEF Jobs
<1>4. CASE ~job[r].ok
  <2>1. Ended(r) = [FreeJob EXCEPT !.at = "done"] BY <1>4 DEF Ended
  <2>2. Ended(r).at = "done" /\ Ended(r).ok = FALSE /\ Ended(r).op = "login"
    BY <2>1 DEF FreeJob
  <2>3. job[r].ok = FALSE BY <1>2, <1>4 DEF Jobs
  <2> QED BY <1>1, <1>4, <2>2, <2>3
<1> QED BY <1>3, <1>4

LEMMA LocksNext ==
  ASSUME Types, Locks, [Next]_vars
  PROVE  Locks'
<1>1. CASE \E r \in Req : Handler(r)
  <2> SUFFICES ASSUME NEW r \in Req, Handler(r) PROVE Locks'
    BY <1>1
  <2>1. CASE Refuse(r) \/ Abort(r)
    <3>1. Reply(r) /\ UNCHANGED <<users, invites, server>>
      BY <2>1 DEF Refuse, Abort, store
    <3> QED BY <3>1, ReplyLocks DEF Locks
  <2> QED BY <2>1, Steps, AdvanceLocks, StoreLocks
<1>2. CASE \E r \in Req, op \in Op : Request(r, op)
  <2> SUFFICES ASSUME NEW r \in Req, NEW op \in Op, Request(r, op) PROVE Locks'
    BY <1>2
  <2>1. Others(r) /\ UNCHANGED <<users, invites, server>>
    BY RequestMade DEF store
  <2>2. ~Open(r)' /\ (ByServer(r)' => server' = "up")
    BY RequestMade DEF Open, ByServer, store
  <2> QED BY <2>1, <2>2, QuietLocks DEF Locks
<1>3. CASE Start \/ BootCount \/ BootMint
  <2>1. UNCHANGED <<users, invites, job>> /\ server # "up"
    BY <1>3 DEF Start, BootCount, BootMint, store
  <2> QED BY <2>1 DEF Locks, Open, ByServer, Running, At
<1>4. CASE BootCreate
  <2>1. UNCHANGED <<invites, job>> /\ server # "up" BY <1>4 DEF BootCreate
  <2>2. \A r \in Req : ~Open(r) BY <2>1 DEF Locks, ByServer, Running, Open
  <2> QED BY <2>1, <2>2 DEF Locks, Open, ByServer, Running, At
<1>5. CASE Crash
  <2>1. \A r \in Req : ~ByServer(r)' BY <1>5, CrashJobs DEF ByServer, Running
  <2>2. \A r \in Req : ~Open(r)' /\ ~At(r, {"signup"}, "commit")'
    BY <2>1 DEF Open, ByServer, Running, At
  <2> QED BY <2>1, <2>2 DEF Locks
<1>6. CASE UNCHANGED vars
  BY <1>6 DEF Locks, Open, ByServer, Running, At, vars, store
<1> QED BY <1>1, <1>2, <1>3, <1>4, <1>5, <1>6 DEF Next


-----------------------------------------------------------------------------
(* Invitations and links are used once.                                    *)

\* A step after which a request has used what it had used before.
KeepsUse(q) ==
  /\ Redeemed(q)' => /\ Redeemed(q) /\ job'[q].key = job[q].key /\ job'[q].name = job[q].name
                     /\ job'[q].at \in {"session", "done"}
  /\ Redeemed(q) => Redeemed(q)'
  /\ Spent(q)' => /\ Spent(q) /\ job'[q].key = job[q].key
                  /\ job'[q].at \in {"store", "session", "done"}

\* A step after which an invitation or a link is used as it was before.
KeepsStore ==
  /\ \A n \in Name : users[n] # None => users'[n] # None
  /\ \A i \in Invite : /\ invites[i].state \in {"used", "gone"} =>
                            invites'[i].state \in {"used", "gone"}
                       /\ invites'[i].state = "used" => invites'[i] = invites[i]
  /\ \A l \in Link : links[l].state = "used" => links'[l].state = "used"

LEMMA QuietUses ==
  ASSUME Used, \A q \in Req : KeepsUse(q), KeepsStore
  PROVE  Used'
<1>1. Uses' BY DEF Used, Uses, KeepsUse, KeepsStore, Existing
<1>2. OneAccountPerInvitation'
  <2>1. \A r, q \in Req : Redeemed(r)' /\ Redeemed(q)' /\ r # q =>
          job'[r].key # job'[q].key /\ job'[r].name # job'[q].name
    BY DEF KeepsUse, Used, OneAccountPerInvitation
  <2>2. \A r \in Req : Redeemed(r)' => users'[job'[r].name] # None
    BY <1>1 DEF Uses, Existing
  <2>3. ASSUME NEW i \in Invite, invites'[i].state = "used"
        PROVE  \E r \in Req : Redeemed(r)' /\ job'[r].key = i /\ job'[r].name = invites'[i].by
    <3>1. invites'[i] = invites[i] BY <2>3 DEF KeepsStore
    <3>2. PICK r \in Req : Redeemed(r) /\ job[r].key = i /\ job[r].name = invites[i].by
      BY <2>3, <3>1 DEF Used, OneAccountPerInvitation
    <3>3. Redeemed(r)' /\ job'[r].key = i /\ job'[r].name = invites'[i].by
      BY <3>1, <3>2 DEF KeepsUse
    <3> QED BY <3>3
  <2> QED BY <2>1, <2>2, <2>3 DEF OneAccountPerInvitation
<1>3. LinkOnce' BY DEF KeepsUse, Used, LinkOnce
<1> QED BY <1>1, <1>2, <1>3 DEF Used

LEMMA OthersKeep ==
  ASSUME Used, NEW r \in Req, Others(r)
  PROVE  \A q \in Req \ {r} : KeepsUse(q)
BY DEF Others, KeepsUse, Used, Uses, Redeemed, Spent

LEMMA ReplyUses ==
  ASSUME Types, Used, NEW r \in Req, Reply(r), KeepsStore
  PROVE  Used'
<1>1. /\ Others(r) /\ job'[r].at = "done" /\ job'[r].ok = job[r].ok
      /\ job[r].ok => /\ job'[r].op = job[r].op /\ job'[r].name = job[r].name
                      /\ job'[r].key = job[r].key
      /\ ~job[r].ok => job'[r].op = "login"
  BY Replies DEF Types
<1>2. KeepsUse(r) BY <1>1 DEF KeepsUse, Redeemed, Spent
<1> QED BY <1>1, <1>2, OthersKeep, QuietUses

LEMMA GoUses ==
  ASSUME Types, Used, NEW r \in Req, NEW s \in Stage, Go(r, s), KeepsStore,
         ~Redeemed(r), Spent(r) => s = "session"
  PROVE  Used'
<1>1. /\ Others(r) /\ job'[r].at = s /\ job'[r].op = job[r].op /\ job'[r].name = job[r].name
      /\ job'[r].key = job[r].key /\ job'[r].ok = job[r].ok
  BY Goes DEF Types
<1>2. KeepsUse(r) BY <1>1 DEF KeepsUse, Redeemed, Spent
<1> QED BY <1>1, <1>2, OthersKeep, QuietUses

LEMMA AdvanceUses ==
  ASSUME Types, Used, NEW r \in Req, Advances(r), UNCHANGED <<store, server, crashes, interrupted>>
  PROVE  Used'
<1>1. PICK s \in Stage : Go(r, s) BY AdvanceTypes
<1>2. job[r].at \notin {"store", "session", "done"}
  BY DEF Advances, At, Lookup, Verify, Admit, ReadTarget, CountAdmins
<1>3. ~Redeemed(r) /\ ~Spent(r) BY <1>2 DEF Used, Uses
<1>4. KeepsStore BY DEF KeepsStore, store
<1> QED BY <1>1, <1>3, <1>4, GoUses

LEMMA CommitUses ==
  ASSUME Types, Locks, Used, NEW r \in Req, Commit(r)
  PROVE  Used'
<1> DEFINE k == job[r].key
           n == job[r].name
<1>1. /\ Others(r) /\ n \in Name /\ k \in Invite /\ users'[n] # None
      /\ \A m \in Name \ {n} : users'[m] = users[m]
      /\ invites'[k].state = "used" /\ invites'[k].by = n
      /\ \A i \in Invite \ {k} : invites'[i] = invites[i]
  BY CommitTypes
<1>2. /\ job'[r].op = "signup" /\ job'[r].at = "session" /\ job'[r].ok = TRUE
      /\ job'[r].name = n /\ job'[r].key = k
  BY CommitTypes
<1>3. users[n] = None /\ invites[k].state = "open" /\ UNCHANGED links
  BY DEF Commit, At, Open, Locks
<1>4. \A q \in Req \ {r} : job'[q] = job[q] BY <1>1 DEF Others
<1>5. Redeemed(r)' /\ ~Spent(r)' BY <1>2 DEF Redeemed, Spent
<1>6. \A q \in Req \ {r} : Redeemed(q)' => /\ Redeemed(q) /\ job[q].name # n /\ job[q].key # k
                                            /\ job'[q] = job[q]
  BY <1>3, <1>4 DEF Redeemed, Used, Uses, Existing
<1>7. ~Redeemed(r) BY DEF Commit, At, Used, Uses
<1>8. Uses'
  <2>1. ASSUME NEW q \in Req, Redeemed(q)'
        PROVE  /\ job'[q].at \in {"session", "done"}
               /\ job'[q].name \in Name /\ users'[job'[q].name] # None /\ job'[q].key \in Invite
               /\ invites'[job'[q].key].state \in {"used", "gone"}
    <3>1. CASE q = r BY <1>1, <1>2, <3>1 DEF Existing
    <3>2. CASE q # r BY <1>1, <1>6, <2>1, <3>2 DEF Used, Uses, Existing
    <3> QED BY <3>1, <3>2
  <2>2. \A q \in Req : Spent(q)' => /\ job'[q].at \in {"store", "session", "done"}
                                    /\ job'[q].key \in Link /\ links'[job'[q].key].state = "used"
    BY <1>3, <1>4, <1>5 DEF Spent, Used, Uses
  <2> QED BY <2>1, <2>2 DEF Uses, Existing
<1>9. OneAccountPerInvitation'
  <2>1. \A p, q \in Req : Redeemed(p)' /\ Redeemed(q)' /\ p # q =>
          job'[p].key # job'[q].key /\ job'[p].name # job'[q].name
    BY <1>2, <1>6 DEF Used, OneAccountPerInvitation
  <2>2. \A q \in Req : Redeemed(q)' => users'[job'[q].name] # None
    BY <1>8 DEF Uses, Existing
  <2>3. ASSUME NEW i \in Invite, invites'[i].state = "used"
        PROVE  \E q \in Req : Redeemed(q)' /\ job'[q].key = i /\ job'[q].name = invites'[i].by
    <3>1. CASE i = k BY <1>1, <1>2, <1>5, <3>1
    <3>2. CASE i # k
      <4>1. PICK q \in Req : Redeemed(q) /\ job[q].key = i /\ job[q].name = invites[i].by
        BY <1>1, <2>3, <3>2 DEF Used, OneAccountPerInvitation
      <4>2. q # r BY <1>7, <4>1
      <4> QED BY <1>1, <1>4, <3>2, <4>1, <4>2 DEF Redeemed
    <3> QED BY <3>1, <3>2
  <2> QED BY <2>1, <2>2, <2>3 DEF OneAccountPerInvitation
<1>10. LinkOnce' BY <1>4, <1>5 DEF Spent, Used, LinkOnce
<1> QED BY <1>8, <1>9, <1>10 DEF Used

LEMMA ConsumeUses ==
  ASSUME Types, Used, NEW r \in Req, ConsumeMagicLink(r), links[job[r].key].state = "open"
  PROVE  Used'
<1> DEFINE k == job[r].key
<1>1. /\ Others(r) /\ k \in Link /\ links'[k].state = "used"
      /\ \A l \in Link \ {k} : links'[l] = links[l]
      /\ UNCHANGED <<users, invites>>
  BY ConsumeTypes
<1>2. job'[r].op = "password" /\ job'[r].at = "store" /\ job'[r].key = k
  BY ConsumeTypes
<1>3. \A q \in Req \ {r} : job'[q] = job[q] BY <1>1 DEF Others
<1>4. ~Redeemed(r)' /\ ~Redeemed(r) BY <1>2 DEF Redeemed, ConsumeMagicLink, At
<1>5. \A q \in Req \ {r} : Spent(q)' => /\ Spent(q) /\ job[q].key # k /\ job'[q] = job[q]
  BY <1>3 DEF Spent, Used, Uses
<1>6. \A q \in Req : Redeemed(q)' <=> Redeemed(q)
  BY <1>3, <1>4 DEF Redeemed
<1>7. \A q \in Req : Redeemed(q)' => job'[q] = job[q]
  BY <1>3, <1>4
<1>8. Uses'
  <2>1. \A q \in Req : Redeemed(q)' => /\ job'[q].at \in {"session", "done"}
                                       /\ job'[q].name \in Name /\ users'[job'[q].name] # None
                                       /\ job'[q].key \in Invite
                                       /\ invites'[job'[q].key].state \in {"used", "gone"}
    BY <1>1, <1>6, <1>7 DEF Used, Uses, Existing
  <2>2. \A q \in Req : Spent(q)' => /\ job'[q].at \in {"store", "session", "done"}
                                    /\ job'[q].key \in Link /\ links'[job'[q].key].state = "used"
    BY <1>1, <1>2, <1>5 DEF Used, Uses
  <2> QED BY <2>1, <2>2 DEF Uses, Existing
<1>9. OneAccountPerInvitation' BY <1>1, <1>6, <1>7 DEF Used, OneAccountPerInvitation
<1>10. LinkOnce' BY <1>2, <1>5 DEF Used, LinkOnce
<1> QED BY <1>8, <1>9, <1>10 DEF Used


LEMMA UsesNext ==
  ASSUME Types, Locks, Used, [Next]_vars
  PROVE  Used'
<1>1. CASE \E r \in Req : Handler(r)
  <2> SUFFICES ASSUME NEW r \in Req, Handler(r) PROVE Used'
    BY <1>1
  <2>1. CASE Refuse(r) \/ Abort(r)
    <3>1. Reply(r) /\ UNCHANGED <<users, invites, links>>
      BY <2>1 DEF Refuse, Abort, store
    <3> QED BY <3>1, ReplyUses DEF KeepsStore
  <2>2. CASE Commit(r) BY <2>2, CommitUses
  <2>3. CASE CreateUser(r) /\ users[job[r].name] = None
    <3>1. KeepsStore BY <2>3, CreateUserTypes DEF KeepsStore
    <3>2. ~Redeemed(r) /\ ~Spent(r) BY <2>3 DEF CreateUser, At, Redeemed, Spent
    <3>3. "mint" \in Stage BY DEF Stage
    <3> QED BY <2>3, <3>1, <3>2, <3>3, CreateUserTypes, GoUses
  <2>4. CASE MintLink(r) \/ CreateMagicLink(r)
    <3>1. KeepsStore BY <2>4, IssueTypes DEF KeepsStore
    <3> QED BY <2>4, <3>1, IssueTypes, ReplyUses
  <2>5. CASE StartSession(r) \/ Logout(r)
    <3>1. KeepsStore BY <2>5, SessionTypes DEF KeepsStore
    <3> QED BY <2>5, <3>1, SessionTypes, ReplyUses
  <2>6. CASE ConsumeMagicLink(r) /\ links[job[r].key].state = "open"
    BY <2>6, ConsumeUses
  <2>7. CASE SetPassword(r)
    <3>1. KeepsStore BY <2>7, PasswordTypes DEF KeepsStore
    <3>2. ~Redeemed(r) BY <2>7 DEF SetPassword, At, Redeemed
    <3>3. "session" \in Stage BY DEF Stage
    <3> QED BY <2>7, <3>1, <3>2, <3>3, PasswordTypes, GoUses
  <2>8. CASE CreateInvitation(r) \/ DeleteInvitation(r)
    <3>1. KeepsStore BY <2>8, InvitationTypes DEF KeepsStore
    <3> QED BY <2>8, <3>1, InvitationTypes, ReplyUses
  <2>9. CASE WriteTarget(r)
    <3>1. KeepsStore BY <2>9, WriteTypes DEF KeepsStore
    <3> QED BY <2>9, <3>1, WriteTypes, ReplyUses
  <2> QED BY <2>1, <2>2, <2>3, <2>4, <2>5, <2>6, <2>7, <2>8, <2>9, Steps, AdvanceUses DEF Stores
<1>2. CASE \E r \in Req, op \in Op : Request(r, op)
  <2> SUFFICES ASSUME NEW r \in Req, NEW op \in Op, Request(r, op) PROVE Used'
    BY <1>2
  <2>1. /\ Others(r) /\ job[r].at = "free" /\ job'[r].ok = FALSE
        /\ UNCHANGED <<users, invites, links>>
    BY RequestMade DEF store
  <2>2. KeepsUse(r) BY <2>1 DEF KeepsUse, Redeemed, Spent, Used, Uses
  <2>3. KeepsStore BY <2>1 DEF KeepsStore
  <2> QED BY <2>1, <2>2, <2>3, OthersKeep, QuietUses
<1>3. CASE Start \/ BootCount \/ BootCreate \/ BootMint \/ UNCHANGED vars
  <2>1. UNCHANGED job /\ UNCHANGED invites
    BY <1>3 DEF Start, BootCount, BootCreate, BootMint, vars, store
  <2>2. \A q \in Req : KeepsUse(q)
    BY <2>1 DEF KeepsUse, Redeemed, Spent, Used, Uses
  <2>3. KeepsStore
    <3>1. CASE BootCreate
      BY <2>1, <3>1, RowWritten, AccountTypes, NameAssumption DEF BootCreate, KeepsStore, Types
    <3>2. CASE BootMint
      <4>1. \A l \in Link : links[l].state = "used" => links'[l].state = "used"
        BY <3>2, LinkTypes, NameAssumption DEF BootMint, Types, NewLink
      <4> QED BY <3>2, <4>1 DEF BootMint, KeepsStore
    <3>3. CASE Start \/ BootCount \/ UNCHANGED vars
      BY <3>3 DEF Start, BootCount, vars, store, KeepsStore
    <3> QED BY <1>3, <3>1, <3>2, <3>3
  <2> QED BY <2>2, <2>3, QuietUses
<1>4. CASE Crash
  <2>1. \A q \in Req : KeepsUse(q)
    BY <1>4, CrashJobs DEF KeepsUse, Redeemed, Spent, Used, Uses
  <2>2. KeepsStore BY <1>4 DEF Crash, store, KeepsStore
  <2> QED BY <2>1, <2>2, QuietUses
<1> QED BY <1>1, <1>2, <1>3, <1>4 DEF Next

LEMMA InvInit == Init => Inv
<1> SUFFICES ASSUME Init PROVE Inv
  OBVIOUS
<1>1. Types BY TypesInit
<1>2. \A r \in Req : job[r].at = "free" /\ job[r].ok = FALSE
  BY DEF Init, FreeJob
<1>3. \A i \in Invite : invites[i].state = "none" BY DEF Init
<1>4. Locks BY <1>2 DEF Locks, Open, ByServer, Running, At
<1>5. Used BY <1>2, <1>3 DEF Used, Uses, OneAccountPerInvitation, LinkOnce, Redeemed, Spent
<1> QED BY <1>1, <1>4, <1>5 DEF Inv

LEMMA InvNext == Inv /\ [Next]_vars => Inv'
BY TypesNext, LocksNext, UsesNext DEF Inv

\* Whatever requests race, an invitation makes one account, of the name asked
\* for, and counts as used only if it has made one.
THEOREM OneAccount == Spec => []OneAccountPerInvitation
<1>1. Inv => OneAccountPerInvitation BY DEF Inv, Used
<1> QED BY InvInit, InvNext, <1>1, PTL DEF Spec

\* Whatever requests race, a magic link sets one password.
THEOREM LinkUsedOnce == Spec => []LinkOnce
<1>1. Inv => LinkOnce BY DEF Inv, Used
<1> QED BY InvInit, InvNext, <1>1, PTL DEF Spec


-----------------------------------------------------------------------------
(* Everybody has a way in.                                                 *)

Way(n) ==
  \/ users[n].password
  \/ \E l \in Link : links[l].state = "open" /\ links[l].by = n
  \/ \E r \in Req : At(r, {"password"}, "store") /\ job[r].name = n
  \/ \E r \in Req : At(r, {"create"}, "mint") /\ job[r].name = n
  \/ server = "mint" /\ n = Boot

LEMMA CanEnterIsWay == CanEnter <=> (~interrupted => \A n \in Name : users[n] # None => Way(n))
BY DEF CanEnter, Way

\* A step of a handler that is not halfway leaves the ways of everybody else.
LEMMA QuietWay ==
  ASSUME NEW n \in Name, Way(n), NEW r \in Req, Others(r), ~Halfway(r),
         server = "mint" => server' = "mint",
         users[n].password => users'[n].password,
         \A l \in Link : links[l].state = "open" /\ links[l].by = n => links'[l] = links[l]
  PROVE  Way(n)'
<1>1. CASE users[n].password BY <1>1 DEF Way
<1>2. CASE \E l \in Link : links[l].state = "open" /\ links[l].by = n BY <1>2 DEF Way
<1>3. CASE \E q \in Req : At(q, {"password"}, "store") /\ job[q].name = n
  <2>1. PICK q \in Req : At(q, {"password"}, "store") /\ job[q].name = n BY <1>3
  <2>2. CASE q = r BY <1>1, <2>1, <2>2 DEF Halfway
  <2>3. CASE q # r
    <3>1. At(q, {"password"}, "store")' /\ job'[q].name = n BY <2>1, <2>3 DEF Others, At
    <3> QED BY <3>1 DEF Way
  <2> QED BY <2>2, <2>3
<1>4. CASE \E q \in Req : At(q, {"create"}, "mint") /\ job[q].name = n
  <2>1. PICK q \in Req : At(q, {"create"}, "mint") /\ job[q].name = n BY <1>4
  <2>2. q # r BY <2>1 DEF Halfway
  <2>3. At(q, {"create"}, "mint")' /\ job'[q].name = n BY <2>1, <2>2 DEF Others, At
  <2> QED BY <2>3 DEF Way
<1>5. CASE server = "mint" /\ n = Boot BY <1>5 DEF Way
<1> QED BY <1>1, <1>2, <1>3, <1>4, <1>5 DEF Way

LEMMA StoreEnter ==
  ASSUME Types, CanEnter, NEW r \in Req, Stores(r)
  PROVE  CanEnter'
<1> SUFFICES ASSUME ~interrupted', NEW n \in Name, users'[n] # None PROVE Way(n)'
  BY CanEnterIsWay DEF CanEnter, Way
<1> DEFINE Same == \A l \in Link : links[l].state = "open" /\ links[l].by = n => links'[l] = links[l]
<1>0. ~interrupted => (users[n] # None => Way(n)) BY CanEnterIsWay
<1>1. CASE Commit(r)
  <2>1. /\ Others(r) /\ users'[job[r].name] = Account(FALSE, TRUE)
        /\ \A m \in Name \ {job[r].name} : users'[m] = users[m]
    BY <1>1, CommitTypes
  <2>2. UNCHANGED <<links, server, interrupted>> /\ ~Halfway(r)
    BY <1>1 DEF Commit, ghosts, Halfway, At
  <2>3. CASE n = job[r].name BY <2>1, <2>3, AccountTypes DEF Way
  <2>4. CASE n # job[r].name BY <1>0, <2>1, <2>2, <2>4, QuietWay
  <2> QED BY <2>3, <2>4
<1>2. CASE CreateUser(r) /\ users[job[r].name] = None
  <2>1. "mint" \in Stage BY DEF Stage
  <2>2. /\ Others(r) /\ job'[r].at = "mint" /\ job'[r].op = "create"
        /\ job'[r].name = job[r].name
    BY <1>2, <2>1, CreateUserTypes, Goes DEF Types, CreateUser, At
  <2>3. CASE n = job[r].name
    <3>1. At(r, {"create"}, "mint")' BY <2>2 DEF At
    <3> QED BY <2>2, <2>3, <3>1 DEF Way
  <2>4. CASE n # job[r].name
    <3>1. users'[n] = users[n] /\ UNCHANGED <<links, server, interrupted>>
      BY <1>2, <2>4, CreateUserTypes DEF ghosts
    <3>2. ~Halfway(r) BY <1>2 DEF CreateUser, Halfway, At
    <3> QED BY <1>0, <2>2, <3>1, <3>2, QuietWay
  <2> QED BY <2>3, <2>4
<1>3. CASE MintLink(r) \/ CreateMagicLink(r)
  <2>1. /\ Reply(r) /\ UNCHANGED <<users, server, interrupted>> /\ Same
    BY <1>3, IssueTypes DEF ghosts
  <2>2. Others(r) BY <2>1, Replies DEF Types
  <2>3. CASE ~Halfway(r) BY <1>0, <2>1, <2>2, <2>3, QuietWay
  <2>4. CASE Halfway(r)
    <3>1. At(r, {"create"}, "mint")
      BY <1>3, <2>4 DEF MintLink, CreateMagicLink, Halfway, At
    <3>2. \E l \in Link : links'[l].state = "open" /\ links'[l].by = job[r].name
      BY <1>3, <3>1, IssueTypes
    <3>3. CASE n = job[r].name BY <3>2, <3>3 DEF Way
    <3>4. CASE n # job[r].name
      <4>1. Way(n) BY <1>0, <2>1
      <4>2. \A q \in Req : job[q].name = n => q # r /\ job'[q] = job[q]
        BY <2>2, <3>4 DEF Others
      <4> QED BY <2>1, <4>1, <4>2 DEF Way, At
    <3> QED BY <3>3, <3>4
  <2> QED BY <2>3, <2>4
<1>4. CASE StartSession(r) \/ Logout(r)
  <2>1. Reply(r) /\ UNCHANGED <<users, links, server, interrupted>>
    BY <1>4, SessionTypes DEF ghosts
  <2>2. Others(r) BY <2>1, Replies DEF Types
  <2>3. ~Halfway(r) BY <1>4 DEF StartSession, Logout, Halfway, At
  <2> QED BY <1>0, <2>1, <2>2, <2>3, QuietWay
<1>5. CASE ConsumeMagicLink(r) /\ links[job[r].key].state = "open"
  <2>1. /\ Others(r) /\ job'[r].op = "password" /\ job'[r].at = "store"
        /\ job'[r].name = links[job[r].key].by
        /\ \A l \in Link \ {job[r].key} : links'[l] = links[l]
        /\ UNCHANGED <<users, server, interrupted>>
    BY <1>5, ConsumeTypes DEF ghosts
  <2>2. CASE n = links[job[r].key].by
    <3>1. At(r, {"password"}, "store")' BY <2>1 DEF At
    <3> QED BY <2>1, <2>2, <3>1 DEF Way
  <2>3. CASE n # links[job[r].key].by
    <3>1. ~Halfway(r) BY <1>5 DEF ConsumeMagicLink, Halfway, At
    <3> QED BY <1>0, <2>1, <2>3, <3>1, QuietWay
  <2> QED BY <2>2, <2>3
<1>6. CASE SetPassword(r)
  <2>1. "session" \in Stage BY DEF Stage
  <2>2. Others(r) BY <1>6, <2>1, PasswordTypes, Goes DEF Types
  <2>3. /\ users'[job[r].name].password = TRUE
        /\ \A m \in Name \ {job[r].name} : users'[m] = users[m]
        /\ UNCHANGED <<links, server, interrupted>>
    BY <1>6, PasswordTypes DEF ghosts
  <2>4. CASE n = job[r].name BY <2>3, <2>4 DEF Way
  <2>5. CASE n # job[r].name
    <3>1. Way(n) BY <1>0, <2>3, <2>5
    <3>2. \A q \in Req : job[q].name = n => q # r /\ job'[q] = job[q]
      BY <2>2, <2>5 DEF Others
    <3> QED BY <2>3, <2>5, <3>1, <3>2 DEF Way, At
  <2> QED BY <2>4, <2>5
<1>7. CASE CreateInvitation(r) \/ DeleteInvitation(r)
  <2>1. Reply(r) /\ UNCHANGED <<users, links, server, interrupted>>
    BY <1>7, InvitationTypes DEF ghosts
  <2>2. Others(r) BY <2>1, Replies DEF Types
  <2>3. ~Halfway(r) BY <1>7 DEF CreateInvitation, DeleteInvitation, Halfway, At
  <2> QED BY <1>0, <2>1, <2>2, <2>3, QuietWay
<1>8. CASE WriteTarget(r)
  <2>1. /\ Reply(r) /\ UNCHANGED <<links, server, interrupted>>
        /\ users[n] # None /\ (users[n].password => users'[n].password)
    BY <1>8, WriteTypes DEF ghosts, Existing
  <2>2. Others(r) BY <2>1, Replies DEF Types
  <2>3. ~Halfway(r) BY <1>8 DEF WriteTarget, Halfway, At
  <2> QED BY <1>0, <2>1, <2>2, <2>3, QuietWay
<1> QED BY <1>1, <1>2, <1>3, <1>4, <1>5, <1>6, <1>7, <1>8 DEF Stores


LEMMA EnterNext ==
  ASSUME Types, Types', CanEnter, [Next]_vars
  PROVE  CanEnter'
<1> SUFFICES ASSUME ~interrupted', NEW n \in Name, users'[n] # None PROVE Way(n)'
  BY CanEnterIsWay DEF CanEnter, Way
<1>0. ~interrupted => (users[n] # None => Way(n)) BY CanEnterIsWay
<1>1. CASE \E r \in Req : Handler(r)
  <2>1. PICK r \in Req : Handler(r) BY <1>1
  <2>2. CASE Stores(r)
    <3>1. CanEnter' BY <2>2, StoreEnter
    <3> QED BY <3>1 DEF CanEnter, Way
  <2>3. CASE (Refuse(r) /\ ~Halfway(r)) \/ Abort(r)
    <3>1. /\ Reply(r) /\ UNCHANGED <<users, links, server>>
          /\ ~interrupted /\ ~Halfway(r)
      <4>1. CASE Refuse(r) /\ ~Halfway(r) BY <4>1 DEF Refuse, store, ghosts
      <4>2. CASE Abort(r)
        <5>1. interrupted' = (interrupted \/ Halfway(r)) BY <4>2 DEF Abort
        <5>2. ~interrupted /\ ~Halfway(r) BY <5>1
        <5> QED BY <4>2, <5>2 DEF Abort, store
      <4> QED BY <2>3, <4>1, <4>2
    <3>2. Others(r) BY <3>1, Replies DEF Types
    <3> QED BY <1>0, <3>1, <3>2, QuietWay
  <2>4. CASE Advances(r) /\ UNCHANGED <<store, server, crashes, interrupted>>
    <3>1. PICK s \in Stage : Go(r, s) BY <2>4, AdvanceTypes
    <3>2. Others(r) BY <3>1, Goes DEF Types
    <3>3. ~Halfway(r)
      BY <2>4 DEF Advances, Halfway, At, Lookup, Verify, Admit, ReadTarget, CountAdmins
    <3> QED BY <1>0, <2>4, <3>2, <3>3, QuietWay DEF store
  <2> QED BY <2>1, <2>2, <2>3, <2>4, Steps
<1>2. CASE \E r \in Req, op \in Op : Request(r, op)
  <2>1. PICK r \in Req, op \in Op : Request(r, op) BY <1>2
  <2>2. /\ Others(r) /\ job[r].at = "free" /\ UNCHANGED <<users, links, server, interrupted>>
    BY <2>1, RequestMade DEF store, ghosts
  <2>3. ~Halfway(r) BY <2>2 DEF Halfway, At
  <2> QED BY <1>0, <2>2, <2>3, QuietWay
<1>3. CASE Start \/ BootCount \/ UNCHANGED vars
  <2>1. /\ UNCHANGED <<users, links, job, interrupted>>
        /\ server = "mint" => server' = "mint"
    BY <1>3 DEF Start, BootCount, vars, store, ghosts
  <2> QED BY <1>0, <2>1 DEF Way, At
<1>4. CASE BootCreate
  <2>1. UNCHANGED <<links, job, interrupted>> /\ server = "create"
    BY <1>4 DEF BootCreate, ghosts
  <2>2. CASE users[Boot] = None
    <3>1. server' = "mint" /\ users' = [users EXCEPT ![Boot] = Account(TRUE, FALSE)]
      BY <1>4, <2>2 DEF BootCreate
    <3>2. CASE n = Boot BY <3>1, <3>2 DEF Way
    <3>3. CASE n # Boot
      <4>1. users'[n] = users[n] BY <3>1, <3>3 DEF Types, TypeOK
      <4> QED BY <1>0, <2>1, <4>1 DEF Way, At
    <3> QED BY <3>2, <3>3
  <2>3. CASE users[Boot] # None
    <3>1. UNCHANGED users BY <1>4, <2>3 DEF BootCreate
    <3> QED BY <1>0, <2>1, <3>1 DEF Way, At
  <2> QED BY <2>2, <2>3
<1>5. CASE BootMint
  <2>1. UNCHANGED <<users, job, interrupted>> /\ \E l \in Link : NewLink(l, Boot)
    BY <1>5 DEF BootMint
  <2>2. PICK l \in Link : NewLink(l, Boot) BY <2>1
  <2>3. /\ links'[l].by = Boot /\ links'[l].state = "open" /\ links[l].state = "none"
        /\ \A k \in Link \ {l} : links'[k] = links[k]
    BY <2>2, LinkTypes, NameAssumption DEF Types, NewLink
  <2>4. CASE n = Boot BY <2>3, <2>4 DEF Way
  <2>5. CASE n # Boot
    <3>1. Way(n) BY <1>0, <2>1
    <3> QED BY <2>1, <2>3, <2>5, <3>1 DEF Way, At
  <2> QED BY <2>4, <2>5
<1>6. CASE Crash
  <2>1. /\ UNCHANGED <<users, links>> /\ server # "mint" /\ ~interrupted
        /\ \A r \in Req : ByServer(r) => ~Halfway(r)
    BY <1>6 DEF Crash, store
  <2>2. Way(n) BY <1>0, <2>1
  <2>3. CASE users[n].password \/ \E l \in Link : links[l].state = "open" /\ links[l].by = n
    BY <2>1, <2>3 DEF Way
  <2>4. CASE \E r \in Req : At(r, {"password"}, "store") /\ job[r].name = n
    BY <2>1, <2>4 DEF Halfway, ByServer, Running, At, Way
  <2>5. CASE \E r \in Req : At(r, {"create"}, "mint") /\ job[r].name = n
    <3>1. PICK r \in Req : At(r, {"create"}, "mint") /\ job[r].name = n BY <2>5
    <3>2. job'[r] = job[r] BY <1>6, <3>1, CrashJobs DEF ByServer, At
    <3>3. At(r, {"create"}, "mint")' /\ job'[r].name = n BY <3>1, <3>2 DEF At
    <3> QED BY <3>3 DEF Way
  <2> QED BY <2>1, <2>2, <2>3, <2>4, <2>5 DEF Way
<1> QED BY <1>1, <1>2, <1>3, <1>4, <1>5, <1>6 DEF Next

\* No order of requests leaves a user with no password and no way to set one,
\* unless a handler or the first start is cut short between its two statements.
THEOREM NobodyLockedOut == Spec => []CanEnter
<1>1. Init => CanEnter
  <2> SUFFICES ASSUME Init, NEW n \in Name, users[n] # None PROVE users[n].password
    BY DEF CanEnter
  <2>1. PICK F \in SUBSET Founder :
          users = [m \in Name |-> IF m \in F THEN Account(TRUE, TRUE) ELSE None]
    BY DEF Init
  <2>2. users[n] = Account(TRUE, TRUE) BY <2>1
  <2> QED BY <2>2, AccountTypes
<1>2. Types /\ Types' /\ CanEnter /\ [Next]_vars => CanEnter'
  BY EnterNext
<1> QED BY TypesInit, TypesNext, <1>1, <1>2, PTL DEF Spec


-----------------------------------------------------------------------------
(* The last admin.                                                         *)

\* No admin is taken away.
Monotone == \A n \in Name : ActiveAdmin(n) => ActiveAdmin(n)'

LEMMA StoreMonotone ==
  ASSUME Types, Locks, NEW r \in Req, Stores(r), ~(WriteTarget(r) /\ Removing(r))
  PROVE  Monotone
<1>1. CASE Commit(r)
  <2>1. users[job[r].name] = None BY <1>1 DEF Commit, At, Open, Locks
  <2>2. \A m \in Name \ {job[r].name} : users'[m] = users[m] BY <1>1, CommitTypes
  <2> QED BY <2>1, <2>2 DEF Monotone, ActiveAdmin
<1>2. CASE CreateUser(r) /\ users[job[r].name] = None
  <2>1. \A m \in Name \ {job[r].name} : users'[m] = users[m] BY <1>2, CreateUserTypes
  <2> QED BY <1>2, <2>1 DEF Monotone, ActiveAdmin
<1>3. CASE SetPassword(r)
  <2>1. /\ users'[job[r].name] # None
        /\ users'[job[r].name].admin = users[job[r].name].admin
        /\ users'[job[r].name].active = users[job[r].name].active
        /\ \A m \in Name \ {job[r].name} : users'[m] = users[m]
    BY <1>3, PasswordTypes
  <2> QED BY <2>1 DEF Monotone, ActiveAdmin
<1>4. CASE WriteTarget(r)
  <2>1. job[r].arg BY <1>4 DEF WriteTarget, At, Removing
  <2>2. /\ users'[job[r].name] # None
        /\ users[job[r].name].admin => users'[job[r].name].admin
        /\ users[job[r].name].active => users'[job[r].name].active
        /\ \A m \in Name \ {job[r].name} : users'[m] = users[m]
    BY <1>4, <2>1, WriteTypes
  <2> QED BY <2>2 DEF Monotone, ActiveAdmin
<1>5. CASE UNCHANGED users BY <1>5 DEF Monotone, ActiveAdmin
<1> QED
  BY <1>1, <1>2, <1>3, <1>4, <1>5, IssueTypes, SessionTypes, ConsumeTypes, InvitationTypes DEF Stores

\* A step of a handler that is no removal afterwards.
LEMMA QuietAdmins ==
  ASSUME Admins, NEW r \in Req, Others(r), Monotone, ~raced' => ~raced, ~Removing(r)',
         ~raced /\ job'[r].op \in AdminOps /\ job'[r].at \in {"work", "count", "write"} => HasAdmin
  PROVE  Admins'
<1> SUFFICES ASSUME ~raced' PROVE Admins'
  BY DEF Admins
<1>1. ~raced OBVIOUS
<1>2. \A q \in Req \ {r} : job'[q] = job[q] BY DEF Others
<1>3. \A q \in Req : Removing(q)' => q # r /\ Removing(q)
  BY <1>2 DEF Removing
<1>4. HasAdmin => HasAdmin' BY DEF Monotone, HasAdmin
<1>5. \A p, q \in Req : Removing(p)' /\ Removing(q)' => p = q
  BY <1>1, <1>3 DEF Admins
<1>6. ASSUME NEW q \in Req, Removing(q)', job'[q].at = "write"
      PROVE  \E n \in Name : n # job'[q].name /\ ActiveAdmin(n)'
  <2>1. q # r /\ Removing(q) /\ job'[q] = job[q] BY <1>2, <1>3, <1>6
  <2>2. PICK n \in Name : n # job[q].name /\ ActiveAdmin(n) BY <1>1, <1>6, <2>1 DEF Admins
  <2> QED BY <2>1, <2>2 DEF Monotone
<1>7. \A q \in Req : job'[q].op \in AdminOps /\ job'[q].at \in {"work", "count", "write"} => HasAdmin'
  BY <1>1, <1>2, <1>4 DEF Admins
<1> QED BY <1>5, <1>6, <1>7 DEF Admins

LEMMA AdvanceAdmins ==
  ASSUME Types, Admins, NEW r \in Req, Advances(r), UNCHANGED <<store, server, crashes, interrupted>>
  PROVE  Admins'
<1> SUFFICES ASSUME ~raced' PROVE Admins'
  BY DEF Admins
<1>0. Monotone /\ (HasAdmin => HasAdmin') BY DEF Monotone, ActiveAdmin, HasAdmin, store
<1>1. PICK s \in Stage : Go(r, s) BY AdvanceTypes
<1>2. /\ Others(r) /\ job'[r].at = s /\ job'[r].op = job[r].op /\ job'[r].name = job[r].name
      /\ job'[r].arg = job[r].arg
  BY <1>1, Goes DEF Types
<1>3. \A q \in Req \ {r} : job'[q] = job[q] BY <1>2 DEF Others
<1>4. CASE job[r].op \notin AdminOps
  <2>1. UNCHANGED raced /\ ~Removing(r)'
    BY <1>2, <1>4 DEF Advances, ReadTarget, CountAdmins, At, AdminOps, Removing
  <2> QED BY <1>0, <1>2, <1>4, <2>1, QuietAdmins
<1>5. CASE Admit(r) /\ Go(r, "work") /\ HasAdmin /\ UNCHANGED raced
  <2>1. "work" \in Stage BY DEF Stage
  <2>2. job'[r].at = "work" BY <1>5, <2>1, Goes DEF Types
  <2>3. ~Removing(r)' BY <2>2 DEF Removing
  <2> QED BY <1>0, <1>2, <1>5, <2>3, QuietAdmins
<1>6. CASE ReadTarget(r)
  <2>1. ~raced /\ (job[r].arg \/ \A q \in Req : ~Removing(q))
    BY <1>6 DEF ReadTarget
  <2>2. job[r].op \in {"role", "active"} /\ job[r].at = "work" BY <1>6 DEF ReadTarget, At
  <2>3. HasAdmin BY <2>1, <2>2 DEF Admins, AdminOps
  <2>4. CASE job[r].arg
    <3>1. ~Removing(r)' BY <1>2, <2>4 DEF Removing
    <3> QED BY <1>0, <1>2, <2>1, <2>3, <3>1, QuietAdmins
  <2>5. CASE ~job[r].arg
    <3>1. \A q \in Req : Removing(q)' => q = r
      BY <1>3, <2>1, <2>5 DEF Removing
    <3>2. job'[r].at = "write" => ~users[job[r].name].admin
      <4>1. "count" \in Stage /\ "write" \in Stage BY DEF Stage
      <4>2. CASE users[job[r].name].admin
        <5>1. Go(r, "count") BY <1>6, <2>5, <4>2 DEF ReadTarget
        <5> QED BY <4>1, <5>1, Goes DEF Types
      <4> QED BY <4>2
    <3>3. PICK n \in Name : ActiveAdmin(n) BY <2>3 DEF HasAdmin
    <3>4. job'[r].at = "write" => n # job'[r].name /\ ActiveAdmin(n)'
      BY <1>0, <1>2, <3>2, <3>3 DEF ActiveAdmin, Monotone
    <3>5. \A q \in Req : job'[q].op \in AdminOps /\ job'[q].at \in {"work", "count", "write"} => HasAdmin'
      BY <1>0, <2>3
    <3> QED BY <3>1, <3>4, <3>5 DEF Admins
  <2> QED BY <2>4, <2>5
<1>7. CASE /\ CountAdmins(r) /\ Go(r, "write") /\ UNCHANGED raced
           /\ \E m, n \in Name : m # n /\ ActiveAdmin(m) /\ ActiveAdmin(n)
  <2>1. ~raced BY <1>7
  <2>2. PICK n \in Name : n # job[r].name /\ ActiveAdmin(n) BY <1>7
  <2>3. HasAdmin BY <2>2 DEF HasAdmin
  <2>4. At(r, {"role", "active"}, "count") BY <1>7 DEF CountAdmins
  <2>5. "write" \in Stage BY DEF Stage
  <2>6. job'[r].at = "write" BY <1>7, <2>5, Goes DEF Types
  <2>7. \A q \in Req : Removing(q)' => Removing(q)
    BY <1>2, <1>3, <2>4 DEF Removing, At
  <2>8. \A p, q \in Req : Removing(p)' /\ Removing(q)' => p = q
    BY <2>1, <2>7 DEF Admins
  <2>9. ASSUME NEW q \in Req, Removing(q)', job'[q].at = "write"
        PROVE  \E m \in Name : m # job'[q].name /\ ActiveAdmin(m)'
    <3>1. CASE q = r BY <1>0, <1>2, <2>2, <3>1 DEF Monotone
    <3>2. CASE q # r
      <4>1. job'[q] = job[q] /\ Removing(q) BY <1>3, <2>7, <2>9, <3>2
      <4>2. PICK m \in Name : m # job[q].name /\ ActiveAdmin(m)
        BY <2>1, <2>9, <4>1 DEF Admins
      <4> QED BY <1>0, <4>1, <4>2 DEF Monotone
    <3> QED BY <3>1, <3>2
  <2>10. \A q \in Req : job'[q].op \in AdminOps /\ job'[q].at \in {"work", "count", "write"} => HasAdmin'
    BY <1>0, <2>3
  <2> QED BY <2>8, <2>9, <2>10 DEF Admins
<1> QED BY <1>4, <1>5, <1>6, <1>7 DEF Advances, At, Lookup, Verify, AdminOps


LEMMA ReplyAdmins ==
  ASSUME Types, Admins, NEW r \in Req, Reply(r), Monotone, raced' = raced
  PROVE  Admins'
<1>1. Others(r) /\ job'[r].at = "done" BY Replies DEF Types
<1>2. ~Removing(r)' BY <1>1 DEF Removing
<1> QED BY <1>1, <1>2, QuietAdmins

\* The write of a removal: the admin it has left out of the count stays.
LEMMA RemoveAdmins ==
  ASSUME Types, Admins, NEW r \in Req, WriteTarget(r), Removing(r), ~raced
  PROVE  Admins' /\ HasAdmin'
<1>1. /\ Reply(r) /\ Existing(job[r].name) /\ UNCHANGED ghosts
      /\ \A m \in Name \ {job[r].name} : users'[m] = users[m]
  BY WriteTypes
<1>2. Others(r) /\ job'[r].at = "done" BY <1>1, Replies DEF Types
<1>3. job[r].at = "write" BY DEF WriteTarget, At
<1>4. PICK n \in Name : n # job[r].name /\ ActiveAdmin(n) BY <1>3 DEF Admins
<1>5. HasAdmin' BY <1>1, <1>4 DEF HasAdmin, ActiveAdmin
<1>6. \A q \in Req : ~Removing(q)' BY <1>2 DEF Others, Admins, Removing
<1> QED BY <1>5, <1>6 DEF Admins

LEMMA AdminsNext ==
  ASSUME Types, Locks, Admins, [Next]_vars
  PROVE  /\ Admins'
         /\ HasAdmin /\ ~raced => HasAdmin'
<1> SUFFICES (Monotone /\ Admins') \/ (Admins' /\ HasAdmin') \/ (raced /\ Admins')
  BY DEF Monotone, HasAdmin
<1>1. CASE \E r \in Req : Handler(r)
  <2>1. PICK r \in Req : Handler(r) BY <1>1
  <2>2. CASE Stores(r)
    <3>1. raced' = raced
      BY <2>2, CommitTypes, CreateUserTypes, IssueTypes, SessionTypes, ConsumeTypes,
         PasswordTypes, InvitationTypes, WriteTypes DEF Stores, ghosts, Commit
    <3>2. CASE WriteTarget(r) /\ Removing(r)
      <4>1. CASE raced BY <3>1, <4>1 DEF Admins
      <4>2. CASE ~raced BY <3>2, <4>2, RemoveAdmins
      <4> QED BY <4>1, <4>2
    <3>3. CASE ~(WriteTarget(r) /\ Removing(r))
      <4>1. Monotone BY <2>2, <3>3, StoreMonotone
      <4>2. CASE Commit(r)
        <5>1. Others(r) /\ job'[r].op = "signup" BY <4>2, CommitTypes
        <5>2. ~Removing(r)' /\ job'[r].op \notin AdminOps BY <5>1 DEF Removing, AdminOps
        <5> QED BY <3>1, <4>1, <5>1, <5>2, QuietAdmins
      <4>3. CASE CreateUser(r) /\ users[job[r].name] = None
        <5>1. "mint" \in Stage BY DEF Stage
        <5>2. Others(r) /\ job'[r].at = "mint"
          BY <4>3, <5>1, CreateUserTypes, Goes DEF Types
        <5>3. ~Removing(r)' BY <5>2 DEF Removing
        <5> QED BY <3>1, <4>1, <5>2, <5>3, QuietAdmins
      <4>4. CASE ConsumeMagicLink(r) /\ links[job[r].key].state = "open"
        <5>1. Others(r) /\ job'[r].at = "store" BY <4>4, ConsumeTypes
        <5>2. ~Removing(r)' BY <5>1 DEF Removing
        <5> QED BY <3>1, <4>1, <5>1, <5>2, QuietAdmins
      <4>5. CASE SetPassword(r)
        <5>1. "session" \in Stage BY DEF Stage
        <5>2. Others(r) /\ job'[r].at = "session"
          BY <4>5, <5>1, PasswordTypes, Goes DEF Types
        <5>3. ~Removing(r)' BY <5>2 DEF Removing
        <5> QED BY <3>1, <4>1, <5>2, <5>3, QuietAdmins
      <4>6. CASE Reply(r) BY <3>1, <4>1, <4>6, ReplyAdmins
      <4> QED BY <2>2, <4>2, <4>3, <4>4, <4>5, <4>6, IssueTypes, SessionTypes,
                 InvitationTypes, WriteTypes DEF Stores
    <3> QED BY <3>2, <3>3
  <2>3. CASE Refuse(r) \/ Abort(r)
    <3>1. Reply(r) /\ UNCHANGED <<users, raced>> BY <2>3 DEF Refuse, Abort, store, ghosts
    <3>2. Monotone BY <3>1 DEF Monotone, ActiveAdmin
    <3> QED BY <3>1, <3>2, ReplyAdmins
  <2>4. CASE Advances(r) /\ UNCHANGED <<store, server, crashes, interrupted>>
    <3>1. Monotone BY <2>4 DEF Monotone, ActiveAdmin, store
    <3> QED BY <2>4, <3>1, AdvanceAdmins
  <2> QED BY <2>1, <2>2, <2>3, <2>4, Steps
<1>2. CASE \E r \in Req, op \in Op : Request(r, op)
  <2>1. PICK r \in Req, op \in Op : Request(r, op) BY <1>2
  <2>2. Others(r) /\ job'[r].at = "start" /\ UNCHANGED <<users, raced>>
    BY <2>1, RequestMade DEF store, ghosts
  <2>3. ~Removing(r)' BY <2>2 DEF Removing
  <2>4. Monotone BY <2>2 DEF Monotone, ActiveAdmin
  <2> QED BY <2>2, <2>3, <2>4, QuietAdmins
<1>3. CASE Start \/ BootCount \/ BootCreate \/ BootMint \/ UNCHANGED vars
  <2>1. UNCHANGED <<job, raced>>
    BY <1>3 DEF Start, BootCount, BootCreate, BootMint, vars, store, ghosts
  <2>2. Monotone
    <3>1. CASE BootCreate
      <4>1. \A n \in Name : users[n] # None => users'[n] = users[n]
        BY <3>1 DEF BootCreate, Types, TypeOK
      <4> QED BY <4>1 DEF Monotone, ActiveAdmin
    <3>2. CASE UNCHANGED users BY <3>2 DEF Monotone, ActiveAdmin
    <3> QED BY <1>3, <3>1, <3>2 DEF Start, BootCount, BootMint, vars, store
  <2>3. Admins'
    <3>1. HasAdmin => HasAdmin' BY <2>2 DEF Monotone, HasAdmin
    <3>2. \A q \in Req : Removing(q)' <=> Removing(q) BY <2>1 DEF Removing
    <3> QED BY <2>1, <2>2, <3>1, <3>2 DEF Admins, Monotone
  <2> QED BY <2>2, <2>3
<1>4. CASE Crash
  <2>1. UNCHANGED <<users, raced>> BY <1>4 DEF Crash, store
  <2>2. Monotone /\ (HasAdmin => HasAdmin') BY <2>1 DEF Monotone, ActiveAdmin, HasAdmin
  <2>3. \A q \in Req : job'[q].at = "done" \/ job'[q] = job[q] BY <1>4, CrashJobs
  <2>4. \A q \in Req : Removing(q)' => Removing(q) /\ job'[q] = job[q] BY <2>3 DEF Removing
  <2>5. CASE raced BY <2>1, <2>2, <2>5 DEF Admins
  <2>6. CASE ~raced
    <3>1. \A p, q \in Req : Removing(p)' /\ Removing(q)' => p = q
      BY <2>4, <2>6 DEF Admins
    <3>2. ASSUME NEW q \in Req, Removing(q)', job'[q].at = "write"
          PROVE  \E n \in Name : n # job'[q].name /\ ActiveAdmin(n)'
      <4>1. PICK n \in Name : n # job[q].name /\ ActiveAdmin(n)
        BY <2>4, <2>6, <3>2 DEF Admins
      <4> QED BY <2>2, <2>4, <3>2, <4>1 DEF Monotone
    <3>3. \A q \in Req : job'[q].op \in AdminOps /\ job'[q].at \in {"work", "count", "write"} => HasAdmin'
      BY <2>2, <2>3, <2>6 DEF Admins
    <3> QED BY <2>2, <3>1, <3>2, <3>3 DEF Admins
  <2> QED BY <2>5, <2>6
<1> QED BY <1>1, <1>2, <1>3, <1>4 DEF Next

\* An admin is left by every demotion and deactivation, whatever else runs,
\* as long as no two of them overlap: the guards are sound one at a time.
THEOREM AnAdminStays == Spec => AdminStays
<1>1. Init => Types /\ Locks /\ Admins
  <2> SUFFICES ASSUME Init PROVE Admins
    BY InvInit DEF Inv
  <2> QED BY DEF Init, FreeJob, Admins, Removing
<1>2. Types /\ Locks /\ Admins /\ [Next]_vars =>
        /\ (Types /\ Locks /\ Admins)'
        /\ [HasAdmin /\ ~raced => HasAdmin']_vars
  BY TypesNext, LocksNext, AdminsNext
<1> QED BY <1>1, <1>2, PTL DEF Spec, AdminStays

-----------------------------------------------------------------------------
(***************************************************************************)
(* Accounts implements Credentials: a handler's statement maps to one step *)
(* of the abstract specification or to none, whatever runs beside it.      *)
(***************************************************************************)

\* What the mapping needs to know of a handler: what it has spent it has
\* spent for good, it sets a password only after that, and it opens a session
\* only for a user with a password.
Earns(r) ==
  /\ job[r].ok => job[r].at \in {"store", "session", "done"}
  /\ job[r].at = "store" => job[r].ok /\ job[r].op = "password"
  /\ job[r].at = "session" => users[job[r].name].password = TRUE

IInv == Inv /\ \A r \in Req : Earns(r)

\* Nobody loses a password.
PasswordsStay ==
  \A n \in Name : users[n] # None /\ users[n].password = TRUE =>
    users'[n] # None /\ users'[n].password = TRUE

\* The request as the abstract specification sees it.
SameUse(r) ==
  /\ job'[r].ok = job[r].ok
  /\ job[r].ok => /\ job'[r].op = job[r].op /\ job'[r].name = job[r].name
                  /\ job'[r].key = job[r].key

LEMMA StoreKeeps ==
  ASSUME Types, NEW r \in Req, Stores(r)
  PROVE  PasswordsStay
<1>1. CASE Commit(r)
  <2>1. Account(FALSE, TRUE).password = TRUE BY DEF Account
  <2>2. /\ users'[job[r].name].password = TRUE /\ users'[job[r].name] # None
        /\ \A m \in Name \ {job[r].name} : users'[m] = users[m]
    BY <1>1, <2>1, CommitTypes
  <2> QED BY <2>2 DEF PasswordsStay
<1>2. CASE CreateUser(r) /\ users[job[r].name] = None
  BY <1>2, CreateUserTypes DEF PasswordsStay
<1>3. CASE SetPassword(r) BY <1>3, PasswordTypes DEF PasswordsStay
<1>4. CASE WriteTarget(r) BY <1>4, WriteTypes DEF PasswordsStay
<1>5. CASE UNCHANGED users BY <1>5 DEF PasswordsStay
<1> QED
  BY <1>1, <1>2, <1>3, <1>4, <1>5, IssueTypes, SessionTypes, ConsumeTypes, InvitationTypes DEF Stores

\* A step of one handler, for the others.
LEMMA EarnsStill ==
  ASSUME Types, \A q \in Req : Earns(q), PasswordsStay, NEW r \in Req, Others(r), Earns(r)'
  PROVE  \A q \in Req : Earns(q)'
<1> SUFFICES ASSUME NEW q \in Req, q # r PROVE Earns(q)'
  OBVIOUS
<1>1. job'[q] = job[q] BY DEF Others
<1>2. job[q].at = "session" => Existing(job[q].name) BY DEF Types, Knows
<1> QED BY <1>1, <1>2 DEF Earns, PasswordsStay, Existing

LEMMA ReplyEarns ==
  ASSUME Types, \A q \in Req : Earns(q), PasswordsStay, NEW r \in Req, Reply(r)
  PROVE  (\A q \in Req : Earns(q)') /\ \A q \in Req : SameUse(q)
<1>1. Others(r) /\ job'[r].at = "done" /\ SameUse(r) BY Replies DEF Types, SameUse
<1>2. Earns(r)' BY <1>1 DEF Earns
<1>3. \A q \in Req : SameUse(q) BY <1>1 DEF Others, SameUse
<1> QED BY <1>1, <1>2, <1>3, EarnsStill

LEMMA AdvanceEarns ==
  ASSUME Types, \A q \in Req : Earns(q), NEW r \in Req, Advances(r),
         UNCHANGED <<store, server, crashes, interrupted>>
  PROVE  (\A q \in Req : Earns(q)') /\ \A q \in Req : SameUse(q)
<1>1. PICK s \in Stage : Go(r, s) BY AdvanceTypes
<1>2. /\ Others(r) /\ job'[r].at = s /\ SameUse(r) /\ job'[r].op = job[r].op
      /\ job'[r].name = job[r].name
  BY <1>1, Goes DEF Types, SameUse
<1>3. PasswordsStay BY DEF PasswordsStay, store
<1>4. job[r].at \in {"start", "mark", "verify", "work", "count"}
  BY DEF Advances, At, Lookup, Verify, Admit, ReadTarget, CountAdmins
<1>5. ~job'[r].ok BY <1>2, <1>4 DEF Earns, SameUse
<1>6. s \in {"mark", "commit", "verify", "session", "work", "count", "write"}
  <2>1. \E t \in {"mark", "commit", "verify", "session", "work", "count", "write"} : Go(r, t)
    BY DEF Advances, ReadTarget
  <2>2. {"mark", "commit", "verify", "session", "work", "count", "write"} \subseteq Stage
    BY DEF Stage
  <2> QED BY <1>2, <2>1, <2>2, Goes DEF Types
<1>7. s = "session" => users'[job'[r].name].password = TRUE
  <2> SUFFICES ASSUME s = "session" PROVE users[job[r].name].password = TRUE
    BY <1>2 DEF store
  <2>1. Verify(r) /\ Go(r, "session")
    <3>1. {"mark", "commit", "verify", "work", "count", "write"} \subseteq Stage BY DEF Stage
    <3>2. \A t \in {"mark", "commit", "verify", "work", "count", "write"} : ~Go(r, t)
      BY <1>2, <3>1, Goes DEF Types
    <3> QED BY <3>2 DEF Advances, ReadTarget
  <2>2. ~Refuse(r)
    <3>1. CASE Refuse(r)
      <4>1. job'[r].at = "done" BY <3>1, Replies DEF Refuse, Types
      <4> QED BY <1>2, <4>1
    <3> QED BY <3>1
  <2>3. users[job[r].name].password /\ Existing(job[r].name)
    BY <2>1, <2>2 DEF Verify, Types, Knows, At
  <2>4. users[job[r].name] \in Rows BY <2>3 DEF Types, TypeOK, Existing
  <2> QED BY <2>3, <2>4 DEF Rows
<1>8. Earns(r)' BY <1>2, <1>5, <1>6, <1>7 DEF Earns
<1>9. \A q \in Req : SameUse(q) BY <1>2 DEF Others, SameUse
<1> QED BY <1>2, <1>3, <1>8, <1>9, EarnsStill

LEMMA StoreEarns ==
  ASSUME Inv, \A q \in Req : Earns(q), NEW r \in Req, Stores(r)
  PROVE  /\ \A q \in Req : Earns(q)'
         /\ Commit(r) \/ ConsumeMagicLink(r) \/ \A q \in Req : SameUse(q)
<1> Types BY DEF Inv
<1> PasswordsStay BY StoreKeeps
<1>1. CASE Commit(r)
  <2>1. Account(FALSE, TRUE).password = TRUE BY DEF Account
  <2>2. /\ Others(r) /\ job'[r].at = "session" /\ job'[r].name = job[r].name
        /\ users'[job[r].name].password = TRUE
    BY <1>1, <2>1, CommitTypes
  <2>3. Earns(r)' BY <2>2 DEF Earns
  <2> QED BY <1>1, <2>2, <2>3, EarnsStill
<1>2. CASE CreateUser(r) /\ users[job[r].name] = None
  <2>1. "mint" \in Stage BY DEF Stage
  <2>2. Others(r) /\ job'[r].at = "mint" /\ SameUse(r)
    BY <1>2, <2>1, CreateUserTypes, Goes DEF SameUse, Types
  <2>3. job[r].at = "start" BY <1>2 DEF CreateUser, At
  <2>4. Earns(r)' /\ \A q \in Req : SameUse(q) BY <2>2, <2>3 DEF Earns, SameUse, Others
  <2> QED BY <2>2, <2>4, EarnsStill
<1>3. CASE ConsumeMagicLink(r) /\ links[job[r].key].state = "open"
  <2>1. Others(r) /\ job'[r].at = "store" /\ job'[r].op = "password"
    BY <1>3, ConsumeTypes
  <2>2. job'[r].ok = TRUE
    <3> DEFINE j == [job[r] EXCEPT !.at = "store", !.ok = TRUE, !.name = links[job[r].key].by]
    <3>1. job[r] \in Jobs BY DEF Types, TypeOK
    <3>2. j.ok = TRUE BY <3>1 DEF Jobs
    <3>3. job' = [job EXCEPT ![r] = j] BY <1>3 DEF ConsumeMagicLink
    <3> HIDE DEF j
    <3> QED BY <3>2, <3>3 DEF Types, TypeOK
  <2>3. Earns(r)' BY <2>1, <2>2 DEF Earns
  <2> QED BY <1>3, <2>1, <2>3, EarnsStill
<1>4. CASE SetPassword(r)
  <2>1. "session" \in Stage BY DEF Stage
  <2>2. /\ Others(r) /\ job'[r].at = "session" /\ SameUse(r) /\ job'[r].name = job[r].name
        /\ users'[job[r].name].password = TRUE
    BY <1>4, <2>1, PasswordTypes, Goes DEF SameUse, Types
  <2>3. Earns(r)' /\ \A q \in Req : SameUse(q) BY <2>2 DEF Earns, SameUse, Others
  <2> QED BY <2>2, <2>3, EarnsStill
<1>5. CASE Reply(r) BY <1>5, ReplyEarns
<1> QED BY <1>1, <1>2, <1>3, <1>4, <1>5, IssueTypes, SessionTypes, InvitationTypes, WriteTypes DEF Stores

\* The steps that no request takes.
LEMMA ServerEarns ==
  ASSUME Types, \A q \in Req : Earns(q),
         Start \/ BootCount \/ BootCreate \/ BootMint \/ Crash \/ UNCHANGED vars
  PROVE  (\A q \in Req : Earns(q)') /\ (\A q \in Req : SameUse(q)) /\ PasswordsStay
<1>1. PasswordsStay
  <2>1. CASE BootCreate
    <3>1. \A n \in Name : users[n] # None => users'[n] = users[n]
      BY <2>1, NameAssumption DEF BootCreate, Types, TypeOK
    <3> QED BY <3>1 DEF PasswordsStay
  <2>2. CASE UNCHANGED users BY <2>2 DEF PasswordsStay
  <2> QED BY <2>1, <2>2 DEF Start, BootCount, BootMint, Crash, vars, store
<1>2. CASE Crash
  <2> SUFFICES ASSUME NEW q \in Req PROVE Earns(q)' /\ SameUse(q)
    BY <1>1
  <2>1. CASE ByServer(q) BY <1>2, <2>1, CrashJobs DEF Earns, SameUse
  <2>2. CASE ~ByServer(q)
    <3>1. job'[q] = job[q] BY <1>2, <2>2, CrashJobs
    <3>2. job[q].at = "session" => Existing(job[q].name) BY DEF Types, Knows
    <3> QED BY <1>1, <3>1, <3>2 DEF Earns, SameUse, PasswordsStay, Existing
  <2> QED BY <2>1, <2>2
<1>3. CASE UNCHANGED job
  <2>1. \A q \in Req : job[q].at = "session" => Existing(job[q].name) BY DEF Types, Knows
  <2> QED BY <1>1, <1>3, <2>1 DEF Earns, SameUse, PasswordsStay, Existing
<1> QED BY <1>2, <1>3 DEF Start, BootCount, BootCreate, BootMint, vars

LEMMA RequestEarns ==
  ASSUME Types, \A q \in Req : Earns(q), NEW r \in Req, NEW op \in Op, Request(r, op)
  PROVE  (\A q \in Req : Earns(q)') /\ \A q \in Req : SameUse(q)
<1>1. /\ Others(r) /\ job[r].at = "free" /\ job'[r].at = "start" /\ job'[r].ok = FALSE
      /\ UNCHANGED users
  BY RequestMade DEF store
<1>2. job[r] \in Jobs BY DEF Types, TypeOK
<1>3. job[r].ok = FALSE BY <1>1, <1>2 DEF Earns, Jobs
<1>4. PasswordsStay BY <1>1 DEF PasswordsStay
<1>5. Earns(r)' /\ \A q \in Req : SameUse(q) BY <1>1, <1>3 DEF Earns, SameUse, Others
<1> QED BY <1>1, <1>4, <1>5, EarnsStill

-----------------------------------------------------------------------------
(* The mapping.                                                            *)

Accounted == {n \in Name : users[n] # None}
WithPassword == {n \in Name : users[n] # None /\ users[n].password}
InviteStates == [i \in Invite |-> invites[i].state]
Spending == [r \in Req |-> Use(r)]

LEMMA PasswordIs ==
  ASSUME TypeOK, NEW n \in Name, users[n] # None
  PROVE  users[n].password \in BOOLEAN
<1>1. users[n] \in Rows BY DEF TypeOK
<1> QED BY <1>1 DEF Rows

\* An account that appears, with a password or without.
LEMMA AccountMapped ==
  ASSUME TypeOK, NEW n \in Name, NEW x \in BOOLEAN, NEW y \in BOOLEAN, users[n] = None,
         users' = [users EXCEPT ![n] = Account(x, y)]
  PROVE  /\ n \notin Accounted /\ Accounted' = Accounted \cup {n}
         /\ WithPassword' = IF y THEN WithPassword \cup {n} ELSE WithPassword
<1>1. /\ users'[n] # None /\ users'[n] = Account(x, y)
      /\ \A m \in Name \ {n} : users'[m] = users[m]
  BY RowWritten, AccountTypes
<1>2. users'[n].password = y BY <1>1, AccountTypes
<1>3. n \notin Accounted /\ Accounted' = Accounted \cup {n} BY <1>1 DEF Accounted
<1>4. n \notin WithPassword BY DEF WithPassword
<1>5. CASE y
  <2>1. WithPassword' = WithPassword \cup {n} BY <1>1, <1>2, <1>5 DEF WithPassword
  <2> QED BY <1>3, <1>5, <2>1
<1>6. CASE ~y
  <2>1. WithPassword' = WithPassword BY <1>1, <1>2, <1>4, <1>6 DEF WithPassword
  <2> QED BY <1>3, <1>6, <2>1
<1> QED BY <1>5, <1>6

\* A request that has spent a key.
LEMMA UseMapped ==
  ASSUME TypeOK, NEW r \in Req, Others(r), job' \in [Req -> Jobs],
         ~job[r].ok, job'[r].ok = TRUE
  PROVE  /\ Spending[r] = [how |-> "none", key |-> None, name |-> None]
         /\ Spending' = [Spending EXCEPT ![r] = [how |-> job'[r].op, key |-> job'[r].key,
                                           name |-> job'[r].name]]
<1>1. Spending[r] = [how |-> "none", key |-> None, name |-> None] BY DEF Spending, Use
<1>2. Use(r)' = [how |-> job'[r].op, key |-> job'[r].key, name |-> job'[r].name] BY DEF Use
<1>3. \A q \in Req \ {r} : Use(q)' = Use(q) BY DEF Others, Use
<1> HIDE DEF Use
<1> QED BY <1>1, <1>2, <1>3 DEF Spending

LEMMA UsesSame ==
  ASSUME \A q \in Req : SameUse(q)
  PROVE  Spending' = Spending
<1>1. \A q \in Req : Use(q)' = Use(q) BY DEF SameUse, Use
<1> HIDE DEF Use
<1> QED BY <1>1 DEF Spending

\* A step that the abstract specification does not see.
LEMMA Unseen ==
  ASSUME \A q \in Req : SameUse(q), UNCHANGED <<users, invites, links, sessions>>
  PROVE  UNCHANGED Promised!vars
<1>1. Spending' = Spending BY UsesSame
<1>2. /\ Accounted' = Accounted /\ WithPassword' = WithPassword
      /\ InviteStates' = InviteStates
  BY DEF Accounted, WithPassword, InviteStates
<1> QED BY <1>1, <1>2 DEF Promised!vars, Accounted, WithPassword, InviteStates, Spending

LEMMA CommitMapped ==
  ASSUME Inv, \A q \in Req : Earns(q), NEW r \in Req, Commit(r)
  PROVE  \A i \in Invite, n \in Name :
           i = job[r].key /\ n = job[r].name => Promised!SignUp(r, i, n)
<1> SUFFICES ASSUME NEW i \in Invite, NEW n \in Name, i = job[r].key, n = job[r].name
             PROVE  Promised!SignUp(r, i, n)
  OBVIOUS
<1>1. Types /\ Locks /\ TypeOK BY DEF Inv, Types
<1>2. job[r].op = "signup" /\ job[r].at = "commit" BY DEF Commit, At
<1>3. /\ invites[i].state = "open" /\ users[n] = None
  BY <1>1, <1>2 DEF Locks, Open, At
<1>4. i \in Invite /\ n \in Name /\ Others(r) /\ job'[r].op = "signup" /\ job'[r].ok = TRUE
      /\ job'[r].key = i /\ job'[r].name = n
  BY <1>1, CommitTypes
<1>5. job' \in [Req -> Jobs] BY <1>1, CommitTypes DEF Types, TypeOK
<1>6. ~job[r].ok BY <1>2 DEF Earns
<1>7. /\ Spending[r] = [how |-> "none", key |-> None, name |-> None]
      /\ Spending' = [Spending EXCEPT ![r] = [how |-> "signup", key |-> i, name |-> n]]
  BY <1>1, <1>4, <1>5, <1>6, UseMapped
<1>8. users' = [users EXCEPT ![n] = Account(FALSE, TRUE)] BY DEF Commit
<1>9. /\ n \notin Accounted /\ Accounted' = Accounted \cup {n}
      /\ WithPassword' = WithPassword \cup {n}
  BY <1>1, <1>3, <1>4, <1>8, AccountMapped
<1>10. InviteStates[i] = "open" /\ InviteStates' = [InviteStates EXCEPT ![i] = "used"]
  <2>1. /\ invites'[i].state = "used"
        /\ \A k \in Invite \ {i} : invites'[k] = invites[k]
    BY <1>1, CommitTypes
  <2> QED BY <1>3, <1>4, <2>1 DEF InviteStates
<1>11. UNCHANGED <<sessions, links>> BY DEF Commit
<1> QED BY <1>7, <1>9, <1>10, <1>11
    DEF Promised!SignUp, Promised!NoUse, Accounted, WithPassword, InviteStates, Spending

LEMMA ConsumeMapped ==
  ASSUME Inv, \A q \in Req : Earns(q), NEW r \in Req, ConsumeMagicLink(r),
         links[job[r].key].state = "open"
  PROVE  Promised!Spend(r, job[r].key)
<1> DEFINE k == job[r].key
<1>1. Types /\ TypeOK BY DEF Inv, Types
<1>2. job[r].at = "start" BY DEF ConsumeMagicLink, At
<1>3. ~job[r].ok BY <1>2 DEF Earns
<1>4. /\ Others(r) /\ k \in Link /\ job'[r].op = "password" /\ job'[r].key = k
      /\ job'[r].name = links[k].by
      /\ UNCHANGED <<users, invites, sessions>>
  BY <1>1, ConsumeTypes
<1>5. job' \in [Req -> Jobs] BY <1>1, ConsumeTypes DEF Types, TypeOK
<1>6. job'[r].ok = TRUE
  <2> DEFINE j == [job[r] EXCEPT !.at = "store", !.ok = TRUE, !.name = links[k].by]
  <2>1. job[r] \in Jobs BY <1>1 DEF TypeOK
  <2>2. j.ok = TRUE BY <2>1 DEF Jobs
  <2>3. job' = [job EXCEPT ![r] = j] BY DEF ConsumeMagicLink
  <2> HIDE DEF j
  <2> QED BY <1>1, <2>2, <2>3 DEF TypeOK
<1>7. /\ Spending[r] = [how |-> "none", key |-> None, name |-> None]
      /\ Spending' = [Spending EXCEPT ![r] = [how |-> "password", key |-> k, name |-> links[k].by]]
  BY <1>1, <1>3, <1>4, <1>5, <1>6, UseMapped
<1>8. links' = [links EXCEPT ![k].state = "used"] BY DEF ConsumeMagicLink
<1>9. /\ Accounted' = Accounted /\ WithPassword' = WithPassword
      /\ InviteStates' = InviteStates
  BY <1>4 DEF Accounted, WithPassword, InviteStates
<1> QED BY <1>4, <1>7, <1>8, <1>9
    DEF Promised!Spend, Promised!NoUse, Accounted, WithPassword, InviteStates, Spending

LEMMA PasswordMapped ==
  ASSUME Inv, \A q \in Req : Earns(q), NEW r \in Req, SetPassword(r), \A q \in Req : SameUse(q)
  PROVE  Promised!SetPassword(r)
<1> DEFINE n == job[r].name
<1>1. Types /\ TypeOK BY DEF Inv, Types
<1>2. job[r].at = "store" BY DEF SetPassword, At
<1>3. job[r].ok /\ job[r].op = "password" BY <1>2 DEF Earns
<1>4. Spending[r].how = "password" /\ Spending[r].name = n BY <1>3 DEF Spending, Use
<1>5. /\ Existing(n) /\ users'[n] # None /\ users'[n].password = TRUE
      /\ \A m \in Name \ {n} : users'[m] = users[m]
      /\ UNCHANGED <<invites, links, sessions>>
  BY <1>1, PasswordTypes
<1>6. Accounted' = Accounted BY <1>5 DEF Accounted, Existing
<1>7. WithPassword' = WithPassword \cup {n} BY <1>5 DEF WithPassword, Existing
<1>8. Spending' = Spending BY UsesSame
<1>9. InviteStates' = InviteStates BY <1>5 DEF InviteStates
<1> QED BY <1>4, <1>5, <1>6, <1>7, <1>8, <1>9
    DEF Promised!SetPassword, Accounted, WithPassword, InviteStates, Spending

\* The steps of a handler that spend nothing.
LEMMA StoreMapped ==
  ASSUME Inv, \A q \in Req : Earns(q), NEW r \in Req, Stores(r)
  PROVE  [Promised!Next]_(Promised!vars)
<1>1. Types /\ TypeOK BY DEF Inv, Types
<1>2. CASE Commit(r)
  <2>1. job[r].key \in Invite /\ job[r].name \in Name BY <1>1, <1>2, CommitTypes
  <2>2. PICK i \in Invite, n \in Name : i = job[r].key /\ n = job[r].name BY <2>1
  <2>3. Promised!SignUp(r, i, n) BY <1>2, <2>2, CommitMapped
  <2> QED BY <2>3 DEF Promised!Next
<1>3. CASE ConsumeMagicLink(r) /\ links[job[r].key].state = "open"
  <2>1. job[r].key \in Link BY <1>1, <1>3, ConsumeTypes
  <2> QED BY <1>3, <2>1, ConsumeMapped DEF Promised!Next
<1>4. CASE SetPassword(r)
  <2>1. job[r].at = "store" BY <1>4 DEF SetPassword, At
  <2>2. ~Commit(r) /\ ~ConsumeMagicLink(r) BY <2>1 DEF Commit, ConsumeMagicLink, At
  <2>3. \A q \in Req : SameUse(q) BY <2>2, StoreEarns
  <2> QED BY <1>4, <2>3, PasswordMapped DEF Promised!Next
<1>5. CASE CreateUser(r) /\ users[job[r].name] = None
  <2>1. job[r].op = "create" BY <1>5 DEF CreateUser, At
  <2>2. ~Commit(r) /\ ~ConsumeMagicLink(r) BY <2>1 DEF Commit, ConsumeMagicLink, At
  <2>3. Spending' = Spending BY <2>2, StoreEarns, UsesSame
  <2>4. job[r].name \in Name /\ UNCHANGED <<invites, links, sessions>>
    BY <1>1, <1>5, CreateUserTypes
  <2>5. users' = [users EXCEPT ![job[r].name] = Account(TRUE, FALSE)]
    BY <1>5 DEF CreateUser
  <2>6. /\ job[r].name \notin Accounted /\ Accounted' = Accounted \cup {job[r].name}
        /\ WithPassword' = WithPassword
    BY <1>1, <1>5, <2>4, <2>5, AccountMapped
  <2>7. InviteStates' = InviteStates BY <2>4 DEF InviteStates
  <2>8. PICK n \in Name : n = job[r].name BY <2>4
  <2>9. Promised!Create(n)
    BY <2>3, <2>4, <2>6, <2>7, <2>8
    DEF Promised!Create, Accounted, WithPassword, InviteStates, Spending
  <2> QED BY <2>9 DEF Promised!Next
<1>6. ASSUME Reply(r) PROVE Spending' = Spending
  <2>1. Types /\ Others(r) /\ SameUse(r) BY <1>1, <1>6, Replies DEF SameUse
  <2>2. \A q \in Req : SameUse(q) BY <2>1 DEF Others, SameUse
  <2> QED BY <2>2, UsesSame
<1>7. CASE MintLink(r) \/ CreateMagicLink(r)
  <2>1. PICK l \in Link : NewLink(l, job[r].name) BY <1>7 DEF MintLink, CreateMagicLink
  <2>2. Existing(job[r].name)
    BY <1>1, <1>7 DEF Types, MintLink, CreateMagicLink, At, Knows, Running
  <2>3. Reply(r) /\ UNCHANGED <<users, invites, sessions>> BY <1>1, <1>7, IssueTypes
  <2>4. Spending' = Spending BY <1>6, <2>3
  <2>5. /\ Accounted' = Accounted /\ WithPassword' = WithPassword
        /\ InviteStates' = InviteStates /\ job[r].name \in Accounted
    BY <2>2, <2>3 DEF Accounted, WithPassword, InviteStates, Existing
  <2>6. Promised!IssueLink(l, job[r].name)
    BY <2>1, <2>3, <2>4, <2>5
    DEF Promised!IssueLink, NewLink, Accounted, WithPassword, InviteStates, Spending
  <2> QED BY <2>2, <2>6 DEF Promised!Next, Existing
<1>8. CASE StartSession(r)
  <2>1. job[r].at = "session" /\ sessions' = sessions \cup {job[r].name} /\ Reply(r)
        /\ UNCHANGED <<users, invites, links>>
    BY <1>8 DEF StartSession
  <2>2. Existing(job[r].name) /\ users[job[r].name].password
    BY <1>1, <2>1 DEF Types, Knows, Earns
  <2>3. job[r].name \in WithPassword BY <2>2 DEF WithPassword, Existing
  <2>4. Spending' = Spending BY <1>6, <2>1
  <2>5. /\ Accounted' = Accounted /\ WithPassword' = WithPassword
        /\ InviteStates' = InviteStates
    BY <2>1 DEF Accounted, WithPassword, InviteStates
  <2>6. Promised!Enter(job[r].name)
    BY <2>1, <2>3, <2>4, <2>5
    DEF Promised!Enter, Accounted, WithPassword, InviteStates, Spending
  <2> QED BY <2>2, <2>6 DEF Promised!Next, Existing
<1>9. CASE Logout(r)
  <2>1. /\ Reply(r) /\ UNCHANGED <<users, invites, links>> /\ job[r].by \in Name
        /\ sessions' \in {sessions, sessions \ {job[r].by}}
    BY <1>1, <1>9 DEF Logout, Types, Knows, At, Running
  <2>2. Spending' = Spending BY <1>6, <2>1
  <2>3. /\ Accounted' = Accounted /\ WithPassword' = WithPassword
        /\ InviteStates' = InviteStates
    BY <2>1 DEF Accounted, WithPassword, InviteStates
  <2>4. CASE sessions' = sessions
    BY <2>1, <2>2, <2>3, <2>4
    DEF Promised!vars, Accounted, WithPassword, InviteStates, Spending
  <2>5. CASE sessions' = sessions \ {job[r].by}
    <3>1. Promised!Leave(job[r].by)
      BY <2>1, <2>2, <2>3, <2>5
      DEF Promised!Leave, Accounted, WithPassword, InviteStates, Spending
    <3> QED BY <2>1, <3>1 DEF Promised!Next
  <2> QED BY <2>1, <2>4, <2>5
<1>10. CASE CreateInvitation(r)
  <2>1. PICK i \in Invite : /\ invites[i].state = "none"
                            /\ invites' = [invites EXCEPT ![i].state = "open"]
    BY <1>10 DEF CreateInvitation
  <2>2. Reply(r) /\ UNCHANGED <<users, links, sessions>> BY <1>1, <1>10, InvitationTypes
  <2>3. Spending' = Spending BY <1>6, <2>2
  <2>4. Accounted' = Accounted /\ WithPassword' = WithPassword
    BY <2>2 DEF Accounted, WithPassword
  <2>5. InviteStates[i] = "none" /\ InviteStates' = [InviteStates EXCEPT ![i] = "open"]
    <3> DEFINE new == [invites[i] EXCEPT !.state = "open"]
    <3>1. invites[i] \in [state : {"none", "open", "used", "gone"}, by : Name \cup {None}]
      BY <1>1 DEF TypeOK
    <3>2. new.state = "open" BY <3>1
    <3>3. invites' = [invites EXCEPT ![i] = new] BY <2>1
    <3> HIDE DEF new
    <3> QED BY <1>1, <2>1, <3>2, <3>3 DEF InviteStates, TypeOK
  <2>6. Promised!Invited(i)
    BY <2>2, <2>3, <2>4, <2>5
    DEF Promised!Invited, Accounted, WithPassword, InviteStates, Spending
  <2> QED BY <2>6 DEF Promised!Next
<1>11. CASE DeleteInvitation(r)
  <2>0. job[r].key \in Invite BY <1>1, <1>11 DEF DeleteInvitation, Types, Knows, Running, At
  <2> PICK i \in Invite : i = job[r].key BY <2>0
  <2>1. /\ i \in Invite /\ invites' = [invites EXCEPT ![i] = [state |-> "gone", by |-> None]]
    BY <1>1, <1>11 DEF DeleteInvitation, Types, Knows, Running, At
  <2>2. Reply(r) /\ UNCHANGED <<users, links, sessions>> BY <1>1, <1>11, InvitationTypes
  <2>3. Spending' = Spending BY <1>6, <2>2
  <2>4. Accounted' = Accounted /\ WithPassword' = WithPassword
    BY <2>2 DEF Accounted, WithPassword
  <2>5. InviteStates' = [InviteStates EXCEPT ![i] = "gone"]
    <3> DEFINE new == [state |-> "gone", by |-> None]
    <3>1. new.state = "gone" OBVIOUS
    <3>2. invites' = [invites EXCEPT ![i] = new] BY <2>1
    <3> HIDE DEF new
    <3> QED BY <1>1, <2>1, <3>1, <3>2 DEF InviteStates, TypeOK
  <2>6. Promised!Revoke(i)
    BY <2>2, <2>3, <2>4, <2>5
    DEF Promised!Revoke, Accounted, WithPassword, InviteStates, Spending
  <2> QED BY <2>6 DEF Promised!Next
<1>12. CASE WriteTarget(r)
  <2>1. /\ Reply(r) /\ Existing(job[r].name)
        /\ users'[job[r].name].password = users[job[r].name].password
        /\ users'[job[r].name] # None
        /\ \A m \in Name \ {job[r].name} : users'[m] = users[m]
        /\ UNCHANGED <<invites, links, sessions>>
    BY <1>1, <1>12, WriteTypes
  <2>2. Spending' = Spending BY <1>6, <2>1
  <2>3. Accounted' = Accounted BY <2>1 DEF Accounted, Existing
  <2>4. WithPassword' = WithPassword BY <2>1 DEF WithPassword, Existing
  <2>5. InviteStates' = InviteStates BY <2>1 DEF InviteStates
  <2> QED BY <2>1, <2>2, <2>3, <2>4, <2>5
      DEF Promised!vars, Accounted, WithPassword, InviteStates, Spending
<1> QED BY <1>2, <1>3, <1>4, <1>5, <1>7, <1>8, <1>9, <1>10, <1>11, <1>12 DEF Stores

-----------------------------------------------------------------------------
LEMMA StepMapped ==
  ASSUME IInv, [Next]_vars
  PROVE  IInv' /\ [Promised!Next]_(Promised!vars)
<1>1. Inv /\ Types /\ TypeOK /\ (\A q \in Req : Earns(q)) BY DEF IInv, Inv, Types
<1>2. Inv' BY <1>1, InvNext
<1>3. CASE \E r \in Req : Handler(r)
  <2>1. PICK r \in Req : Handler(r) BY <1>3
  <2>2. CASE Stores(r) BY <1>1, <1>2, <2>2, StoreEarns, StoreMapped DEF IInv
  <2>3. CASE Refuse(r) \/ Abort(r)
    <3>1. Reply(r) /\ UNCHANGED <<users, invites, links, sessions>>
      BY <2>3 DEF Refuse, Abort, store
    <3>2. PasswordsStay BY <3>1 DEF PasswordsStay
    <3> QED BY <1>1, <1>2, <3>1, <3>2, ReplyEarns, Unseen DEF IInv
  <2>4. CASE Advances(r) /\ UNCHANGED <<store, server, crashes, interrupted>>
    BY <1>1, <1>2, <2>4, AdvanceEarns, Unseen DEF IInv, store
  <2> QED BY <1>1, <2>1, <2>2, <2>3, <2>4, Steps
<1>4. CASE \E r \in Req, op \in Op : Request(r, op)
  <2>1. PICK r \in Req, op \in Op : Request(r, op) BY <1>4
  <2>2. UNCHANGED <<users, invites, links, sessions>> BY <2>1 DEF Request, store
  <2> QED BY <1>1, <1>2, <2>1, <2>2, RequestEarns, Unseen DEF IInv
<1>5. CASE Start \/ BootCount \/ BootCreate \/ BootMint \/ Crash \/ UNCHANGED vars
  <2>1. (\A q \in Req : Earns(q)') /\ (\A q \in Req : SameUse(q))
    BY <1>1, <1>5, ServerEarns
  <2>2. CASE BootCreate /\ users[Boot] = None
    <3>1. /\ users' = [users EXCEPT ![Boot] = Account(TRUE, FALSE)]
          /\ UNCHANGED <<invites, links, sessions>>
      BY <2>2 DEF BootCreate
    <3>2. /\ Boot \notin Accounted /\ Accounted' = Accounted \cup {Boot}
          /\ WithPassword' = WithPassword
      BY <1>1, <2>2, <3>1, NameAssumption, AccountMapped
    <3>3. Spending' = Spending /\ InviteStates' = InviteStates
      BY <2>1, <3>1, UsesSame DEF InviteStates
    <3>4. Promised!Create(Boot)
      BY <3>1, <3>2, <3>3
      DEF Promised!Create, Accounted, WithPassword, InviteStates, Spending
    <3>5. \E n \in Name : Promised!Create(n) BY <3>4, NameAssumption
    <3> QED BY <1>2, <2>1, <3>5 DEF IInv, Promised!Next
  <2>3. CASE BootMint /\ \E l \in Link : NewLink(l, Boot)
    <3>1. PICK l \in Link : NewLink(l, Boot) BY <2>3
    <3>2. UNCHANGED <<users, invites, sessions>> /\ users[Boot] # None
      BY <1>1, <2>3 DEF BootMint, Types
    <3>3. Spending' = Spending BY <2>1, UsesSame
    <3>4. /\ Accounted' = Accounted /\ WithPassword' = WithPassword
          /\ InviteStates' = InviteStates /\ Boot \in Accounted /\ Boot \in Name
      BY <3>2, NameAssumption DEF Accounted, WithPassword, InviteStates
    <3>5. Promised!IssueLink(l, Boot)
      BY <3>1, <3>2, <3>3, <3>4
      DEF Promised!IssueLink, NewLink, Accounted, WithPassword, InviteStates, Spending
    <3> QED BY <1>2, <2>1, <3>4, <3>5 DEF IInv, Promised!Next
  <2>4. CASE UNCHANGED <<users, invites, links, sessions>>
    BY <1>2, <2>1, <2>4, Unseen DEF IInv
  <2> QED BY <1>5, <2>2, <2>3, <2>4
      DEF Start, BootCount, BootCreate, BootMint, Crash, vars, store
<1> QED BY <1>3, <1>4, <1>5 DEF Next

LEMMA InitMapped == Init => IInv /\ Promised!Init
<1> SUFFICES ASSUME Init PROVE IInv /\ Promised!Init
  OBVIOUS
<1>1. Inv BY InvInit
<1>2. \A r \in Req : job[r].at = "free" /\ job[r].ok = FALSE BY DEF Init, FreeJob
<1>3. \A r \in Req : Earns(r) BY <1>2 DEF Earns
<1>4. PICK F \in SUBSET Founder :
        users = [n \in Name |-> IF n \in F THEN Account(TRUE, TRUE) ELSE None] /\ sessions = F
  BY DEF Init
<1>5. Account(TRUE, TRUE) # None /\ Account(TRUE, TRUE).password = TRUE
  BY AccountTypes, RowAssumption DEF Account
<1>6. Accounted = F /\ WithPassword = F
  BY <1>4, <1>5, NameAssumption DEF Accounted, WithPassword
<1>7. InviteStates = [i \in Invite |-> "none"] BY DEF Init, InviteStates
<1>8. Spending = [r \in Req |-> [how |-> "none", key |-> None, name |-> None]]
  BY <1>2 DEF Spending, Use
<1>9. links = [l \in Link |-> [state |-> "none", by |-> None]] BY DEF Init
<1>10. Promised!Init
  BY <1>4, <1>6, <1>7, <1>8, <1>9
  DEF Promised!Init, Promised!NoUse, Accounted, WithPassword, InviteStates, Spending
<1> QED BY <1>1, <1>3, <1>10 DEF IInv

\* Accounts implements Credentials, for every number of names, invitations,
\* links, requests and crashes: each key is spent once, an account appears with
\* its invitation spent, and no password or session comes from anything else.
THEOREM Refinement == Spec => ImplementsCredentials
<1>1. IInv /\ [Next]_vars => IInv' /\ [Promised!Next]_(Promised!vars) BY StepMapped
<1> QED BY InitMapped, <1>1, PTL DEF Spec, ImplementsCredentials, Promised!Spec

-----------------------------------------------------------------------------
(* What the handlers inherit from the abstract specification.              *)

NoKey == [how |-> "none", key |-> None, name |-> None]
Keyed == {r \in Req : Spending[r] # NoKey}

\* Whoever is logged in has a password, and who has one is a founder or has
\* spent an invitation or a link.
Paid ==
  /\ \A r \in Keyed : Spending[r].how \in {"signup", "password"}
  /\ sessions \subseteq WithPassword
  /\ WithPassword \subseteq Founder \cup {Spending[r].name : r \in Keyed}

\* A step that spends nothing, or one that spends a key on behalf of a name.
SpendsNothing ==
  /\ Spending' = Spending /\ sessions' \subseteq sessions \cup WithPassword
  /\ \/ WithPassword' = WithPassword
     \/ \E r \in Req : Spending[r].how = "password" /\ WithPassword' = WithPassword \cup {Spending[r].name}
SpendsFor(r, x) ==
  /\ Spending[r] = NoKey /\ x.how \in {"signup", "password"} /\ Spending' = [Spending EXCEPT ![r] = x]
  /\ sessions' = sessions /\ WithPassword \subseteq WithPassword'
  /\ WithPassword' \subseteq WithPassword \cup {x.name}

LEMMA PromisedSteps ==
  ASSUME [Promised!Next]_(Promised!vars)
  PROVE  SpendsNothing \/ \E r \in Req : \E x : SpendsFor(r, x)
<1>1. CASE \E n \in Name : Promised!Create(n) \/ Promised!Enter(n) \/ Promised!Leave(n)
  BY <1>1 DEF Promised!Create, Promised!Enter, Promised!Leave, SpendsNothing, Spending, WithPassword
<1>2. CASE \/ \E i \in Invite : Promised!Invited(i) \/ Promised!Revoke(i)
           \/ \E l \in Link, n \in Name : Promised!IssueLink(l, n)
           \/ UNCHANGED Promised!vars
  BY <1>2 DEF Promised!Invited, Promised!Revoke, Promised!IssueLink, Promised!vars, SpendsNothing,
              Spending, WithPassword
<1>3. CASE \E r \in Req : Promised!SetPassword(r)
  BY <1>3 DEF Promised!SetPassword, SpendsNothing, Spending, WithPassword
<1>4. CASE \E r \in Req, i \in Invite, n \in Name : Promised!SignUp(r, i, n)
  <2>1. PICK r \in Req, i \in Invite, n \in Name : Promised!SignUp(r, i, n) BY <1>4
  <2>2. PICK x : x = [how |-> "signup", key |-> i, name |-> n] OBVIOUS
  <2>3. Spending[r] = NoKey /\ Spending' = [Spending EXCEPT ![r] = x]
    BY <2>1, <2>2 DEF Promised!SignUp, Promised!NoUse, NoKey, Spending
  <2>4. sessions' = sessions BY <2>1 DEF Promised!SignUp
  <2>5. WithPassword' = WithPassword \cup {n} BY <2>1 DEF Promised!SignUp, WithPassword
  <2>6. x.how = "signup" /\ x.name = n BY <2>2
  <2>7. SpendsFor(r, x) BY <2>3, <2>4, <2>5, <2>6, Zenon DEF SpendsFor
  <2> QED BY <2>7
<1>5. CASE \E r \in Req, l \in Link : Promised!Spend(r, l)
  <2>1. PICK r \in Req, l \in Link : Promised!Spend(r, l) BY <1>5
  <2>2. PICK x : x = [how |-> "password", key |-> l, name |-> links[l].by] OBVIOUS
  <2>3. /\ Spending[r] = NoKey /\ Spending' = [Spending EXCEPT ![r] = x] /\ sessions' = sessions
        /\ WithPassword' = WithPassword
    BY <2>1, <2>2 DEF Promised!Spend, Promised!NoUse, NoKey, Spending, WithPassword
  <2> QED BY <2>2, <2>3 DEF SpendsFor
<1> QED BY <1>1, <1>2, <1>3, <1>4, <1>5 DEF Promised!Next

LEMMA PaidStays ==
  ASSUME Paid, [Promised!Next]_(Promised!vars)
  PROVE  Paid'
<1>1. DOMAIN Spending = Req BY DEF Spending
<1>2. CASE SpendsNothing
  <2>1. Keyed' = Keyed BY <1>2 DEF SpendsNothing, Keyed, NoKey
  <2>2. \A r \in Req : Spending[r].how = "password" => r \in Keyed BY DEF Keyed, NoKey
  <2> QED BY <1>2, <2>1, <2>2 DEF SpendsNothing, Paid
<1>3. ASSUME NEW r \in Req, NEW x, SpendsFor(r, x) PROVE Paid'
  <2>1. /\ x # NoKey /\ r \notin Keyed /\ Spending'[r] = x
        /\ \A q \in Req \ {r} : Spending'[q] = Spending[q]
    BY <1>1, <1>3 DEF SpendsFor, Keyed, NoKey
  <2>2. Keyed' = Keyed \cup {r} BY <2>1 DEF Keyed, NoKey
  <2>3. \A q \in Keyed : Spending'[q] = Spending[q] BY <2>1 DEF Keyed
  <2>4. WithPassword' \subseteq Founder \cup {Spending'[q].name : q \in Keyed'}
    <3> SUFFICES ASSUME NEW n \in WithPassword', n \notin Founder
                 PROVE  \E q \in Keyed' : Spending'[q].name = n
      OBVIOUS
    <3>1. CASE n = x.name BY <2>1, <2>2, <3>1
    <3>2. CASE n \in WithPassword
      <4>1. PICK q \in Keyed : Spending[q].name = n BY <3>2 DEF Paid
      <4> QED BY <2>2, <2>3, <4>1
    <3> QED BY <1>3, <3>1, <3>2 DEF SpendsFor
  <2> QED BY <1>3, <2>1, <2>2, <2>3, <2>4 DEF SpendsFor, Paid
<1> QED BY <1>2, <1>3, PromisedSteps

LEMMA InitPaid ==
  Promised!Init => Paid
<1> SUFFICES ASSUME Promised!Init PROVE Paid
  OBVIOUS
<1>1. \A r \in Req : Spending[r] = NoKey BY DEF Promised!Init, Promised!NoUse, NoKey, Spending
<1>2. Keyed = {} BY <1>1 DEF Keyed
<1>3. WithPassword \subseteq Founder /\ sessions = WithPassword
  BY DEF Promised!Init, WithPassword
<1> QED BY <1>2, <1>3 DEF Paid

\* Whatever requests race, abort or are cut off by a crash, no invitation and no
\* link is spent twice, whoever has a session has a password, and every password
\* goes back to a founder or to a key that was issued and spent.
THEOREM CredentialsEarned == Spec => []Promised!Earned
<1>1. IInv /\ Paid => Promised!Earned
  <2> SUFFICES ASSUME IInv, Paid PROVE Promised!Earned
    OBVIOUS
  <2>1. \A r \in Req : Spending[r] = IF job[r].ok THEN [how |-> job[r].op, key |-> job[r].key, name |-> job[r].name]
                                     ELSE NoKey
    BY DEF Spending, Use, NoKey
  <2>2. ASSUME NEW r \in Keyed, NEW q \in Keyed, Spending[r].how = Spending[q].how,
               Spending[r].key = Spending[q].key
        PROVE  r = q
    <3>1. r \in Req /\ q \in Req BY DEF Keyed
    <3>2. job[r].ok /\ job[q].ok BY <2>1, <3>1 DEF Keyed
    <3>3. /\ Spending[r] = [how |-> job[r].op, key |-> job[r].key, name |-> job[r].name]
          /\ Spending[q] = [how |-> job[q].op, key |-> job[q].key, name |-> job[q].name]
      BY <2>1, <3>1, <3>2
    <3>4. job[r].op = job[q].op /\ job[r].key = job[q].key BY <2>2, <3>3
    <3>5. job[r].op \in {"signup", "password"} BY <3>3 DEF Paid
    <3> QED BY <3>1, <3>2, <3>4, <3>5 DEF IInv, Inv, Used, OneAccountPerInvitation, LinkOnce, Redeemed, Spent
  <2>3. Promised!Spenders = Keyed BY DEF Promised!Spenders, Promised!NoUse, Keyed, NoKey, Spending
  <2> HIDE DEF Keyed
  <2>4. /\ \A r, q \in Keyed : Spending[r].how = Spending[q].how /\ Spending[r].key = Spending[q].key => r = q
        /\ sessions \subseteq WithPassword
        /\ WithPassword \subseteq Founder \cup {Spending[r].name : r \in Keyed}
    BY <2>2 DEF Paid
  <2> QED BY <2>3, <2>4 DEF Promised!Earned, Spending, WithPassword
<1>2. Init => IInv /\ Paid BY InitMapped, InitPaid
<1>3. IInv /\ Paid /\ [Next]_vars => (IInv /\ Paid)'
  BY StepMapped, PaidStays
<1> QED BY <1>1, <1>2, <1>3, PTL DEF Spec

-----------------------------------------------------------------------------
(***************************************************************************)
(* VoiceCalls.                                                             *)
(***************************************************************************)
LEMMA TypeKept ==
  ASSUME CallTypeOK, [CallNext]_callVars
  PROVE  CallTypeOK'
<1> USE ChannelAssumption, OwnerAssumption DEF Channel, PC, LivePC, JoinPC,
        LeavePC, DropPC, TimerState, LogEntry
<1> USE DEF CallTypeOK
<1>1. ASSUME NEW k \in Conn, Connect(k) PROVE CallTypeOK'
  BY <1>1 DEF Connect, Goto, voice, timers, locals
<1>2. ASSUME NEW k \in Conn, Drop(k) PROVE CallTypeOK'
  BY <1>2 DEF Drop, Goto, voice, timers, locals
<1>3. ASSUME NEW k \in Conn, NEW c \in Channel, JoinFrame(k, c) PROVE CallTypeOK'
  <2> DEFINE u == Owner[k]
  <2>1. u \in User
    OBVIOUS
  <2>2. CASE c \in DM
    <3>1. Stopped(c, u) \in [Timer -> TimerState]
      BY <2>1, <2>2 DEF Stopped
    <3>2. timer' = [timer EXCEPT ![c][u] = Stopped(c, u)]
      BY <1>3, <2>2 DEF JoinFrame
    <3>3. grace' = [grace EXCEPT ![c][u] = NoTimer]
      BY <1>3, <2>2 DEF JoinFrame
    <3>4. timer' \in [DM -> [User -> [Timer -> TimerState]]]
      BY <2>1, <2>2, <3>1, <3>2
    <3>5. grace' \in [DM -> [User -> Timer \cup {NoTimer}]]
      BY <2>1, <2>2, <3>3
    <3> QED
      BY <1>3, <3>4, <3>5 DEF JoinFrame, Goto, voice, locals
  <2>3. CASE c \notin DM
    BY <1>3, <2>3 DEF JoinFrame, Goto, voice, timers, locals
  <2> QED
    BY <2>2, <2>3
<1>4. ASSUME NEW k \in Conn, NEW c \in Group, LeaveGroup(k, c) PROVE CallTypeOK'
  BY <1>4 DEF LeaveGroup, VoiceLeave, timers, locals
<1>5. ASSUME NEW k \in Conn, NEW d \in DM, LeaveDM(k, d) PROVE CallTypeOK'
  BY <1>5 DEF LeaveDM, Goto, voice, timers
<1>6. ASSUME NEW k \in Conn, NEW c \in Channel, NEW on \in BOOLEAN,
             MuteFrame(k, c, on)
      PROVE  CallTypeOK'
  BY <1>6 DEF MuteFrame, Goto, voice, timers
<1>7. ASSUME NEW k \in Conn, Handle(k) PROVE CallTypeOK'
  <2>1. CASE JoinCap(k)
    BY <2>1 DEF JoinCap, Goto, voice, timers, locals
  <2>2. CASE JoinEvict(k)
    BY <2>2 DEF JoinEvict, VoiceLeaveAll, Goto, timers, locals
  <2>3. CASE JoinEnter(k)
    BY <2>3 DEF JoinEnter, VoiceJoin, Goto, timers, locals
  <2>4. CASE JoinLog(k)
    <3>1. callLog' \in [DM -> {"none", "started", "ended"}]
      BY <2>4 DEF JoinLog, Post
    <3> QED
      BY <2>4, <3>1 DEF JoinLog, Goto, voice, timers, locals
  <2>5. CASE LeaveClear(k)
    BY <2>5 DEF LeaveClear, VoiceClear, Goto, timers
  <2>6. CASE LeaveLog(k)
    <3>1. callLog' \in [DM -> {"none", "started", "ended"}]
      BY <2>6 DEF LeaveLog, Post
    <3> QED
      BY <2>6, <3>1 DEF LeaveLog, Goto, voice, timers, locals
  <2>7. CASE MuteSet(k)
    BY <2>7 DEF MuteSet, VoiceSetMute, Goto, timers
  <2> QED
    BY <1>7, <2>1, <2>2, <2>3, <2>4, <2>5, <2>6, <2>7 DEF Handle
<1>8. ASSUME NEW k \in Conn, CleanUp(k) PROVE CallTypeOK'
  <2>1. CASE DropSnapshot(k)
    BY <2>1 DEF DropSnapshot, Goto, voice, timers
  <2>2. CASE DropLookupFails(k)
    BY <2>2 DEF DropLookupFails, Goto, voice, timers, locals
  <2>3. CASE DropDone(k)
    BY <2>3 DEF DropDone, Goto, voice, timers
  <2>4. ASSUME NEW d \in DM, NEW t \in Timer, DropSchedule(k, d, t)
        PROVE  CallTypeOK'
    BY <2>4 DEF DropSchedule, Stopped, voice
  <2>5. ASSUME NEW c \in Channel, DropLeave(k, c) PROVE CallTypeOK'
    BY <2>5 DEF DropLeave, VoiceLeave, timers
  <2>6. ASSUME NEW c \in Channel, DropSkip(k, c) PROVE CallTypeOK'
    BY <2>6 DEF DropSkip, voice, timers
  <2> QED
    BY <1>8, <2>1, <2>2, <2>3, <2>4, <2>5, <2>6 DEF CleanUp
<1>9. ASSUME NEW d \in DM, NEW u \in User, NEW t \in Timer, Callback(d, u, t)
      PROVE  CallTypeOK'
  <2>1. CASE Fire(d, u, t)
    BY <2>1 DEF Fire, TimerAt, voice, locals
  <2>2. CASE Expire(d, u, t)
    BY <2>2 DEF Expire, TimerAt, voice, locals
  <2>3. CASE ExpireCheck(d, u, t)
    BY <2>3 DEF ExpireCheck, TimerAt, voice, locals
  <2>4. CASE ExpireClear(d, u, t)
    BY <2>4 DEF ExpireClear, VoiceClear, TimerAt, locals
  <2>5. CASE ExpireLog(d, u, t)
    BY <2>5 DEF ExpireLog, Post, TimerAt, voice, locals
  <2> QED
    BY <1>9, <2>1, <2>2, <2>3, <2>4, <2>5 DEF Callback
<1>10. CASE UNCHANGED callVars
  BY <1>10 DEF callVars, voice, timers, locals
<1> HIDE DEF CallTypeOK, Channel
<1>11. ASSUME NEW k \in Conn, Frame(k) PROVE CallTypeOK'
  BY <1>3, <1>4, <1>5, <1>6, <1>11 DEF Frame
<1>12. CASE CallNext
  BY <1>1, <1>2, <1>7, <1>8, <1>9, <1>11, <1>12 DEF CallNext
<1> QED
  BY <1>10, <1>12

\* The variables keep their types; a camera flag belongs to a participant.
THEOREM CallTyping == CallSpec => []CallTypeOK
<1>1. CallInit => CallTypeOK
  BY ChannelAssumption DEF CallInit, CallTypeOK, Channel, PC, LogEntry, TimerState
<1>2. QED
  BY <1>1, TypeKept, PTL DEF CallSpec

-----------------------------------------------------------------------------
(* DroppedPartyCovered is inductive together with the types: what covers a *)
(* listed user without a connection is handed over by every step, from the *)
(* connection to its clean-up and from there to the grace timer.           *)

Covered(c, u) == Online(u) \/ CleaningUp(u, c) \/ TeardownPending(c, u)

\* What a step leaves alone keeps a user covered.
LEMMA CoveredStays ==
  ASSUME CallTypeOK, NEW c \in Channel, NEW u \in User, Covered(c, u),
         \A k \in Conn : pc[k] \in LivePC => pc'[k] \in LivePC,
         \A k \in Conn : pc[k] \in DropPC => pc'[k] = pc[k] /\ todo'[k] = todo[k],
         c \in DM => timer'[c][u] = timer[c][u]
  PROVE  Covered(c, u)'
BY DEF Covered, Online, CleaningUp, TeardownPending, DropPC

\* A connection's own frames and handlers keep it registered.
LEMMA HandlersKeepCovered ==
  ASSUME CallTypeOK, CallTypeOK', DroppedPartyCovered,
         NEW k \in Conn, Frame(k) \/ Handle(k)
  PROVE  DroppedPartyCovered'
<1> USE OwnerAssumption DEF LivePC, JoinPC, LeavePC, DropPC
<1> SUFFICES ASSUME NEW c \in Channel, NEW u \in User, u \in roster'[c]
             PROVE  Covered(c, u)'
  BY DEF DroppedPartyCovered, Covered, CallTypeOK
<1>1. pc[k] \in LivePC /\ pc'[k] \in LivePC /\ \A j \in Conn \ {k} : pc'[j] = pc[j]
  BY DEF CallTypeOK, Frame, Handle, Goto, JoinFrame, LeaveGroup, LeaveDM, MuteFrame,
         JoinCap, JoinEvict, JoinEnter, JoinLog, LeaveClear, LeaveLog, MuteSet
<1>2. CASE u = Owner[k]
  BY <1>1, <1>2 DEF Covered, Online
<1>3. CASE u # Owner[k]
  <2>1. u \in roster[c]
    <3>1. CASE JoinEnter(k)
      BY <1>3, <3>1 DEF JoinEnter, VoiceJoin, CallTypeOK
    <3>2. CASE JoinEvict(k)
      BY <3>2 DEF JoinEvict, VoiceLeaveAll, CallTypeOK
    <3>3. CASE LeaveClear(k)
      BY <3>3 DEF LeaveClear, VoiceClear, CallTypeOK
    <3>4. ASSUME NEW g \in Group, LeaveGroup(k, g) PROVE u \in roster[c]
      BY <3>4 DEF LeaveGroup, VoiceLeave, CallTypeOK
    <3> QED
      BY <3>1, <3>2, <3>3, <3>4
      DEF Frame, Handle, JoinFrame, LeaveDM, MuteFrame, JoinCap, JoinLog,
          LeaveLog, MuteSet, VoiceSetMute, voice
  <2>2. todo' = todo
    BY DEF Frame, Handle, JoinFrame, LeaveGroup, LeaveDM, MuteFrame,
           JoinCap, JoinEvict, JoinEnter, JoinLog, LeaveClear, LeaveLog, MuteSet,
           locals
  <2>3. c \in DM => timer'[c][u] = timer[c][u]
    <3>1. ASSUME NEW b \in Channel, JoinFrame(k, b)
          PROVE  c \in DM => timer'[c][u] = timer[c][u]
      <4>1. CASE b \in DM
        <5>1. timer' = [timer EXCEPT ![b][Owner[k]] = Stopped(b, Owner[k])]
          BY <3>1, <4>1 DEF JoinFrame
        <5> QED
          BY <1>3, <5>1 DEF CallTypeOK
      <4>2. CASE b \notin DM
        BY <3>1, <4>2 DEF JoinFrame, timers
      <4> QED
        BY <4>1, <4>2
    <3> QED
      BY <3>1
      DEF Frame, Handle, LeaveGroup, LeaveDM, MuteFrame, JoinCap, JoinEvict,
          JoinEnter, JoinLog, LeaveClear, LeaveLog, MuteSet, timers
  <2>4. Covered(c, u)
    BY <2>1 DEF DroppedPartyCovered, Covered
  <2> QED
    BY <1>1, <2>2, <2>3, <2>4, CoveredStays
<1> QED
  BY <1>2, <1>3

\* The clean-up of a lost connection hands its channels over.
LEMMA CleanUpKeepsCovered ==
  ASSUME CallTypeOK, CallTypeOK', DroppedPartyCovered, ~StoreMayFail,
         NEW k \in Conn, CleanUp(k)
  PROVE  DroppedPartyCovered'
<1> USE OwnerAssumption DEF LivePC, JoinPC, LeavePC, DropPC
<1> SUFFICES ASSUME NEW c \in Channel, NEW u \in User, u \in roster'[c]
             PROVE  Covered(c, u)'
  BY DEF DroppedPartyCovered, Covered, CallTypeOK
<1>1. CASE DropSnapshot(k)
  <2>1. Covered(c, u)
    BY <1>1 DEF DropSnapshot, voice, DroppedPartyCovered, Covered
  <2> QED
    BY <1>1, <2>1 DEF DropSnapshot, Goto, voice, timers, CallTypeOK, Covered, Online,
                      CleaningUp, TeardownPending
<1>2. CASE DropDone(k)
  <2>1. Covered(c, u)
    BY <1>2 DEF DropDone, voice, DroppedPartyCovered, Covered
  <2> QED
    BY <1>2, <2>1 DEF DropDone, Goto, voice, timers, CallTypeOK, Covered, Online,
                      CleaningUp, TeardownPending
<1>3. ASSUME NEW d \in DM, NEW t \in Timer, DropSchedule(k, d, t)
      PROVE  Covered(c, u)'
  <2>1. Covered(c, u)
    BY <1>3 DEF DropSchedule, voice, DroppedPartyCovered, Covered
  <2>2. CASE c = d /\ u = Owner[k]
    <3>1. timer'[d][Owner[k]][t] = "armed"
      BY <1>3, <2>2 DEF DropSchedule, CallTypeOK, Stopped
    <3> QED
      BY <2>2, <3>1 DEF Covered, TeardownPending
  <2>3. CASE ~(c = d /\ u = Owner[k])
    <3>1. c \in DM => timer'[c][u] = timer[c][u]
      BY <1>3, <2>3 DEF DropSchedule, CallTypeOK
    <3>2. CleaningUp(u, c) => CleaningUp(u, c)'
      BY <1>3, <2>3 DEF DropSchedule, CleaningUp, CallTypeOK
    <3>3. Online(u) => Online(u)'
      BY <1>3 DEF DropSchedule, Online
    <3> QED
      BY <2>1, <3>1, <3>2, <3>3 DEF Covered, TeardownPending
  <2> QED
    BY <2>2, <2>3
<1>4. ASSUME NEW b \in Channel, DropLeave(k, b)
      PROVE  Covered(c, u)'
  <2>1. u \in roster[c] /\ ~(c = b /\ u = Owner[k])
    BY <1>4 DEF DropLeave, VoiceLeave, CallTypeOK
  <2>2. Covered(c, u)
    BY <2>1 DEF DroppedPartyCovered, Covered
  <2>3. CleaningUp(u, c) => CleaningUp(u, c)'
    BY <1>4, <2>1 DEF DropLeave, CleaningUp, CallTypeOK
  <2> QED
    BY <1>4, <2>2, <2>3 DEF DropLeave, timers, Covered, Online, TeardownPending
<1> QED
  BY <1>1, <1>2, <1>3, <1>4, StoreAssumption
  DEF CleanUp, DropLookupFails, DropSkip

\* An expiring timer gives its user up only when the call no longer lists them.
LEMMA CallbackKeepsCovered ==
  ASSUME CallTypeOK, CallTypeOK', DroppedPartyCovered,
         NEW d \in DM, NEW v \in User, NEW t \in Timer, Callback(d, v, t)
  PROVE  DroppedPartyCovered'
<1> SUFFICES ASSUME NEW c \in Channel, NEW u \in User, u \in roster'[c]
             PROVE  Covered(c, u)'
  BY DEF DroppedPartyCovered, Covered, CallTypeOK
<1>1. pc' = pc /\ todo' = todo
  BY DEF Callback, Fire, Expire, ExpireCheck, ExpireClear, ExpireLog, locals
<1>2. u \in roster[c]
  BY DEF Callback, Fire, Expire, ExpireCheck, ExpireClear, ExpireLog, VoiceClear,
         CallTypeOK, voice
<1>3. Covered(c, u)
  BY <1>2 DEF DroppedPartyCovered, Covered
<1>4. ASSUME c \in DM, NEW s \in Timer,
             timer[c][u][s] \in {"armed", "fired", "check", "clear"}
      PROVE  timer'[c][u][s] \in {"armed", "fired", "check", "clear"}
  <2>1. CASE Fire(d, v, t)
    BY <1>4, <2>1 DEF Fire, TimerAt, CallTypeOK
  <2>2. CASE Expire(d, v, t)
    BY <1>4, <2>2 DEF Expire, TimerAt, CallTypeOK
  <2>3. CASE ExpireCheck(d, v, t)
    BY <1>2, <1>4, <2>3 DEF ExpireCheck, TimerAt, CallTypeOK
  <2>4. CASE ExpireClear(d, v, t)
    <3>1. c # d
      BY <2>4 DEF ExpireClear, VoiceClear, CallTypeOK, Channel
    <3> QED
      BY <1>4, <2>4, <3>1 DEF ExpireClear, TimerAt, CallTypeOK
  <2>5. CASE ExpireLog(d, v, t)
    BY <1>4, <2>5 DEF ExpireLog, TimerAt, CallTypeOK
  <2> QED
    BY <2>1, <2>2, <2>3, <2>4, <2>5 DEF Callback
<1> QED
  BY <1>1, <1>3, <1>4 DEF Covered, Online, CleaningUp, TeardownPending

\* Nobody is forgotten in a call as long as the database answers: the property
\* of the runs, for every number of users, tabs, channels and timers.
THEOREM NobodyForgotten == ~StoreMayFail => (CallSpec => []DroppedPartyCovered)
<1> SUFFICES ASSUME ~StoreMayFail PROVE CallSpec => []DroppedPartyCovered
  OBVIOUS
<1>1. CallInit => DroppedPartyCovered
  BY DEF CallInit, DroppedPartyCovered
<1>2. CallTypeOK /\ CallTypeOK' /\ DroppedPartyCovered /\ [CallNext]_callVars => DroppedPartyCovered'
  <2> SUFFICES ASSUME CallTypeOK, CallTypeOK', DroppedPartyCovered, [CallNext]_callVars
               PROVE  DroppedPartyCovered'
    OBVIOUS
  <2> USE OwnerAssumption DEF LivePC, JoinPC, LeavePC, DropPC
  <2>1. ASSUME NEW k \in Conn, Connect(k) PROVE DroppedPartyCovered'
    <3> SUFFICES ASSUME NEW c \in Channel, NEW u \in User, u \in roster'[c]
                 PROVE  Covered(c, u)'
      BY DEF DroppedPartyCovered, Covered, CallTypeOK
    <3>1. Covered(c, u)
      BY <2>1 DEF Connect, voice, DroppedPartyCovered, Covered
    <3> QED
      BY <2>1, <3>1, CoveredStays DEF Connect, Goto, timers, locals, CallTypeOK
  <2>2. ASSUME NEW k \in Conn, Drop(k) PROVE DroppedPartyCovered'
    <3> SUFFICES ASSUME NEW c \in Channel, NEW u \in User, u \in roster'[c]
                 PROVE  Covered(c, u)'
      BY DEF DroppedPartyCovered, Covered, CallTypeOK
    <3>1. Covered(c, u)
      BY <2>2 DEF Drop, voice, DroppedPartyCovered, Covered
    <3>2. CASE Owner[k] = u
      BY <2>2, <3>2 DEF Drop, Goto, CallTypeOK, Covered, Online, CleaningUp
    <3>3. CASE Owner[k] # u
      BY <2>2, <3>1, <3>3 DEF Drop, Goto, timers, locals, CallTypeOK, Covered,
                              Online, CleaningUp, TeardownPending
    <3> QED
      BY <3>2, <3>3
  <2>3. ASSUME NEW k \in Conn, Frame(k) \/ Handle(k) PROVE DroppedPartyCovered'
    BY <2>3, HandlersKeepCovered
  <2>4. ASSUME NEW k \in Conn, CleanUp(k) PROVE DroppedPartyCovered'
    BY <2>4, CleanUpKeepsCovered
  <2>5. ASSUME NEW d \in DM, NEW u \in User, NEW t \in Timer, Callback(d, u, t)
        PROVE  DroppedPartyCovered'
    BY <2>5, CallbackKeepsCovered
  <2>6. CASE UNCHANGED callVars
    BY <2>6 DEF callVars, voice, timers, locals, DroppedPartyCovered, Online,
                CleaningUp, TeardownPending
  <2> QED
    BY <2>1, <2>2, <2>3, <2>4, <2>5, <2>6 DEF CallNext
<1>3. QED
  BY <1>1, <1>2, CallTyping, PTL DEF CallSpec

-----------------------------------------------------------------------------
(* OneCallPerUser becomes inductive with the fact that between the two     *)
(* halves of a join, VoiceLeaveAll and VoiceJoin, the user is nowhere.     *)

BetweenHalvesNowhere ==
  \A k \in Conn : pc[k] = "joinEnter" /\ SoleConn(Owner[k]) =>
    \A c \in Channel : Owner[k] \notin roster[c]

\* Only the second half of a join lists a user.
LEMMA OnlyJoinLists ==
  ASSUME CallTypeOK, [CallNext]_callVars, NEW c \in Channel, NEW u \in User,
         u \in roster'[c], u \notin roster[c]
  PROVE  \E k \in Conn : JoinEnter(k) /\ u = Owner[k] /\ c = chan[k]
<1>1. ASSUME NEW k \in Conn, JoinEnter(k)
      PROVE  u = Owner[k] /\ c = chan[k]
  BY <1>1 DEF JoinEnter, VoiceJoin, CallTypeOK
<1>2. ASSUME NEW k \in Conn, JoinEvict(k) PROVE FALSE
  BY <1>2 DEF JoinEvict, VoiceLeaveAll, CallTypeOK
<1>3. ASSUME NEW k \in Conn, LeaveClear(k) PROVE FALSE
  BY <1>3 DEF LeaveClear, VoiceClear, CallTypeOK
<1>4. ASSUME NEW k \in Conn, NEW g \in Group, LeaveGroup(k, g) PROVE FALSE
  BY <1>4 DEF LeaveGroup, VoiceLeave, CallTypeOK
<1>5. ASSUME NEW k \in Conn, NEW b \in Channel, DropLeave(k, b) PROVE FALSE
  BY <1>5 DEF DropLeave, VoiceLeave, CallTypeOK
<1>6. ASSUME NEW d \in DM, NEW v \in User, NEW t \in Timer, Callback(d, v, t)
      PROVE  FALSE
  BY <1>6 DEF Callback, Fire, Expire, ExpireCheck, ExpireClear, ExpireLog,
              VoiceClear, CallTypeOK, voice
<1>7. ASSUME NEW k \in Conn, Connect(k) \/ Drop(k) \/ Frame(k)
      PROVE  FALSE
  BY <1>4, <1>7 DEF Connect, Drop, Frame, JoinFrame, LeaveDM, MuteFrame, voice
<1>8. ASSUME NEW k \in Conn, CleanUp(k) PROVE FALSE
  BY <1>5, <1>8 DEF CleanUp, DropSnapshot, DropLookupFails, DropDone,
                    DropSchedule, DropSkip, voice
<1>9. ASSUME NEW k \in Conn, Handle(k) PROVE JoinEnter(k)
  BY <1>2, <1>3, <1>9 DEF Handle, JoinCap, JoinLog, LeaveLog, MuteSet,
                          VoiceSetMute, voice
<1>10. ~UNCHANGED callVars
  BY DEF callVars, voice
<1> QED
  BY <1>1, <1>6, <1>7, <1>8, <1>9, <1>10 DEF CallNext

\* The gap between the halves opens with the first half.
LEMMA OnlyEvictReaches ==
  ASSUME CallTypeOK, [CallNext]_callVars, NEW k \in Conn, pc'[k] = "joinEnter"
  PROVE  pc[k] = "joinEnter" \/ JoinEvict(k)
<1> SUFFICES ASSUME pc[k] # "joinEnter" PROVE JoinEvict(k)
  OBVIOUS
<1>1. ASSUME NEW j \in Conn, Connect(j) \/ Drop(j) PROVE FALSE
  BY <1>1 DEF Connect, Drop, Goto, CallTypeOK
<1>2. ASSUME NEW j \in Conn, Frame(j) PROVE FALSE
  BY <1>2 DEF Frame, JoinFrame, LeaveGroup, LeaveDM, MuteFrame, Goto, CallTypeOK
<1>3. ASSUME NEW j \in Conn, Handle(j), ~JoinEvict(j) PROVE FALSE
  BY <1>3 DEF Handle, JoinCap, JoinEnter, JoinLog, LeaveClear, LeaveLog, MuteSet,
              Goto, CallTypeOK
<1>4. ASSUME NEW j \in Conn, CleanUp(j) PROVE FALSE
  BY <1>4 DEF CleanUp, DropSnapshot, DropLookupFails, DropDone, DropSchedule,
              DropLeave, DropSkip, Goto, CallTypeOK
<1>5. ASSUME NEW d \in DM, NEW u \in User, NEW t \in Timer, Callback(d, u, t)
      PROVE  FALSE
  BY <1>5 DEF Callback, Fire, Expire, ExpireCheck, ExpireClear, ExpireLog
<1>6. ASSUME NEW j \in Conn, JoinEvict(j) PROVE j = k
  BY <1>6 DEF JoinEvict, Goto, CallTypeOK
<1>7. ~UNCHANGED callVars
  BY DEF callVars
<1> QED
  BY <1>1, <1>2, <1>3, <1>4, <1>5, <1>6, <1>7 DEF CallNext

\* A user with one connection is in one voice channel at most.
THEOREM OneCall == CallSpec => []OneCallPerUser
<1> DEFINE CallInv == OneCallPerUser /\ BetweenHalvesNowhere
<1>1. CallInit => CallInv
  BY DEF CallInit, OneCallPerUser, BetweenHalvesNowhere, Channel
<1>2. CallTypeOK /\ CallTypeOK' /\ CallInv /\ [CallNext]_callVars => CallInv'
  <2> SUFFICES ASSUME CallTypeOK, CallTypeOK', CallInv, [CallNext]_callVars PROVE CallInv'
    OBVIOUS
  <2> USE OwnerAssumption
  <2>1. OneCallPerUser'
    <3> SUFFICES ASSUME NEW u \in User, SoleConn(u),
                        NEW b \in Channel, NEW c \in Channel,
                        u \in roster'[b], u \in roster'[c], b # c
                 PROVE  FALSE
      BY DEF OneCallPerUser, SoleConn
    <3>1. ASSUME NEW x \in Channel, NEW y \in Channel, x # y,
                 u \in roster'[x], u \notin roster[x], u \in roster'[y]
          PROVE  FALSE
      <4>1. PICK k \in Conn : JoinEnter(k) /\ u = Owner[k] /\ x = chan[k]
        BY <3>1, OnlyJoinLists
      <4>2. u \notin roster[y]
        BY <4>1 DEF BetweenHalvesNowhere, JoinEnter, Goto
      <4> QED
        BY <3>1, <4>1, <4>2 DEF JoinEnter, VoiceJoin, CallTypeOK
    <3> QED
      BY <3>1 DEF OneCallPerUser
  <2>2. BetweenHalvesNowhere'
    <3> SUFFICES ASSUME NEW k \in Conn, pc'[k] = "joinEnter", SoleConn(Owner[k]),
                        NEW c \in Channel, Owner[k] \in roster'[c]
                 PROVE  FALSE
      BY DEF BetweenHalvesNowhere, SoleConn
    <3>1. pc[k] = "joinEnter" \/ JoinEvict(k)
      BY OnlyEvictReaches
    <3>2. CASE JoinEvict(k)
      BY <3>2 DEF JoinEvict, VoiceLeaveAll, CallTypeOK
    <3>3. CASE pc[k] = "joinEnter"
      <4>1. Owner[k] \notin roster[c]
        BY <3>3 DEF BetweenHalvesNowhere
      <4>2. PICK j \in Conn : JoinEnter(j) /\ Owner[k] = Owner[j]
        BY <4>1, OnlyJoinLists
      <4>3. j = k
        BY <4>2 DEF SoleConn
      <4> QED
        BY <4>2, <4>3 DEF JoinEnter, Goto, CallTypeOK
    <3> QED
      BY <3>1, <3>2, <3>3
  <2> QED
    BY <2>1, <2>2
<1>3. QED
  BY <1>1, <1>2, CallTyping, PTL DEF CallSpec

-----------------------------------------------------------------------------
(* The behaviours without overlapping handlers. Whoever is at work is alone *)
(* and no timer callback runs beside it, so that what a handler has read    *)
(* under one lock still holds when it acts under the next.                  *)

Busy(k) == pc[k] \notin {"closed", "reading"}

\* One handler at a time, and no timer callback beside it.
Alone == \A j, k \in Conn : Busy(j) /\ Busy(k) => j = k
Still ==
  \A k \in Conn : Busy(k) =>
    \A d \in DM, u \in User, t \in Timer : timer[d][u][t] \in {"idle", "armed"}

\* The entry of a key is its only counting timer.
Counting ==
  \A d \in DM, u \in User, t \in Timer :
    timer[d][u][t] \in {"armed", "fired"} => grace[d][u] = t

Serial == Alone /\ Still /\ Counting

\* What a handler has read of a group channel's caps still holds.
Countable == \A c \in Channel : IsFiniteSet(roster[c])
RoomToJoin ==
  \A k \in Conn : pc[k] \in {"joinEvict", "joinEnter"} /\ chan[k] \in Group =>
    ~AudioFull(chan[k], Owner[k])
RoomToShow ==
  \A k \in Conn : pc[k] = "muteSet" /\ flag[k] /\ chan[k] \in Group =>
    ~VideoFull(chan[k], Owner[k])

\* Between the two halves of a join the user is nowhere, tabs or not.
Nowhere ==
  \A k \in Conn : pc[k] = "joinEnter" => \A c \in Channel : Owner[k] \notin roster[c]

\* A DM the clean-up leaves at once has still nobody else in it.
NobodyElse ==
  \A k \in Conn : pc[k] = "dropClean" =>
    \A d \in (todo[k] \cap DM) \ shared[k] : roster[d] \subseteq {Owner[k]}

\* A call of two is logged as started or about to be, and a call that ends
\* with an entry was logged as started.
StartLogged ==
  \A d \in DM : Cardinality(roster[d]) >= 2 =>
    callLog[d] = "started" \/ \E k \in Conn : pc[k] = "joinLog" /\ chan[k] = d
EndLogged ==
  \A k \in Conn :
    /\ pc[k] = "leaveClear" => chan[k] \in DM /\ (flag[k] => callLog[chan[k]] = "started")
    /\ pc[k] = "leaveLog" => /\ chan[k] \in DM /\ callLog[chan[k]] = "started"
                             /\ roster[chan[k]] = {}
TornDown ==
  \A d \in DM, u \in User, t \in Timer : timer[d][u][t] = "log" => roster[d] = {}

Held ==
  /\ Countable /\ RoomToJoin /\ RoomToShow /\ Nowhere /\ NobodyElse
  /\ AudioCap /\ VideoCap /\ OneCallEach
Logged == StartLogged /\ EndLogged /\ TornDown

LEMMA SerialSteps == SerialNext => CallNext
BY DEF SerialNext, CallNext, Elapsed, Callback

LEMMA NobodyActive ==
  ASSUME Active = {}
  PROVE  /\ \A k \in Conn : ~Busy(k)
         /\ CallTypeOK => \A d \in DM, u \in User, t \in Timer :
                        timer[d][u][t] \in {"idle", "armed"}
<1>1. \A k \in Conn : ~Busy(k)
  BY DEF Active, Busy
<1>2. ASSUME NEW d \in DM, NEW u \in User, NEW t \in Timer
      PROVE  timer[d][u][t] \in {"idle", "armed"}
  <2> DEFINE x == <<d, u, t>>
  <2>1. x \in DM \X User \X Timer /\ x[1] = d /\ x[2] = u /\ x[3] = t
    OBVIOUS
  <2> HIDE DEF x
  <2> QED
    BY <2>1 DEF Active
<1> QED
  BY <1>1, <1>2

\* A handler that is at work after a step was so before, or the step started
\* it while nobody was.
LEMMA WhoIsBusy ==
  ASSUME CallTypeOK, [SerialNext]_callVars, NEW k \in Conn, Busy(k)'
  PROVE  Busy(k) \/ (Active = {} /\ (Drop(k) \/ Frame(k)))
<1> USE DEF Busy, CallTypeOK
<1>1. ASSUME NEW j \in Conn, Connect(j) PROVE Busy(k)
  BY <1>1 DEF Connect, Goto
<1>2. ASSUME NEW j \in Conn, Handle(j) PROVE Busy(k)
  BY <1>2 DEF Handle, JoinCap, JoinEvict, JoinEnter, JoinLog, LeaveClear,
              LeaveLog, MuteSet, Goto
<1>3. ASSUME NEW j \in Conn, CleanUp(j) PROVE Busy(k)
  BY <1>3 DEF CleanUp, DropSnapshot, DropLookupFails, DropDone, DropSchedule,
              DropLeave, DropSkip, Goto
<1>4. ASSUME NEW d \in DM, NEW u \in User, NEW t \in Timer,
             Elapsed(d, u, t) \/ Fire(d, u, t)
      PROVE  Busy(k)
  BY <1>4 DEF Elapsed, Fire, Expire, ExpireCheck, ExpireClear, ExpireLog
<1>5. ASSUME NEW j \in Conn, Drop(j) \/ Frame(j), j # k PROVE Busy(k)
  BY <1>5 DEF Drop, Frame, JoinFrame, LeaveGroup, LeaveDM, MuteFrame, Goto
<1>6. CASE UNCHANGED callVars
  BY <1>6 DEF callVars
<1> QED
  BY <1>1, <1>2, <1>3, <1>4, <1>5, <1>6 DEF SerialNext

\* Serial is inductive.
LEMMA SerialStays ==
  ASSUME CallTypeOK, Serial, [SerialNext]_callVars
  PROVE  Serial'
<1> USE OwnerAssumption, TimerAssumption
<1>1. Alone'
  <2> SUFFICES ASSUME NEW j \in Conn, NEW k \in Conn, Busy(j)', Busy(k)', j # k
               PROVE  FALSE
    BY DEF Alone, Busy
  <2>1. ASSUME Active = {}, Drop(j) \/ Frame(j) PROVE FALSE
    <3>1. pc'[k] = pc[k]
      BY <2>1 DEF Drop, Frame, JoinFrame, LeaveGroup, LeaveDM, MuteFrame, Goto, CallTypeOK
    <3> QED
      BY <2>1, <3>1, NobodyActive DEF Busy
  <2>2. Busy(j)
    BY <2>1, WhoIsBusy
  <2>3. Busy(k)
    BY <2>2, NobodyActive, WhoIsBusy
  <2> QED
    BY <2>2, <2>3 DEF Serial, Alone
<1>2. ASSUME NEW d \in DM, NEW u \in User, NEW t \in Timer,
             Elapsed(d, u, t) \/ (Active = {} /\ Fire(d, u, t))
      PROVE  Still' /\ Counting'
  <2>1. pc' = pc
    BY <1>2 DEF Elapsed, Fire, Expire, ExpireCheck, ExpireClear, ExpireLog
  <2>2. \A k \in Conn : ~Busy(k)
    <3>1. CASE Elapsed(d, u, t)
      <4>1. timer[d][u][t] \notin {"idle", "armed"}
        BY <3>1 DEF Elapsed, Expire, ExpireCheck, ExpireClear, ExpireLog, TimerAt
      <4> QED
        BY <4>1 DEF Serial, Still
    <3> QED
      BY <3>1, <1>2, NobodyActive
  <2>3. Still'
    BY <2>1, <2>2 DEF Still, Busy
  <2>4. CASE Fire(d, u, t)
    BY <2>3, <2>4 DEF Fire, TimerAt, Serial, Counting, CallTypeOK
  <2>5. CASE Expire(d, u, t)
    <3>1. ASSUME NEW s \in Timer, timer'[d][u][s] \in {"armed", "fired"} PROVE FALSE
      <4>1. s # t /\ timer[d][u][s] = timer'[d][u][s]
        BY <2>5, <3>1 DEF Expire, TimerAt, CallTypeOK
      <4> QED
        BY <2>5, <3>1, <4>1 DEF Expire, TimerAt, Serial, Counting
    <3>2. \A e \in DM, v \in User : <<e, v>> # <<d, u>> =>
            timer'[e][v] = timer[e][v] /\ grace'[e][v] = grace[e][v]
      BY <2>5 DEF Expire, TimerAt, CallTypeOK
    <3> QED
      BY <2>3, <3>1, <3>2 DEF Serial, Counting
  <2>6. CASE ExpireCheck(d, u, t) \/ ExpireClear(d, u, t) \/ ExpireLog(d, u, t)
    <3>1. \E to \in {"idle", "clear", "log"} :
            timer' = [timer EXCEPT ![d][u][t] = to]
      BY <2>6 DEF ExpireCheck, ExpireClear, ExpireLog, TimerAt
    <3>2. \A e \in DM, v \in User, s \in Timer :
            timer'[e][v][s] \in {"armed", "fired"} => timer[e][v][s] = timer'[e][v][s]
      BY <3>1 DEF CallTypeOK
    <3>3. grace' = grace
      BY <2>6 DEF ExpireCheck, ExpireClear, ExpireLog
    <3> QED
      BY <2>3, <3>2, <3>3 DEF Serial, Counting
  <2> QED
    BY <1>2, <2>4, <2>5, <2>6 DEF Elapsed
<1>3. ASSUME UNCHANGED timers,
             \A k \in Conn : Busy(k)' => Busy(k) \/ Active = {}
      PROVE  Still' /\ Counting'
  BY <1>3, NobodyActive DEF timers, Serial, Still, Counting, Busy
<1>4. ASSUME NEW k \in Conn, Active = {}, Frame(k) PROVE Still' /\ Counting'
  <2>1. \A d \in DM, u \in User, t \in Timer : timer[d][u][t] \in {"idle", "armed"}
    BY <1>4, NobodyActive
  <2>2. ASSUME NEW c \in DM, JoinFrame(k, c) PROVE Still' /\ Counting'
    <3> DEFINE v == Owner[k]
    <3>0. v \in User
      OBVIOUS
    <3>1. /\ timer' = [timer EXCEPT ![c][v] = Stopped(c, v)]
          /\ grace' = [grace EXCEPT ![c][v] = NoTimer]
      BY <2>2 DEF JoinFrame
    <3> HIDE DEF v
    <3>2. \A t \in Timer : Stopped(c, v)[t] = "idle"
      BY <2>1, <3>0 DEF Stopped, Serial, Counting
    <3>3. \A t \in Timer : timer'[c][v][t] = "idle"
      BY <3>0, <3>1, <3>2 DEF CallTypeOK
    <3>4. \A d \in DM, u \in User : <<d, u>> # <<c, v>> =>
            timer'[d][u] = timer[d][u] /\ grace'[d][u] = grace[d][u]
      BY <3>0, <3>1 DEF CallTypeOK
    <3> QED
      BY <2>1, <3>3, <3>4 DEF Still, Counting, Serial
  <2>3. CASE UNCHANGED timers
    BY <1>3, <1>4, <2>3
  <2> QED
    BY <1>4, <2>2, <2>3 DEF Frame, JoinFrame, LeaveGroup, LeaveDM, MuteFrame, Channel
<1>5. ASSUME NEW k \in Conn, NEW d \in DM, NEW t \in Timer, DropSchedule(k, d, t)
      PROVE  Still' /\ Counting'
  <2> DEFINE v == Owner[k]
  <2>0. v \in User
    OBVIOUS
  <2>1. /\ timer' = [timer EXCEPT ![d][v] = [Stopped(d, v) EXCEPT ![t] = "armed"]]
        /\ grace' = [grace EXCEPT ![d][v] = t]
        /\ Busy(k)
    BY <1>5 DEF DropSchedule, Busy
  <2> HIDE DEF v
  <2>2. \A e \in DM, u \in User, s \in Timer : timer[e][u][s] \in {"idle", "armed"}
    BY <2>1 DEF Serial, Still
  <2>3. \A s \in Timer : Stopped(d, v)[s] = "idle"
    BY <2>0, <2>2 DEF Stopped, Serial, Counting
  <2>4. \A s \in Timer : timer'[d][v][s] = IF s = t THEN "armed" ELSE "idle"
    BY <2>0, <2>1, <2>3 DEF CallTypeOK, Stopped
  <2>5. grace'[d][v] = t
    BY <2>0, <2>1 DEF CallTypeOK
  <2>6. \A e \in DM, u \in User : <<e, u>> # <<d, v>> =>
          timer'[e][u] = timer[e][u] /\ grace'[e][u] = grace[e][u]
    BY <2>0, <2>1 DEF CallTypeOK
  <2> QED
    BY <2>2, <2>4, <2>5, <2>6 DEF Still, Counting, Serial
<1>6. \A k \in Conn : Busy(k)' => Busy(k) \/ Active = {}
  BY WhoIsBusy
<1>7. ASSUME NEW k \in Conn, Connect(k) \/ Handle(k) \/ Drop(k)
      PROVE  UNCHANGED timers
  BY <1>7 DEF Connect, Drop, Handle, JoinCap, JoinEvict, JoinEnter, JoinLog,
              LeaveClear, LeaveLog, MuteSet
<1>8. ASSUME NEW k \in Conn, CleanUp(k)
      PROVE  UNCHANGED timers \/ \E d \in DM, t \in Timer : DropSchedule(k, d, t)
  BY <1>8 DEF CleanUp, DropSnapshot, DropLookupFails, DropDone, DropLeave, DropSkip
<1>9. Still' /\ Counting'
  BY <1>2, <1>3, <1>4, <1>5, <1>6, <1>7, <1>8 DEF SerialNext, callVars
<1> QED
  BY <1>1, <1>9 DEF Serial

\* Only the second half of a join lists a user, and no callback runs beside it.
LEMMA OnlyJoinListsAlone ==
  ASSUME CallTypeOK, Serial, [SerialNext]_callVars, NEW c \in Channel, ~(roster'[c] \subseteq roster[c])
  PROVE  \E k \in Conn :
           /\ JoinEnter(k) /\ c = chan[k] /\ roster'[c] = roster[c] \cup {Owner[k]}
           /\ \A j \in Conn \ {k} : ~Busy(j)
           /\ \A d \in DM, u \in User, t \in Timer : timer[d][u][t] \in {"idle", "armed"}
<1>1. PICK u \in User : u \in roster'[c] /\ u \notin roster[c]
  <2>1. roster'[c] \subseteq User
    <3>1. PICK u : u \in roster'[c] /\ u \notin roster[c]
      OBVIOUS
    <3>2. CallTypeOK'
      BY SerialSteps, TypeKept
    <3> QED
      BY <3>2 DEF CallTypeOK
  <2> QED
    BY <2>1
<1>2. PICK k \in Conn : JoinEnter(k) /\ u = Owner[k] /\ c = chan[k]
  BY <1>1, OnlyJoinLists, SerialSteps
<1>3. Busy(k)
  BY <1>2 DEF JoinEnter, Goto, Busy
<1>4. roster'[c] = roster[c] \cup {Owner[k]}
  BY <1>2 DEF JoinEnter, VoiceJoin, CallTypeOK
<1> QED
  BY <1>2, <1>3, <1>4 DEF Serial, Alone, Still

\* A camera is turned on by the second half of voice.mute only.
LEMMA OnlyMuteShows ==
  ASSUME CallTypeOK, [CallNext]_callVars, NEW c \in Channel, ~(camera'[c] \subseteq camera[c])
  PROVE  \E k \in Conn : MuteSet(k) /\ flag[k] /\ c = chan[k]
                         /\ camera'[c] = camera[c] \cup {Owner[k]}
<1> USE DEF CallTypeOK
<1>0. ~UNCHANGED voice
  BY DEF voice
<1>1. ASSUME NEW k \in Conn, Connect(k) \/ Drop(k) PROVE FALSE
  BY <1>0, <1>1 DEF Connect, Drop
<1>2. ASSUME NEW k \in Conn, Frame(k) PROVE FALSE
  <2>1. ASSUME NEW b \in Group, LeaveGroup(k, b) PROVE FALSE
    BY <2>1 DEF LeaveGroup, VoiceLeave
  <2>2. ASSUME NEW c2 \in Channel, JoinFrame(k, c2) PROVE FALSE
    BY <1>0, <2>2 DEF JoinFrame
  <2>3. ASSUME NEW d \in DM, LeaveDM(k, d) PROVE FALSE
    BY <1>0, <2>3 DEF LeaveDM
  <2>4. ASSUME NEW c2 \in Channel, NEW on \in BOOLEAN, MuteFrame(k, c2, on) PROVE FALSE
    BY <1>0, <2>4 DEF MuteFrame
  <2> QED
    BY <1>2, <2>1, <2>2, <2>3, <2>4 DEF Frame
<1>3. ASSUME NEW k \in Conn, CleanUp(k) PROVE FALSE
  <2>1. ASSUME NEW b \in Channel, DropLeave(k, b) PROVE FALSE
    BY <2>1 DEF DropLeave, VoiceLeave
  <2> QED
    BY <1>0, <1>3, <2>1 DEF CleanUp, DropSnapshot, DropLookupFails, DropDone,
                            DropSchedule, DropSkip
<1>4. ASSUME NEW d \in DM, NEW u \in User, NEW t \in Timer, Callback(d, u, t)
      PROVE  FALSE
  BY <1>4 DEF Callback, Fire, Expire, ExpireCheck, ExpireClear, ExpireLog,
              VoiceClear, voice
<1>5. ASSUME NEW k \in Conn, Handle(k) PROVE MuteSet(k)
  BY <1>5 DEF Handle, JoinCap, JoinEvict, VoiceLeaveAll, JoinEnter, VoiceJoin,
              JoinLog, LeaveClear, VoiceClear, LeaveLog, voice
<1>6. PICK k \in Conn : MuteSet(k)
  BY <1>1, <1>2, <1>3, <1>4, <1>5 DEF CallNext, callVars, voice
<1> QED
  BY <1>6 DEF MuteSet, VoiceSetMute

\* A connection's own state is changed by its own steps.
LEMMA OwnSteps ==
  ASSUME CallTypeOK, [SerialNext]_callVars, NEW k \in Conn
  PROVE  \/ Connect(k) \/ Handle(k) \/ CleanUp(k)
         \/ Active = {} /\ (Drop(k) \/ Frame(k))
         \/ /\ pc'[k] = pc[k] /\ chan'[k] = chan[k] /\ flag'[k] = flag[k]
            /\ todo'[k] = todo[k] /\ shared'[k] = shared[k]
<1> USE DEF CallTypeOK
<1> DEFINE Same == /\ pc'[k] = pc[k] /\ chan'[k] = chan[k] /\ flag'[k] = flag[k]
                   /\ todo'[k] = todo[k] /\ shared'[k] = shared[k]
<1>1. ASSUME NEW j \in Conn, j # k, Connect(j) \/ Drop(j) PROVE Same
  BY <1>1 DEF Connect, Drop, Goto, locals
<1>2. ASSUME NEW j \in Conn, j # k, Frame(j) PROVE Same
  BY <1>2 DEF Frame, JoinFrame, LeaveGroup, LeaveDM, MuteFrame, Goto, locals
<1>3. ASSUME NEW j \in Conn, j # k, Handle(j) PROVE Same
  BY <1>3 DEF Handle, JoinCap, JoinEvict, JoinEnter, JoinLog, LeaveClear,
              LeaveLog, MuteSet, Goto, locals
<1>4. ASSUME NEW j \in Conn, j # k, CleanUp(j) PROVE Same
  BY <1>4 DEF CleanUp, DropSnapshot, DropLookupFails, DropDone, DropSchedule,
              DropLeave, DropSkip, Goto, locals
<1>5. ASSUME NEW d \in DM, NEW u \in User, NEW t \in Timer,
             Elapsed(d, u, t) \/ Fire(d, u, t)
      PROVE  Same
  BY <1>5 DEF Elapsed, Fire, Expire, ExpireCheck, ExpireClear, ExpireLog, locals
<1>6. CASE UNCHANGED callVars
  BY <1>6 DEF callVars, locals
<1> QED
  BY <1>1, <1>2, <1>3, <1>4, <1>5, <1>6 DEF SerialNext

\* Nobody is listed beside a handler that is not in the second half of a join.
LEMMA ListStill ==
  ASSUME CallTypeOK, Serial, [SerialNext]_callVars, NEW c \in Channel,
         NEW k \in Conn, Busy(k), pc[k] # "joinEnter" \/ pc'[k] = "joinEnter"
  PROVE  roster'[c] \subseteq roster[c]
BY OnlyJoinListsAlone DEF JoinEnter, Goto, CallTypeOK

\* Held is inductive: the caps and one call per user.
LEMMA HeldStays ==
  ASSUME CallTypeOK, Serial, Held, [SerialNext]_callVars
  PROVE  Held'
<1> USE OwnerAssumption, ChannelAssumption, CapAssumption
<1>0. CallTypeOK' /\ [CallNext]_callVars
  BY SerialSteps, TypeKept
<1>1. Countable'
  <2> SUFFICES ASSUME NEW c \in Channel PROVE IsFiniteSet(roster'[c])
    BY DEF Countable
  <2>1. IsFiniteSet(roster[c])
    BY DEF Held, Countable
  <2>2. CASE roster'[c] \subseteq roster[c]
    BY <2>1, <2>2, FS_Subset
  <2>3. CASE ~(roster'[c] \subseteq roster[c])
    BY <2>1, <2>3, OnlyJoinListsAlone, FS_AddElement
  <2> QED
    BY <2>2, <2>3
<1>2. RoomToJoin'
  <2> SUFFICES ASSUME NEW k \in Conn, pc'[k] \in {"joinEvict", "joinEnter"},
                      chan'[k] \in Group, MaxVoiceAudio > 0
               PROVE  ~(Cardinality(roster'[chan'[k]] \ {Owner[k]}) >= MaxVoiceAudio)
    BY DEF RoomToJoin, AudioFull
  <2> DEFINE c == chan[k]
             u == Owner[k]
  <2>1. /\ chan'[k] = chan[k] /\ Busy(k)
        /\ pc[k] # "joinEnter" \/ pc'[k] = "joinEnter"
        /\ ~AudioFull(c, u)
    <3>1. CASE Connect(k) \/ CleanUp(k)
      BY <3>1 DEF Connect, CleanUp, DropSnapshot, DropLookupFails, DropDone,
                  DropSchedule, DropLeave, DropSkip, Goto, CallTypeOK
    <3>2. CASE Drop(k) \/ Frame(k)
      BY <3>2 DEF Drop, Frame, JoinFrame, LeaveGroup, LeaveDM, MuteFrame, Goto,
                  CallTypeOK
    <3>3. CASE Handle(k)
      BY <3>3 DEF Handle, JoinCap, JoinEvict, JoinEnter, JoinLog, LeaveClear,
                  LeaveLog, MuteSet, Goto, CallTypeOK, locals, Busy, Held, RoomToJoin
    <3>4. CASE pc'[k] = pc[k] /\ chan'[k] = chan[k]
      BY <3>4 DEF Busy, Held, RoomToJoin
    <3> QED
      BY <3>1, <3>2, <3>3, <3>4, OwnSteps
  <2>2. c \in Channel
    BY DEF CallTypeOK
  <2> HIDE DEF c, u
  <2>3. roster'[c] \subseteq roster[c] /\ IsFiniteSet(roster[c])
    BY <2>1, <2>2, ListStill DEF Held, Countable
  <2>4. /\ IsFiniteSet(roster[c] \ {u})
        /\ roster'[c] \ {u} \subseteq roster[c] \ {u}
    BY <2>3, FS_Subset
  <2>5. Cardinality(roster'[c] \ {u}) <= Cardinality(roster[c] \ {u})
    BY <2>4, FS_Subset
  <2>6. /\ Cardinality(roster'[c] \ {u}) \in Nat
        /\ Cardinality(roster[c] \ {u}) \in Nat
    BY <2>4, FS_Subset, FS_CardinalityType
  <2>7. ~(Cardinality(roster'[c] \ {u}) >= MaxVoiceAudio)
    BY <2>1, <2>5, <2>6 DEF AudioFull
  <2> QED
    BY <2>1, <2>7 DEF c, u
<1>3. RoomToShow'
  <2> SUFFICES ASSUME NEW k \in Conn, pc'[k] = "muteSet", flag'[k],
                      chan'[k] \in Group, MaxVoiceVideo > 0
               PROVE  ~(Cardinality(camera'[chan'[k]] \ {Owner[k]}) >= MaxVoiceVideo)
    BY DEF RoomToShow, VideoFull
  <2> DEFINE c == chan'[k]
             u == Owner[k]
  <2>1. ~VideoFull(c, u) /\ camera'[c] \subseteq camera[c]
    <3>1. CASE Connect(k) \/ CleanUp(k)
      BY <3>1 DEF Connect, CleanUp, DropSnapshot, DropLookupFails, DropDone,
                  DropSchedule, DropLeave, DropSkip, Goto, CallTypeOK
    <3>2. CASE Drop(k) \/ Frame(k)
      BY <3>2 DEF Drop, Frame, JoinFrame, LeaveGroup, LeaveDM, MuteFrame, Goto,
                  CallTypeOK, voice
    <3>3. CASE Handle(k)
      BY <3>3 DEF Handle, JoinCap, JoinEvict, JoinEnter, JoinLog, LeaveClear,
                  LeaveLog, MuteSet, Goto, CallTypeOK
    <3>4. CASE pc'[k] = pc[k] /\ chan'[k] = chan[k] /\ flag'[k] = flag[k]
      <4>1. ~VideoFull(c, u) /\ Busy(k)
        BY <3>4 DEF Busy, Held, RoomToShow
      <4>2. ASSUME NEW j \in Conn, MuteSet(j) PROVE FALSE
        <5>1. j = k
          BY <4>1, <4>2 DEF MuteSet, Goto, Busy, Serial, Alone
        <5> QED
          BY <4>2, <5>1 DEF MuteSet, Goto, CallTypeOK
      <4> QED
        BY <1>0, <4>1, <4>2, OnlyMuteShows DEF Channel
    <3> QED
      BY <3>1, <3>2, <3>3, <3>4, OwnSteps
  <2>2. c \in Channel
    BY DEF Channel
  <2>3. IsFiniteSet(camera[c])
    BY <2>2, FS_Subset DEF Held, Countable, CallTypeOK
  <2> HIDE DEF c, u
  <2>4. /\ IsFiniteSet(camera[c] \ {u})
        /\ camera'[c] \ {u} \subseteq camera[c] \ {u}
    BY <2>1, <2>3, FS_Subset
  <2>5. Cardinality(camera'[c] \ {u}) <= Cardinality(camera[c] \ {u})
    BY <2>4, FS_Subset
  <2>6. /\ Cardinality(camera'[c] \ {u}) \in Nat
        /\ Cardinality(camera[c] \ {u}) \in Nat
    BY <2>4, FS_Subset, FS_CardinalityType
  <2>7. ~(Cardinality(camera'[c] \ {u}) >= MaxVoiceVideo)
    BY <2>1, <2>5, <2>6 DEF VideoFull
  <2> QED
    BY <2>7 DEF c, u
<1>4. Nowhere'
  <2> SUFFICES ASSUME NEW k \in Conn, pc'[k] = "joinEnter",
                      NEW c \in Channel, Owner[k] \in roster'[c]
               PROVE  FALSE
    BY DEF Nowhere
  <2>1. CASE JoinEvict(k)
    BY <2>1 DEF JoinEvict, VoiceLeaveAll, CallTypeOK
  <2>2. CASE pc[k] = "joinEnter"
    BY <2>2, ListStill DEF Busy, Held, Nowhere
  <2> QED
    BY <1>0, <2>1, <2>2, OnlyEvictReaches
<1>5. NobodyElse'
  <2> SUFFICES ASSUME NEW k \in Conn, pc'[k] = "dropClean",
                      NEW d \in DM, d \in todo'[k], d \notin shared'[k]
               PROVE  roster'[d] \subseteq {Owner[k]}
    BY DEF NobodyElse
  <2>1. CASE DropSnapshot(k)
    BY <2>1 DEF DropSnapshot, voice, CallTypeOK
  <2>2. CASE ~DropSnapshot(k)
    <3>1. pc[k] = "dropClean" /\ todo'[k] \subseteq todo[k] /\ shared'[k] = shared[k]
      <4>1. CASE Connect(k) \/ Handle(k)
        BY <4>1 DEF Connect, Handle, JoinCap, JoinEvict, JoinEnter, JoinLog,
                    LeaveClear, LeaveLog, MuteSet, Goto, CallTypeOK
      <4>2. CASE CleanUp(k)
        BY <2>2, <4>2 DEF CleanUp, DropLookupFails, DropDone, DropSchedule,
                          DropLeave, DropSkip, Goto, CallTypeOK
      <4>3. CASE Drop(k) \/ Frame(k)
        BY <4>3 DEF Drop, Frame, JoinFrame, LeaveGroup, LeaveDM, MuteFrame,
                    Goto, CallTypeOK
      <4> QED
        BY <4>1, <4>2, <4>3, OwnSteps
    <3>2. roster'[d] \subseteq roster[d]
      BY <3>1, ListStill DEF Busy, Channel
    <3> QED
      BY <3>1, <3>2 DEF Held, NobodyElse
  <2> QED
    BY <2>1, <2>2
<1>6. AudioCap'
  <2> SUFFICES ASSUME MaxVoiceAudio > 0, NEW g \in Group
               PROVE  Cardinality(roster'[g]) <= MaxVoiceAudio
    BY DEF AudioCap
  <2>1. /\ g \in Channel /\ IsFiniteSet(roster[g])
        /\ Cardinality(roster[g]) <= MaxVoiceAudio
    BY DEF Channel, Held, Countable, AudioCap
  <2>2. CASE roster'[g] \subseteq roster[g]
    <3>1. Cardinality(roster'[g]) <= Cardinality(roster[g])
      BY <2>1, <2>2, FS_Subset
    <3>2. Cardinality(roster'[g]) \in Nat /\ Cardinality(roster[g]) \in Nat
      BY <2>1, <2>2, FS_Subset, FS_CardinalityType
    <3> QED
      BY <2>1, <3>1, <3>2
  <2>3. CASE ~(roster'[g] \subseteq roster[g])
    <3>1. PICK k \in Conn : JoinEnter(k) /\ g = chan[k]
                            /\ roster'[g] = roster[g] \cup {Owner[k]}
      BY <2>1, <2>3, OnlyJoinListsAlone
    <3>2. Owner[k] \notin roster[g] /\ ~AudioFull(g, Owner[k])
      BY <2>1, <3>1 DEF JoinEnter, Goto, Held, Nowhere, RoomToJoin
    <3>3. roster[g] \ {Owner[k]} = roster[g]
      BY <3>2
    <3>4. Cardinality(roster'[g]) = Cardinality(roster[g]) + 1
      BY <2>1, <3>1, <3>2, FS_AddElement
    <3>5. Cardinality(roster[g]) \in Nat
      BY <2>1, FS_CardinalityType
    <3>6. ~(Cardinality(roster[g]) >= MaxVoiceAudio)
      BY <3>2, <3>3 DEF AudioFull
    <3> QED
      BY <3>4, <3>5, <3>6
  <2> QED
    BY <2>2, <2>3
<1>7. VideoCap'
  <2> SUFFICES ASSUME MaxVoiceVideo > 0, NEW g \in Group
               PROVE  Cardinality(camera'[g]) <= MaxVoiceVideo
    BY DEF VideoCap
  <2>1. /\ g \in Channel /\ IsFiniteSet(camera[g])
        /\ Cardinality(camera[g]) <= MaxVoiceVideo
    BY FS_Subset DEF Channel, Held, Countable, VideoCap, CallTypeOK
  <2>2. CASE camera'[g] \subseteq camera[g]
    <3>1. Cardinality(camera'[g]) <= Cardinality(camera[g])
      BY <2>1, <2>2, FS_Subset
    <3>2. Cardinality(camera'[g]) \in Nat /\ Cardinality(camera[g]) \in Nat
      BY <2>1, <2>2, FS_Subset, FS_CardinalityType
    <3> QED
      BY <2>1, <3>1, <3>2
  <2>3. CASE ~(camera'[g] \subseteq camera[g])
    <3>1. PICK k \in Conn : MuteSet(k) /\ flag[k] /\ g = chan[k]
                            /\ camera'[g] = camera[g] \cup {Owner[k]}
      BY <1>0, <2>1, <2>3, OnlyMuteShows
    <3>2. ~VideoFull(g, Owner[k])
      BY <3>1 DEF MuteSet, Goto, Held, RoomToShow
    <3> DEFINE rest == camera[g] \ {Owner[k]}
    <3>3. /\ IsFiniteSet(rest) /\ Owner[k] \notin rest
          /\ camera'[g] = rest \cup {Owner[k]}
      BY <2>1, <3>1, FS_Subset
    <3>4. ~(Cardinality(rest) >= MaxVoiceVideo)
      BY <3>2 DEF VideoFull
    <3> HIDE DEF rest
    <3>5. Cardinality(camera'[g]) = Cardinality(rest) + 1 /\ Cardinality(rest) \in Nat
      BY <3>3, FS_AddElement, FS_CardinalityType
    <3> QED
      BY <3>4, <3>5
  <2> QED
    BY <2>2, <2>3
<1>8. OneCallEach'
  <2> SUFFICES ASSUME NEW u \in User, NEW b \in Channel, NEW c \in Channel,
                      u \in roster'[b], u \in roster'[c], b # c
               PROVE  FALSE
    BY DEF OneCallEach
  <2>1. ASSUME NEW x \in Channel, NEW y \in Channel, x # y,
               u \in roster'[x], u \notin roster[x], u \in roster'[y]
        PROVE  FALSE
    <3>1. PICK k \in Conn : JoinEnter(k) /\ u = Owner[k] /\ x = chan[k]
      BY <1>0, <2>1, OnlyJoinLists
    <3>2. u \notin roster[y]
      BY <3>1 DEF Held, Nowhere, JoinEnter, Goto
    <3> QED
      BY <2>1, <3>1, <3>2 DEF JoinEnter, VoiceJoin, CallTypeOK
  <2> QED
    BY <2>1 DEF Held, OneCallEach
<1> QED
  BY <1>1, <1>2, <1>3, <1>4, <1>5, <1>6, <1>7, <1>8 DEF Held

\* The only steps that write anything but "started" to a call's log.
LEMMA OnlyEndsUnlog ==
  ASSUME CallTypeOK, [SerialNext]_callVars, NEW d \in DM,
         callLog[d] = "started", callLog'[d] # "started"
  PROVE  \/ \E k \in Conn : LeaveLog(k) /\ chan[k] = d
         \/ \E u \in User, t \in Timer : ExpireLog(d, u, t)
<1> USE DEF CallTypeOK
<1>1. ASSUME NEW k \in Conn, Connect(k) \/ Drop(k) \/ Frame(k) PROVE FALSE
  BY <1>1 DEF Connect, Drop, Frame, JoinFrame, LeaveGroup, LeaveDM, MuteFrame
<1>2. ASSUME NEW k \in Conn, CleanUp(k) PROVE FALSE
  BY <1>2 DEF CleanUp, DropSnapshot, DropLookupFails, DropDone, DropSchedule,
              DropLeave, DropSkip
<1>3. ASSUME NEW k \in Conn, Handle(k) PROVE LeaveLog(k) /\ chan[k] = d
  <2>1. CASE LeaveLog(k)
    BY <2>1 DEF LeaveLog, Post
  <2>2. CASE JoinLog(k)
    BY <2>2 DEF JoinLog, Post
  <2> QED
    BY <1>3, <2>1, <2>2 DEF Handle, JoinCap, JoinEvict, JoinEnter, LeaveClear, MuteSet
<1>4. ASSUME NEW e \in DM, NEW u \in User, NEW t \in Timer,
             Elapsed(e, u, t) \/ Fire(e, u, t)
      PROVE  ExpireLog(e, u, t) /\ e = d
  <2>1. CASE ExpireLog(e, u, t)
    BY <2>1 DEF ExpireLog, Post
  <2> QED
    BY <1>4, <2>1 DEF Elapsed, Fire, Expire, ExpireCheck, ExpireClear
<1>5. CASE UNCHANGED callVars
  BY <1>5 DEF callVars
<1> QED
  BY <1>1, <1>2, <1>3, <1>4, <1>5 DEF SerialNext

\* Logged is inductive: what the log of a DM says of its call.
LEMMA LoggedStays ==
  ASSUME CallTypeOK, Serial, Held, Logged, [SerialNext]_callVars
  PROVE  Logged'
<1> USE OwnerAssumption, ChannelAssumption
<1>0. CallTypeOK' /\ [CallNext]_callVars
  BY SerialSteps, TypeKept
<1>1. ASSUME NEW k \in Conn, Busy(k), pc[k] # "leaveLog",
             NEW d \in DM, callLog[d] = "started"
      PROVE  callLog'[d] = "started"
  <2>1. ASSUME NEW j \in Conn, LeaveLog(j) PROVE FALSE
    BY <1>1, <2>1 DEF LeaveLog, Goto, Busy, Serial, Alone
  <2>2. ASSUME NEW u \in User, NEW t \in Timer, ExpireLog(d, u, t) PROVE FALSE
    BY <1>1, <2>2 DEF ExpireLog, TimerAt, Serial, Still
  <2> QED
    BY <1>1, <2>1, <2>2, OnlyEndsUnlog
<1>2. StartLogged'
  <2> SUFFICES ASSUME NEW d \in DM, Cardinality(roster'[d]) >= 2
               PROVE  callLog'[d] = "started"
                      \/ \E k \in Conn : pc'[k] = "joinLog" /\ chan'[k] = d
    BY DEF StartLogged
  <2>1. d \in Channel /\ IsFiniteSet(roster[d])
    BY DEF Channel, Held, Countable
  <2>2. CASE roster'[d] \subseteq roster[d]
    <3>1. Cardinality(roster[d]) >= 2
      <4>1. Cardinality(roster'[d]) <= Cardinality(roster[d])
        BY <2>1, <2>2, FS_Subset
      <4>2. Cardinality(roster'[d]) \in Nat /\ Cardinality(roster[d]) \in Nat
        BY <2>1, <2>2, FS_Subset, FS_CardinalityType
      <4> QED
        BY <4>1, <4>2
    <3>2. roster[d] # {}
      BY <3>1, FS_EmptySet
    <3>3. CASE callLog[d] = "started"
      <4>1. ASSUME NEW k \in Conn, LeaveLog(k), chan[k] = d PROVE FALSE
        BY <3>2, <4>1 DEF LeaveLog, Goto, Logged, EndLogged
      <4>2. ASSUME NEW u \in User, NEW t \in Timer, ExpireLog(d, u, t) PROVE FALSE
        BY <3>2, <4>2 DEF ExpireLog, TimerAt, Logged, TornDown
      <4> QED
        BY <3>3, <4>1, <4>2, OnlyEndsUnlog
    <3>4. ASSUME NEW k \in Conn, pc[k] = "joinLog", chan[k] = d
          PROVE  callLog'[d] = "started" \/ (pc'[k] = "joinLog" /\ chan'[k] = d)
      <4>1. CASE JoinLog(k)
        BY <3>4, <4>1 DEF JoinLog, Post, CallTypeOK
      <4>2. CASE Connect(k) \/ CleanUp(k)
        BY <3>4, <4>2 DEF Connect, CleanUp, DropSnapshot, DropLookupFails, DropDone,
                          DropSchedule, DropLeave, DropSkip, Goto
      <4>3. CASE Drop(k) \/ Frame(k)
        BY <3>4, <4>3 DEF Drop, Frame, JoinFrame, LeaveGroup, LeaveDM, MuteFrame, Goto
      <4>4. CASE Handle(k) /\ ~JoinLog(k)
        BY <3>4, <4>4 DEF Handle, JoinCap, JoinEvict, JoinEnter, LeaveClear,
                          LeaveLog, MuteSet, Goto
      <4> QED
        BY <3>4, <4>1, <4>2, <4>3, <4>4, OwnSteps
    <3> QED
      BY <3>1, <3>3, <3>4 DEF Logged, StartLogged
  <2>3. CASE ~(roster'[d] \subseteq roster[d])
    <3>1. PICK k \in Conn : /\ JoinEnter(k) /\ d = chan[k]
                            /\ roster'[d] = roster[d] \cup {Owner[k]}
                            /\ \A j \in Conn \ {k} : ~Busy(j)
      BY <2>1, <2>3, OnlyJoinListsAlone
    <3>2. Owner[k] \notin roster[d] /\ pc[k] = "joinEnter" /\ UNCHANGED <<callLog, chan>>
      BY <2>1, <3>1 DEF JoinEnter, Goto, Held, Nowhere, locals
    <3>3. /\ Cardinality(roster'[d]) = Cardinality(roster[d]) + 1
          /\ Cardinality(roster[d]) \in Nat
      BY <2>1, <3>1, <3>2, FS_AddElement, FS_CardinalityType
    <3>4. CASE Cardinality(roster'[d]) = 2
      BY <3>1, <3>2, <3>4 DEF JoinEnter, Goto, CallTypeOK
    <3>5. CASE Cardinality(roster'[d]) # 2
      <4>1. Cardinality(roster[d]) >= 2
        BY <3>3, <3>5
      <4>2. \A j \in Conn : pc[j] # "joinLog"
        BY <3>1, <3>2 DEF Busy
      <4> QED
        BY <3>2, <4>1, <4>2 DEF Logged, StartLogged
    <3> QED
      BY <3>4, <3>5
  <2> QED
    BY <2>2, <2>3
<1>3. ASSUME NEW k \in Conn, pc'[k] = "leaveClear"
      PROVE  chan'[k] \in DM /\ (flag'[k] => callLog'[chan'[k]] = "started")
  <2>1. CASE Connect(k) \/ CleanUp(k)
    BY <1>3, <2>1 DEF Connect, CleanUp, DropSnapshot, DropLookupFails, DropDone,
                      DropSchedule, DropLeave, DropSkip, Goto, CallTypeOK
  <2>2. CASE Handle(k)
    BY <1>3, <2>2 DEF Handle, JoinCap, JoinEvict, JoinEnter, JoinLog, LeaveClear,
                      LeaveLog, MuteSet, Goto, CallTypeOK
  <2>3. CASE Active = {} /\ (Drop(k) \/ Frame(k))
    <3>1. PICK d \in DM : LeaveDM(k, d)
      BY <1>3, <2>3 DEF Drop, Frame, JoinFrame, LeaveGroup, LeaveDM, MuteFrame,
                        Goto, CallTypeOK
    <3>2. \A j \in Conn : pc[j] # "joinLog"
      BY <2>3, NobodyActive DEF Busy
    <3>3. /\ chan'[k] = d /\ callLog' = callLog
          /\ flag'[k] <=> Cardinality(roster[d]) >= 2
      BY <3>1 DEF LeaveDM, CallTypeOK
    <3> QED
      BY <3>2, <3>3 DEF Logged, StartLogged
  <2>4. CASE pc'[k] = pc[k] /\ chan'[k] = chan[k] /\ flag'[k] = flag[k]
    BY <1>1, <1>3, <2>4 DEF Logged, EndLogged, Busy
  <2> QED
    BY <2>1, <2>2, <2>3, <2>4, OwnSteps
<1>4. ASSUME NEW k \in Conn, pc'[k] = "leaveLog"
      PROVE  chan'[k] \in DM /\ callLog'[chan'[k]] = "started" /\ roster'[chan'[k]] = {}
  <2>1. CASE Connect(k) \/ CleanUp(k)
    BY <1>4, <2>1 DEF Connect, CleanUp, DropSnapshot, DropLookupFails, DropDone,
                      DropSchedule, DropLeave, DropSkip, Goto, CallTypeOK
  <2>2. CASE Drop(k) \/ Frame(k)
    BY <1>4, <2>2 DEF Drop, Frame, JoinFrame, LeaveGroup, LeaveDM, MuteFrame, Goto,
                      CallTypeOK
  <2>3. CASE Handle(k)
    <3>1. LeaveClear(k)
      BY <1>4, <2>3 DEF Handle, JoinCap, JoinEvict, JoinEnter, JoinLog, LeaveLog,
                        MuteSet, Goto, CallTypeOK
    <3>2. flag[k] /\ pc[k] = "leaveClear" /\ chan'[k] = chan[k] /\ callLog' = callLog
      BY <1>4, <3>1 DEF LeaveClear, Goto, CallTypeOK
    <3>3. roster'[chan[k]] = {}
      BY <3>1 DEF LeaveClear, VoiceClear, CallTypeOK
    <3> QED
      BY <3>2, <3>3 DEF Logged, EndLogged
  <2>4. CASE pc'[k] = pc[k] /\ chan'[k] = chan[k]
    <3>1. /\ chan[k] \in DM /\ callLog[chan[k]] = "started" /\ roster[chan[k]] = {}
          /\ pc[k] = "leaveLog" /\ Busy(k)
      BY <1>4, <2>4 DEF Logged, EndLogged, Busy
    <3>2. roster'[chan[k]] = {}
      BY <3>1, ListStill DEF Channel
    <3>3. ASSUME NEW j \in Conn, LeaveLog(j) PROVE FALSE
      <4>1. j = k
        BY <3>1, <3>3 DEF LeaveLog, Goto, Busy, Serial, Alone
      <4> QED
        BY <1>4, <3>3, <4>1 DEF LeaveLog, Goto, CallTypeOK
    <3>4. ASSUME NEW u \in User, NEW t \in Timer, ExpireLog(chan[k], u, t) PROVE FALSE
      BY <3>1, <3>4 DEF ExpireLog, TimerAt, Serial, Still
    <3>5. callLog'[chan[k]] = "started"
      BY <3>1, <3>3, <3>4, OnlyEndsUnlog
    <3> QED
      BY <2>4, <3>1, <3>2, <3>5
  <2> QED
    BY <2>1, <2>2, <2>3, <2>4, OwnSteps
<1>5. EndLogged'
  BY <1>3, <1>4 DEF EndLogged
<1>6. TornDown'
  <2> SUFFICES ASSUME NEW d \in DM, NEW u \in User, NEW t \in Timer,
                      timer'[d][u][t] = "log"
               PROVE  roster'[d] = {}
    BY DEF TornDown
  <2>1. CASE timer[d][u][t] = "log"
    <3>1. roster[d] = {} /\ d \in Channel
      BY <2>1 DEF Logged, TornDown, Channel
    <3>2. roster'[d] \subseteq roster[d]
      BY <2>1, <3>1, OnlyJoinListsAlone
    <3> QED
      BY <3>1, <3>2
  <2>2. CASE timer[d][u][t] # "log"
    <3>1. ASSUME NEW k \in Conn, NEW c \in Channel, JoinFrame(k, c) PROVE FALSE
      <4> DEFINE v == Owner[k]
      <4>0. v \in User
        OBVIOUS
      <4>1. c \in DM /\ timer' = [timer EXCEPT ![c][v] = Stopped(c, v)]
        BY <2>2, <3>1 DEF JoinFrame, timers
      <4> HIDE DEF v
      <4> QED
        BY <2>2, <4>0, <4>1 DEF Stopped, CallTypeOK
    <3>2. ASSUME NEW k \in Conn, NEW e \in DM, NEW s \in Timer, DropSchedule(k, e, s)
          PROVE  FALSE
      <4> DEFINE v == Owner[k]
      <4>0. v \in User
        OBVIOUS
      <4>1. timer' = [timer EXCEPT ![e][v] = [Stopped(e, v) EXCEPT ![s] = "armed"]]
        BY <3>2 DEF DropSchedule
      <4> HIDE DEF v
      <4> QED
        BY <2>2, <4>0, <4>1 DEF Stopped, CallTypeOK
    <3>3. timer' # timer
      BY <2>2
    <3>4. ASSUME NEW k \in Conn, Connect(k) \/ Drop(k) \/ Frame(k) PROVE FALSE
      BY <3>1, <3>3, <3>4 DEF Connect, Drop, Frame, LeaveGroup, LeaveDM, MuteFrame,
                              timers
    <3>5. ASSUME NEW k \in Conn, Handle(k) PROVE FALSE
      BY <3>3, <3>5 DEF Handle, JoinCap, JoinEvict, JoinEnter, JoinLog, LeaveClear,
                        LeaveLog, MuteSet, timers
    <3>6. ASSUME NEW k \in Conn, CleanUp(k) PROVE FALSE
      BY <3>2, <3>3, <3>6 DEF CleanUp, DropSnapshot, DropLookupFails, DropDone,
                              DropLeave, DropSkip, timers
    <3>7. ASSUME NEW e \in DM, NEW v \in User, NEW s \in Timer,
                 Elapsed(e, v, s) \/ Fire(e, v, s)
          PROVE  roster'[d] = {}
      <4>1. CASE ExpireClear(e, v, s)
        <5>1. e = d
          BY <2>2, <4>1 DEF ExpireClear, TimerAt, CallTypeOK
        <5> QED
          BY <4>1, <5>1 DEF ExpireClear, VoiceClear, CallTypeOK, Channel
      <4>2. CASE ~ExpireClear(e, v, s)
        <5>1. \E to \in TimerState \ {"log"} : timer' = [timer EXCEPT ![e][v][s] = to]
          BY <3>7, <4>2 DEF Elapsed, Fire, Expire, ExpireCheck, ExpireLog, TimerAt,
                            TimerState
        <5> QED
          BY <2>2, <5>1 DEF CallTypeOK
      <4> QED
        BY <4>1, <4>2
    <3> QED
      BY <3>3, <3>4, <3>5, <3>6, <3>7 DEF SerialNext, callVars, timers
  <2> QED
    BY <2>1, <2>2
<1> QED
  BY <1>2, <1>5, <1>6 DEF Logged

LEMMA SerialTyping == SerialSpec => []CallTypeOK
<1>1. CallInit => CallTypeOK
  BY ChannelAssumption DEF CallInit, CallTypeOK, Channel, PC, LogEntry, TimerState
<1>2. CallTypeOK /\ [SerialNext]_callVars => CallTypeOK'
  BY SerialSteps, TypeKept
<1> QED
  BY <1>1, <1>2, PTL DEF SerialSpec

LEMMA SerialInvariant == SerialSpec => [](Serial /\ Held /\ Logged)
<1>1. CallInit => Serial /\ Held /\ Logged
  <2> SUFFICES ASSUME CallInit PROVE Serial /\ Held /\ Logged
    OBVIOUS
  <2>1. Serial
    BY DEF CallInit, Serial, Alone, Still, Counting, Busy
  <2>2. Countable
    BY FS_EmptySet DEF CallInit, Countable, Channel
  <2>3. AudioCap /\ VideoCap
    BY FS_EmptySet, CapAssumption DEF CallInit, AudioCap, VideoCap, Channel
  <2>4. RoomToJoin /\ RoomToShow /\ Nowhere /\ NobodyElse /\ OneCallEach
    BY DEF CallInit, RoomToJoin, RoomToShow, Nowhere, NobodyElse, OneCallEach
  <2>5. StartLogged
    BY FS_EmptySet DEF CallInit, StartLogged, Channel
  <2>6. EndLogged /\ TornDown
    BY DEF CallInit, EndLogged, TornDown
  <2> QED
    BY <2>1, <2>2, <2>3, <2>4, <2>5, <2>6 DEF Held, Logged
<1>2. CallTypeOK /\ Serial /\ Held /\ Logged /\ [SerialNext]_callVars
        => (Serial /\ Held /\ Logged)'
  BY SerialStays, HeldStays, LoggedStays
<1> QED
  BY <1>1, <1>2, SerialTyping, PTL DEF SerialSpec

\* As long as no handler overlaps another, the audio and video caps of group
\* channels hold and no user is in two voice channels, whatever the caps and
\* however many tabs a user opens (voice.join, voice.mute, VoiceLeaveAll).
THEOREM CapsHold == SerialSpec => []RosterHeld
<1>1. Held => RosterHeld
  BY DEF Held, RosterHeld
<1> QED
  BY <1>1, SerialInvariant, PTL

\* As long as no handler overlaps another, a lost connection takes nobody out
\* of a DM call both parties are in, re-announcing the call leaves no timer of
\* the user counting, and the end of a call is logged only after its start
\* (cleanupVoiceForUser, cancelDMTeardown, endDMVoiceCall).
THEOREM CallsLast == SerialSpec => CallHeld
<1> DEFINE Step == \A k \in Conn :
      (\A d \in DM : DropSpares(k, d)) /\ CancelStops(k) /\ EndsStarted(k)
<1>1. CallTypeOK /\ Serial /\ Held /\ Logged /\ [SerialNext]_callVars => [Step]_callVars
  <2> SUFFICES ASSUME CallTypeOK, Serial, Held, Logged, [SerialNext]_callVars, NEW k \in Conn
               PROVE  (\A d \in DM : DropSpares(k, d)) /\ CancelStops(k) /\ EndsStarted(k)
    OBVIOUS
  <2> USE OwnerAssumption, ChannelAssumption
  <2>1. ASSUME NEW d \in DM, pc[k] = "dropClean", todo'[k] # todo[k],
               Cardinality(roster[d]) = 2
        PROVE  roster'[d] = roster[d]
    <3>1. CleanUp(k)
      BY <2>1, OwnSteps DEF Connect, Drop, Goto, Frame, JoinFrame, LeaveGroup, LeaveDM,
                            MuteFrame, Handle, JoinCap, JoinEvict, JoinEnter, JoinLog,
                            LeaveClear, LeaveLog, MuteSet
    <3>2. ASSUME NEW c \in Channel, DropLeave(k, c) PROVE c # d
      <4>1. SUFFICES ASSUME c = d PROVE FALSE
        OBVIOUS
      <4>2. roster[d] \subseteq {Owner[k]}
        BY <2>1, <3>2, <4>1 DEF DropLeave, Held, NobodyElse
      <4>3. Cardinality({Owner[k]}) = 1 /\ IsFiniteSet({Owner[k]})
        BY FS_Singleton
      <4>4. Cardinality(roster[d]) <= 1
        BY <4>2, <4>3, FS_Subset
      <4> QED
        BY <2>1, <4>4
    <3>3. ASSUME NEW c \in Channel, DropLeave(k, c) PROVE roster'[d] = roster[d]
      BY <3>2, <3>3 DEF DropLeave, VoiceLeave, CallTypeOK, Channel
    <3> QED
      BY <2>1, <3>1, <3>3 DEF CleanUp, DropSnapshot, DropLookupFails, DropDone,
                              DropSchedule, DropSkip, Goto, voice
  <2>2. ASSUME pc[k] = "reading", pc'[k] = "joinEvict", NEW t \in Timer
        PROVE  timer'[chan'[k]][Owner[k]][t] # "armed"
    <3>1. PICK c \in DM : JoinFrame(k, c)
      BY <2>2, OwnSteps DEF Connect, Drop, Goto, Frame, JoinFrame, LeaveGroup, LeaveDM,
                            MuteFrame, Handle, JoinCap, JoinEvict, JoinEnter, JoinLog,
                            LeaveClear, LeaveLog, MuteSet, CleanUp, DropSnapshot,
                            DropLookupFails, DropDone, DropSchedule, DropLeave,
                            DropSkip, CallTypeOK, Channel
    <3> DEFINE v == Owner[k]
    <3>2. v \in User
      OBVIOUS
    <3>3. chan'[k] = c /\ timer' = [timer EXCEPT ![c][v] = Stopped(c, v)]
      BY <3>1 DEF JoinFrame, CallTypeOK
    <3> HIDE DEF v
    <3>4. Stopped(c, v)[t] # "armed"
      BY <3>2 DEF Stopped, Serial, Counting
    <3>5. timer'[c][v][t] # "armed"
      BY <3>2, <3>3, <3>4 DEF CallTypeOK
    <3> QED
      BY <3>3, <3>5 DEF v
  <2>3. EndsStarted(k)
    BY DEF EndsStarted, Logged, EndLogged
  <2> QED
    BY <2>1, <2>2, <2>3 DEF DropSpares, CancelStops
<1> QED
  BY <1>1, SerialTyping, SerialInvariant, PTL DEF SerialSpec, CallHeld
=============================================================================
