------------------------------ MODULE Accounts ------------------------------
(***************************************************************************)
(* Accounts: users, invitations, magic links and sessions in the store,    *)
(* the handlers that change them, the first start on an empty install and  *)
(* the command line's -create-admin.                                       *)
(*                                                                         *)
(* A handler is a chain of SQL statements, each one step; only signing up  *)
(* puts two of them into a transaction, which other statements wait for.   *)
(* A handler ends at any point when its client goes away (its context is   *)
(* cancelled), when the store fails, or when the server crashes.           *)
(*                                                                         *)
(* Abstracted: a moderator is a member here; a password is known or not    *)
(* set; the sessions of a user are one; requireRole is one step, not one   *)
(* for the session and one for its user; links and invitations may expire  *)
(* at any time, so any may be refused. Left out: profiles, bots, read      *)
(* cursors and the broadcast of what changed.                              *)
(***************************************************************************)
EXTENDS Naturals

CONSTANTS
  Name,        \* usernames
  Boot,        \* the name for the first admin of an empty install
  Founder,     \* admins an older install may start with
  Invite,      \* invitations that can be issued
  Link,        \* magic links that can be issued
  Req,         \* bound: requests
  MaxCrashes,  \* bound: crashes of the server
  None

ASSUME NameAssumption == Boot \in Name /\ Founder \subseteq Name /\ None \notin Name
ASSUME KeyAssumption == None \notin Invite \cup Link
ASSUME CrashAssumption == MaxCrashes \in Nat

VARIABLES
  users,        \* name -> its row, or None
  invites,      \* invitation -> [state, by]: by whom it was redeemed
  links,        \* magic link -> [state, by]: whose it is
  sessions,     \* users with a live session
  job,          \* request -> its handler
  server,       \* down, the stages of its start, up
  crashes,
  raced,        \* ghost: two removals of an admin have overlapped
  interrupted   \* ghost: a password or first link was not stored after all

store == <<users, invites, links, sessions>>
ghosts == <<raced, interrupted>>
vars == <<store, job, server, crashes, ghosts>>

Rows == [admin : BOOLEAN, active : BOOLEAN, password : BOOLEAN]
ASSUME RowAssumption == None \notin Rows
AdminOps == {"invite", "revoke", "link", "role", "active"}
Op == {"create", "signup", "password", "login", "logout"} \cup AdminOps
\* The stages of a handler, each named for the step it takes next.
Stage == {"free", "start", "mark", "commit", "store", "verify", "session", "work",
          "count", "write", "mint", "done"}
Jobs == [op : Op, at : Stage, by : Name \cup {None}, name : Name \cup {None},
         key : Invite \cup Link \cup {None},
         arg : BOOLEAN,  \* to be an admin, to be active
         ok : BOOLEAN]   \* it redeemed its invitation or spent its link
FreeJob == [op |-> "login", at |-> "free", by |-> None, name |-> None, key |-> None,
            arg |-> FALSE, ok |-> FALSE]

TypeOK ==
  /\ users \in [Name -> Rows \cup {None}]
  /\ invites \in [Invite -> [state : {"none", "open", "used", "gone"}, by : Name \cup {None}]]
  /\ links \in [Link -> [state : {"none", "open", "used"}, by : Name \cup {None}]]
  /\ sessions \subseteq {n \in Name : users[n] # None}
  /\ job \in [Req -> Jobs]
  /\ server \in {"down", "count", "create", "mint", "up"}
  /\ crashes \in 0..MaxCrashes
  /\ raced \in BOOLEAN /\ interrupted \in BOOLEAN

Account(admin, password) == [admin |-> admin, active |-> TRUE, password |-> password]

\* An install that is empty or has some of its founders, logged in.
Init ==
  /\ \E F \in SUBSET Founder :
       /\ users = [n \in Name |-> IF n \in F THEN Account(TRUE, TRUE) ELSE None]
       /\ sessions = F
  /\ invites = [i \in Invite |-> [state |-> "none", by |-> None]]
  /\ links = [l \in Link |-> [state |-> "none", by |-> None]]
  /\ job = [r \in Req |-> FreeJob]
  /\ server = "down" /\ crashes = 0
  /\ raced = FALSE /\ interrupted = FALSE

-----------------------------------------------------------------------------
ActiveAdmin(n) == users[n] # None /\ users[n].admin /\ users[n].active
HasAdmin == \E n \in Name : ActiveAdmin(n)

At(r, ops, stage) == job[r].op \in ops /\ job[r].at = stage
Go(r, stage) == job' = [job EXCEPT ![r].at = stage]
Running(r) == job[r].at \notin {"free", "done"}

\* A transaction has inserted the name, or has the invitation's row locked.
NameHeld(n) ==
  \E r \in Req : job[r].op = "signup" /\ job[r].at \in {"mark", "commit"} /\ job[r].name = n
RowHeld(i) == \E r \in Req : At(r, {"signup"}, "commit") /\ job[r].key = i

-----------------------------------------------------------------------------
(* The start of the server (maybeBootstrap).                               *)

Start ==
  /\ server = "down" /\ server' = "count"
  /\ UNCHANGED <<store, job, crashes, ghosts>>

\* CountAdmins; a failure ends the bootstrap, not the start.
BootCount ==
  /\ server = "count"
  /\ server' \in {"up"} \cup IF HasAdmin THEN {} ELSE {"create"}
  /\ UNCHANGED <<store, job, crashes, ghosts>>

\* CreateUser; a taken name ends the bootstrap.
BootCreate ==
  /\ server = "create"
  /\ IF users[Boot] = None
       THEN /\ users' = [users EXCEPT ![Boot] = Account(TRUE, FALSE)]
            /\ server' = "mint"
       ELSE server' = "up" /\ UNCHANGED users
  /\ UNCHANGED <<invites, links, sessions, job, crashes, ghosts>>

NewLink(l, n) ==
  /\ links[l].state = "none"
  /\ links' = [links EXCEPT ![l] = [state |-> "open", by |-> n]]

\* mintSetPasswordLink, which may fail.
BootMint ==
  /\ server = "mint" /\ server' = "up"
  /\ \/ (\E l \in Link : NewLink(l, Boot)) /\ UNCHANGED interrupted
     \/ interrupted' = TRUE /\ UNCHANGED links
  /\ UNCHANGED <<users, invites, sessions, job, crashes, raced>>

\* What is left of a handler: which invitation or link it used, if any.
Ended(r) == IF job[r].ok THEN [job[r] EXCEPT !.at = "done"] ELSE [FreeJob EXCEPT !.at = "done"]

\* If the handler ends here it leaves a user with neither password nor link.
Halfway(r) ==
  \/ At(r, {"password"}, "store") /\ ~users[job[r].name].password
  \/ At(r, {"create"}, "mint")

ByServer(r) == Running(r) /\ job[r].op # "create"

\* The server dies with all its handlers; open transactions are rolled back.
Crash ==
  /\ server # "down" /\ crashes < MaxCrashes
  /\ crashes' = crashes + 1 /\ server' = "down"
  /\ job' = [r \in Req |-> IF ByServer(r) THEN Ended(r) ELSE job[r]]
  /\ interrupted' = (interrupted \/ server = "mint"
                       \/ \E r \in Req : ByServer(r) /\ Halfway(r))
  /\ UNCHANGED <<store, raced>>

-----------------------------------------------------------------------------
(* Requests.                                                               *)

\* Who may be asking, about whom, with what, and for what.
By(op) == IF op \in AdminOps \cup {"logout"} THEN sessions ELSE {None}
About(op) ==
  CASE op \in {"create", "signup", "login"} -> Name
    [] op \in {"link", "role", "active"} -> {n \in Name : users[n] # None}
    [] OTHER -> {None}
With(op) ==
  CASE op \in {"signup", "revoke"} -> {i \in Invite : invites[i].state # "none"}
    [] op = "password" -> {l \in Link : links[l].state # "none"}
    [] OTHER -> {None}
For(op) == IF op \in {"role", "active"} THEN BOOLEAN ELSE {FALSE}

Request(r, op) ==
  /\ job[r].at = "free" /\ (server = "up" \/ op = "create")
  /\ \E by \in By(op), name \in About(op), key \in With(op), arg \in For(op) :
       job' = [job EXCEPT ![r] = [op |-> op, at |-> "start", by |-> by, name |-> name,
                                  key |-> key, arg |-> arg, ok |-> FALSE]]
  /\ UNCHANGED <<store, server, crashes, ghosts>>

\* The handler ends: refused, or with its work done.
Reply(r) == job' = [job EXCEPT ![r] = Ended(r)]
Refuse(r) == Reply(r) /\ UNCHANGED <<store, server, crashes, ghosts>>

\* The client goes away or a statement fails.
Abort(r) ==
  /\ Running(r) /\ Reply(r)
  /\ interrupted' = (interrupted \/ Halfway(r))
  /\ UNCHANGED <<store, server, crashes, raced>>

-----------------------------------------------------------------------------
(* Signing up: RedeemInvitation, a transaction.                            *)

\* BEGIN, INSERT INTO users: waits for an open insert of the name, 409 for a
\* committed one.
Insert(r) ==
  /\ At(r, {"signup"}, "start") /\ ~NameHeld(job[r].name)
  /\ IF users[job[r].name] # None THEN Refuse(r)
     ELSE Go(r, "mark") /\ UNCHANGED <<store, server, crashes, ghosts>>

\* Mutated form: the invitation is looked at, not locked.
MarkPeeks(r) ==
  /\ At(r, {"signup"}, "mark")
  /\ IF invites[job[r].key].state = "open"
       THEN Go(r, "commit") /\ UNCHANGED <<store, server, crashes, ghosts>>
       ELSE Refuse(r)

\* UPDATE invitations ... WHERE used_at IS NULL: waits for the row's lock.
Mark(r) ==
  /\ At(r, {"signup"}, "mark") /\ ~RowHeld(job[r].key)
  /\ IF invites[job[r].key].state = "open"
       THEN Go(r, "commit") /\ UNCHANGED <<store, server, crashes, ghosts>>
       ELSE Refuse(r)

\* COMMIT
Commit(r) ==
  /\ At(r, {"signup"}, "commit")
  /\ users' = [users EXCEPT ![job[r].name] = Account(FALSE, TRUE)]
  /\ invites' = [invites EXCEPT ![job[r].key] = [state |-> "used", by |-> job[r].name]]
  /\ job' = [job EXCEPT ![r].at = "session", ![r].ok = TRUE]
  /\ UNCHANGED <<links, sessions, server, crashes, ghosts>>

\* startSession, for a disabled account too.
StartSession(r) ==
  /\ job[r].at = "session" /\ Reply(r)
  /\ sessions' = sessions \cup {job[r].name}
  /\ UNCHANGED <<users, invites, links, server, crashes, ghosts>>

-----------------------------------------------------------------------------
(* The command line: runCreateAdmin.                                       *)

CreateUser(r) ==
  /\ At(r, {"create"}, "start") /\ ~NameHeld(job[r].name)
  /\ IF users[job[r].name] # None THEN Refuse(r)
     ELSE /\ Go(r, "mint")
          /\ users' = [users EXCEPT ![job[r].name] = Account(TRUE, FALSE)]
          /\ UNCHANGED <<invites, links, sessions, server, crashes, ghosts>>

MintLink(r) ==
  /\ At(r, {"create"}, "mint") /\ Reply(r)
  /\ \E l \in Link : NewLink(l, job[r].name)
  /\ UNCHANGED <<users, invites, sessions, server, crashes, ghosts>>

-----------------------------------------------------------------------------
(* Magic links, logging in and out.                                        *)

\* Mutated form: used_at is not looked at.
ConsumeMagicLinkAgain(r) ==
  /\ At(r, {"password"}, "start")
  /\ IF links[job[r].key].state # "none"
       THEN /\ links' = [links EXCEPT ![job[r].key].state = "used"]
            /\ job' = [job EXCEPT ![r].at = "store", ![r].ok = TRUE,
                                  ![r].name = links[job[r].key].by]
            /\ UNCHANGED <<users, invites, sessions, server, crashes, ghosts>>
       ELSE Refuse(r)

\* handleSetPassword: ConsumeMagicLink
ConsumeMagicLink(r) ==
  /\ At(r, {"password"}, "start")
  /\ IF links[job[r].key].state = "open"
       THEN /\ links' = [links EXCEPT ![job[r].key].state = "used"]
            /\ job' = [job EXCEPT ![r].at = "store", ![r].ok = TRUE,
                                  ![r].name = links[job[r].key].by]
            /\ UNCHANGED <<users, invites, sessions, server, crashes, ghosts>>
       ELSE Refuse(r)

\* Mutated form: no password for a disabled account.
SetPasswordActive(r) ==
  /\ At(r, {"password"}, "store") /\ Go(r, "session")
  /\ users' = IF users[job[r].name].active
                THEN [users EXCEPT ![job[r].name].password = TRUE] ELSE users
  /\ UNCHANGED <<invites, links, sessions, server, crashes, ghosts>>

\* handleSetPassword: SetPassword
SetPassword(r) ==
  /\ At(r, {"password"}, "store") /\ Go(r, "session")
  /\ users' = [users EXCEPT ![job[r].name].password = TRUE]
  /\ UNCHANGED <<invites, links, sessions, server, crashes, ghosts>>

\* handleLogin: GetUserByUsername
Lookup(r) ==
  /\ At(r, {"login"}, "start")
  /\ IF users[job[r].name] # None /\ users[job[r].name].active
       THEN Go(r, "verify") /\ UNCHANGED <<store, server, crashes, ghosts>>
       ELSE Refuse(r)

\* handleLogin: GetPasswordHash, VerifyPassword
Verify(r) ==
  /\ At(r, {"login"}, "verify")
  /\ \/ Refuse(r)
     \/ /\ users[job[r].name].password
        /\ Go(r, "session") /\ UNCHANGED <<store, server, crashes, ghosts>>

\* handleLogout: one session goes, maybe not the user's last.
Logout(r) ==
  /\ At(r, {"logout"}, "start") /\ Reply(r)
  /\ sessions' \in {sessions, sessions \ {job[r].by}}
  /\ UNCHANGED <<users, invites, links, server, crashes, ghosts>>

-----------------------------------------------------------------------------
(* The administration.                                                     *)

\* requireRole: UserForSession, for the whole of the request.
Admit(r) ==
  /\ At(r, AdminOps, "start")
  /\ IF job[r].by \in sessions /\ ActiveAdmin(job[r].by)
       THEN Go(r, "work") /\ UNCHANGED <<store, server, crashes, ghosts>>
       ELSE Refuse(r)

\* handleCreateInvitation
CreateInvitation(r) ==
  /\ At(r, {"invite"}, "work") /\ Reply(r)
  /\ \E i \in Invite :
       /\ invites[i].state = "none"
       /\ invites' = [invites EXCEPT ![i].state = "open"]
  /\ UNCHANGED <<users, links, sessions, server, crashes, ghosts>>

\* handleDeleteInvitation: a redeemed one goes too; waits for the row's lock.
DeleteInvitation(r) ==
  /\ At(r, {"revoke"}, "work") /\ Reply(r) /\ ~RowHeld(job[r].key)
  /\ invites' = [invites EXCEPT ![job[r].key] = [state |-> "gone", by |-> None]]
  /\ UNCHANGED <<users, links, sessions, server, crashes, ghosts>>

\* handleCreateMagicLink
CreateMagicLink(r) ==
  /\ At(r, {"link"}, "work") /\ Reply(r)
  /\ \E l \in Link : NewLink(l, job[r].name)
  /\ UNCHANGED <<users, invites, sessions, server, crashes, ghosts>>

\* A request that may take an admin away, past its first look at the user.
Removing(r) ==
  job[r].op \in {"role", "active"} /\ ~job[r].arg /\ job[r].at \in {"count", "write"}

\* handleSetRole, handleSetActive: GetUserByID
ReadTarget(r) ==
  /\ At(r, {"role", "active"}, "work")
  /\ Go(r, IF users[job[r].name].admin /\ ~job[r].arg THEN "count" ELSE "write")
  /\ raced' = (raced \/ (~job[r].arg /\ \E q \in Req : Removing(q)))
  /\ UNCHANGED <<store, server, crashes, interrupted>>

\* Mutated form: off by one.
CountAdminsNone(r) ==
  /\ At(r, {"role", "active"}, "count")
  /\ IF HasAdmin
       THEN Go(r, "write") /\ UNCHANGED <<store, server, crashes, ghosts>>
       ELSE Refuse(r)

\* CountAdmins: 409 if there is but one active admin, whoever it is.
CountAdmins(r) ==
  /\ At(r, {"role", "active"}, "count")
  /\ IF \E m, n \in Name : m # n /\ ActiveAdmin(m) /\ ActiveAdmin(n)
       THEN Go(r, "write") /\ UNCHANGED <<store, server, crashes, ghosts>>
       ELSE Refuse(r)

\* SetRole, SetActive
WriteTarget(r) ==
  /\ At(r, {"role", "active"}, "write") /\ Reply(r)
  /\ users' = IF job[r].op = "role"
                THEN [users EXCEPT ![job[r].name].admin = job[r].arg]
                ELSE [users EXCEPT ![job[r].name].active = job[r].arg]
  /\ UNCHANGED <<invites, links, sessions, server, crashes, ghosts>>

-----------------------------------------------------------------------------
Handler(r) ==
  \/ CreateUser(r) \/ MintLink(r)
  \/ Insert(r) \/ Mark(r) \/ Commit(r) \/ StartSession(r)
  \/ ConsumeMagicLink(r) \/ SetPassword(r)
  \/ Lookup(r) \/ Verify(r) \/ Logout(r)
  \/ Admit(r) \/ CreateInvitation(r) \/ DeleteInvitation(r) \/ CreateMagicLink(r)
  \/ ReadTarget(r) \/ CountAdmins(r) \/ WriteTarget(r)
  \/ Abort(r)

Next ==
  \/ Start \/ BootCount \/ BootCreate \/ BootMint \/ Crash
  \/ \E r \in Req, op \in Op : Request(r, op)
  \/ \E r \in Req : Handler(r)

Spec == Init /\ [][Next]_vars

-----------------------------------------------------------------------------
Redeemed(r) == job[r].op = "signup" /\ job[r].ok
Spent(r) == job[r].op = "password" /\ job[r].ok

\* "A race (double-submit, concurrent reuse of the same link) can never create
\* two users or leave a half-applied state" (store_invitations.go:61): who has
\* redeemed an invitation has an account, nobody else has redeemed it or has
\* the name, and an invitation counts as used only if somebody has.
OneAccountPerInvitation ==
  /\ \A r, q \in Req :
       Redeemed(r) /\ Redeemed(q) /\ r # q =>
         job[r].key # job[q].key /\ job[r].name # job[q].name
  /\ \A r \in Req : Redeemed(r) => users[job[r].name] # None
  /\ \A i \in Invite :
       invites[i].state = "used" =>
         \E r \in Req : Redeemed(r) /\ job[r].key = i /\ job[r].name = invites[i].by

\* A magic link sets one password (store_auth.go:119).
LinkOnce == \A r, q \in Req : Spent(r) /\ Spent(q) /\ r # q => job[r].key # job[q].key

\* Accounts keeps the promises of Credentials: whatever overlaps, aborts or
\* crashes between the statements, each step on the store is one of its steps.
Use(r) ==
  IF job[r].ok THEN [how |-> job[r].op, key |-> job[r].key, name |-> job[r].name]
  ELSE [how |-> "none", key |-> None, name |-> None]
Promised == INSTANCE Credentials WITH
  accounts <- {n \in Name : users[n] # None},
  passwords <- {n \in Name : users[n] # None /\ users[n].password},
  invitation <- [i \in Invite |-> invites[i].state],
  link <- links,
  use <- [r \in Req |-> Use(r)]

\* An invitation or a link is spent by one request at most, an account comes
\* with its invitation in one step, and nobody gets a password or a session
\* but through a key that was issued to them (RedeemInvitation, ConsumeMagicLink).
ImplementsCredentials == Promised!Spec

\* Every account has a password, or a link to set one that has not been used,
\* or one being set, unless a step in between was interrupted: no order of
\* requests locks a user out. (A link may have expired; an admin issues another.)
CanEnter ==
  ~interrupted =>
    \A n \in Name : users[n] # None =>
      \/ users[n].password
      \/ \E l \in Link : links[l].state = "open" /\ links[l].by = n
      \/ \E r \in Req : At(r, {"password"}, "store") /\ job[r].name = n
      \/ \E r \in Req : At(r, {"create"}, "mint") /\ job[r].name = n
      \/ server = "mint" /\ n = Boot

\* As long as no two removals overlap an admin is left (handlers_admin.go:82, :118).
AdminStays == [][HasAdmin /\ ~raced => HasAdmin']_vars
=============================================================================
