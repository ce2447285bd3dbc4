---------------------------- MODULE Credentials ----------------------------
(***************************************************************************)
(* What Accounts promises, free of handlers, transactions and crashes: a   *)
(* key (an invitation or a magic link) is issued, spent by one request and *)
(* never open again; an account and its password appear in the one step    *)
(* that spends an invitation; a password is set for nobody but the owner   *)
(* of a link that this request has spent; and a session is opened for      *)
(* nobody without a password. Accounts implements it (ImplementsCredentials).*)
(***************************************************************************)
CONSTANTS Name, Founder, Invite, Link, Req, None

VARIABLES
  accounts, passwords, sessions,  \* names
  invitation,                     \* invitation -> none, open, used, gone
  link,                           \* magic link -> [state, by]: whose it is
  use                             \* request -> what it has spent, for whom

vars == <<accounts, passwords, sessions, invitation, link, use>>

NoUse == [how |-> "none", key |-> None, name |-> None]

Init ==
  /\ accounts \in SUBSET Founder /\ passwords = accounts /\ sessions = accounts
  /\ invitation = [i \in Invite |-> "none"]
  /\ link = [l \in Link |-> [state |-> "none", by |-> None]]
  /\ use = [r \in Req |-> NoUse]

\* By the command line, or at the first start: no password yet.
Create(n) ==
  /\ n \notin accounts /\ accounts' = accounts \cup {n}
  /\ UNCHANGED <<passwords, sessions, invitation, link, use>>

Invited(i) ==
  /\ invitation[i] = "none" /\ invitation' = [invitation EXCEPT ![i] = "open"]
  /\ UNCHANGED <<accounts, passwords, sessions, link, use>>
Revoke(i) ==
  /\ invitation' = [invitation EXCEPT ![i] = "gone"]
  /\ UNCHANGED <<accounts, passwords, sessions, link, use>>
IssueLink(l, n) ==
  /\ link[l].state = "none" /\ n \in accounts
  /\ link' = [link EXCEPT ![l] = [state |-> "open", by |-> n]]
  /\ UNCHANGED <<accounts, passwords, sessions, invitation, use>>

SignUp(r, i, n) ==
  /\ invitation[i] = "open" /\ n \notin accounts /\ use[r] = NoUse
  /\ invitation' = [invitation EXCEPT ![i] = "used"]
  /\ accounts' = accounts \cup {n} /\ passwords' = passwords \cup {n}
  /\ use' = [use EXCEPT ![r] = [how |-> "signup", key |-> i, name |-> n]]
  /\ UNCHANGED <<sessions, link>>

Spend(r, l) ==
  /\ link[l].state = "open" /\ use[r] = NoUse
  /\ link' = [link EXCEPT ![l].state = "used"]
  /\ use' = [use EXCEPT ![r] = [how |-> "password", key |-> l, name |-> link[l].by]]
  /\ UNCHANGED <<accounts, passwords, sessions, invitation>>

SetPassword(r) ==
  /\ use[r].how = "password" /\ passwords' = passwords \cup {use[r].name}
  /\ UNCHANGED <<accounts, sessions, invitation, link, use>>

Enter(n) ==
  /\ n \in passwords /\ sessions' = sessions \cup {n}
  /\ UNCHANGED <<accounts, passwords, invitation, link, use>>
Leave(n) ==
  /\ sessions' = sessions \ {n}
  /\ UNCHANGED <<accounts, passwords, invitation, link, use>>

Next ==
  \/ \E n \in Name : Create(n) \/ Enter(n) \/ Leave(n)
  \/ \E i \in Invite : Invited(i) \/ Revoke(i)
  \/ \E l \in Link, n \in Name : IssueLink(l, n)
  \/ \E r \in Req, i \in Invite, n \in Name : SignUp(r, i, n)
  \/ \E r \in Req, l \in Link : Spend(r, l)
  \/ \E r \in Req : SetPassword(r)

Spec == Init /\ [][Next]_vars

-----------------------------------------------------------------------------
Spenders == {r \in Req : use[r] # NoUse}

\* No key is spent twice; who is logged in has a password, and who has one is
\* one of the founders or has spent an invitation or a link that was issued.
Earned ==
  /\ \A r, q \in Spenders : use[r].how = use[q].how /\ use[r].key = use[q].key => r = q
  /\ sessions \subseteq passwords
  /\ passwords \subseteq Founder \cup {use[r].name : r \in Spenders}
=============================================================================
