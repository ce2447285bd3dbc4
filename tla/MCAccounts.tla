----------------------------- MODULE MCAccounts -----------------------------
(* Accounts for TLC: requests, invitations and links are interchangeable.  *)
EXTENDS Accounts, TLC

Symmetry == Permutations(Req) \cup Permutations(Invite) \cup Permutations(Link)
=============================================================================
