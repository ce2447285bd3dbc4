----------------------------- MODULE MCMessages -----------------------------
(* Messages for TLC: the requests are interchangeable.                     *)
EXTENDS Messages, TLC

Requests == Permutations(Req)
=============================================================================
