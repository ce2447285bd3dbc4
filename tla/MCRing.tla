------------------------------- MODULE MCRing -------------------------------
(* Ring for model checking.                                                *)
EXTENDS Ring, TLC

CONSTANTS u, v, a1, b1, b2, ab

\* One DM, whose second user has two tabs.
OneDM == {ab}
OneMembers == ab :> {u, v}
OneTab == {a1, b1, b2}
OneOwner == a1 :> u @@ b1 :> v @@ b2 :> v

\* What overlaps is left out: two of the invariants exclude it.
Unraced == ~raced

\* The tabs of one user are alike.
Siblings == Permutations({b1, b2})
=============================================================================
