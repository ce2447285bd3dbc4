-------------------------------- MODULE MCMedia --------------------------------
(* Small instances of Media and Playout: one tab, two channels, up to two  *)
(* peers. The channels are alike, and so are the peers.                    *)
EXTENDS Playout

CONSTANTS c1, c2, p1, p2
Chans == {c1, c2}
Peers == {p1, p2}
R(ok, bad, lim, fps) == [lossOk |-> ok, linkBad |-> bad, limit |-> lim, fps |-> fps]
Samples == {R(TRUE, FALSE, "none", 24), R(FALSE, TRUE, "none", 4), R(TRUE, FALSE, "cpu", -1)}
B(j, l, t, m, r, k, h) ==
  [joins |-> j, leaves |-> l, toggles |-> t, mutes |-> m, rosters |-> r, ticks |-> k, hears |-> h]
\* An instance: joins, leaves, toggles, mutes, rosters, monitor runs and steps of Playout.
Instances ==
  {B(1, 0, 3, 1, 1, 0, 0), B(1, 1, 2, 1, 2, 0, 0), B(2, 1, 1, 1, 1, 0, 0), B(2, 1, 2, 0, 1, 0, 0),
   B(1, 0, 2, 0, 2, 1, 0), B(1, 0, 1, 0, 1, 4, 0), B(1, 0, 0, 0, 3, 0, 4), B(2, 1, 0, 0, 2, 0, 2)}
Alike == Permutations(Chans) \cup Permutations(Peers)
=============================================================================
