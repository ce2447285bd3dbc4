------------------------------- MODULE MCPane -------------------------------
(* One tab, a channel with some messages and a second one.                 *)
EXTENDS Search

CONSTANTS c1, c2, qa, qb
Chans == {c1, c2}
Queries == {qa, qb}
\* One query matches every message, the other every second one.
Matching2 == (qa :> Id) @@ (qb :> {i \in Id : i % 2 = 0})
Bound(o, p, t, s, c, m, f, ops) ==
  [old |-> o, posts |-> p, texts |-> t, same |-> s, changes |-> c, moves |-> m, faults |-> f,
   images |-> 0, searches |-> 0, ops |-> ops]
With(b, i, s) == [b EXCEPT !.images = i, !.searches = s]
Small ==
  {Bound(4, 1, 0, FALSE, 0, 3, 0, {"jump", "page"}),
   Bound(3, 1, 0, FALSE, 1, 2, 0, {"jump", "page", "fail"}),
   Bound(2, 0, 2, FALSE, 0, 1, 1, {"send", "select", "fail"}),
   Bound(2, 1, 1, FALSE, 0, 1, 1, {"send", "select", "drop"}),
   Bound(3, 1, 1, FALSE, 0, 1, 0, {"send", "jump", "page"}),
   Bound(3, 1, 1, FALSE, 1, 1, 0, {"send", "page"}),
   Bound(2, 0, 1, FALSE, 0, 2, 0, {"send", "select", "jump"}),
   Bound(1, 0, 1, FALSE, 0, 2, 1, {"send", "select", "fail"}),
   Bound(2, 0, 1, FALSE, 0, 1, 1, {"send", "jump", "fail"}),
   Bound(2, 2, 0, FALSE, 0, 1, 1, {"start", "select", "sleep"}),
   With(Bound(0, 0, 0, FALSE, 0, 3, 1, {"attach", "select", "fail"}), 2, 0),
   With(Bound(0, 0, 1, FALSE, 0, 2, 0, {"attach", "send", "select"}), 1, 0),
   With(Bound(0, 0, 1, FALSE, 0, 1, 1, {"attach", "send", "select", "fail"}), 2, 0),
   With(Bound(1, 0, 1, FALSE, 0, 2, 0, {"attach", "send", "jump"}), 1, 0),
   With(Bound(1, 0, 0, FALSE, 0, 3, 0, {"attach", "select", "jump"}), 1, 0),
   With(Bound(5, 0, 0, FALSE, 0, 0, 0, {"search"}), 0, 6),
   With(Bound(4, 1, 0, FALSE, 0, 0, 1, {"search", "fail"}), 0, 4),
   With(Bound(4, 0, 0, FALSE, 1, 1, 0, {"search", "jump"}), 0, 2)}
=============================================================================
