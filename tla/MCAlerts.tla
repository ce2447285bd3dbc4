------------------------------- MODULE MCAlerts -------------------------------
(* One or two tabs of one user, and the worker of their browser.           *)
EXTENDS Alerts

CONSTANTS t1, t2, c1, c2
Tabs == {t1, t2}
Chans == {c1, c2}
B(ts, late, p, m, f, ops) == [tabs |-> ts, late |-> late, posts |-> p, moves |-> m, faults |-> f, ops |-> ops]
\* An instance: tabs, those that start late, posts, moves, faults, what happens.
Instances ==
  {B({t1}, {}, 1, 3, 1, {"focus", "drop", "opted", "ping"}),
   B({t1}, {}, 1, 2, 1, {"click", "drop", "opted", "ping"}),
   B({t1}, {}, 1, 2, 1, {"notif", "drop", "focus", "ping"}),
   B({t1, t2}, {}, 0, 3, 1, {"notif", "rotate"}),
   B({t1, t2}, {t1}, 0, 2, 1, {"opted", "notif"}),
   B({t1}, {t1}, 1, 1, 1, {"opted", "notif", "rotate", "fail", "ping"}),
   B({t1}, {}, 2, 2, 0, {"focus", "toggle"}),
   B({t1}, {}, 1, 3, 0, {"select", "toggle"}),
   B({t1}, {}, 1, 2, 0, {"focus", "select", "jump"}),
   B({t1}, {}, 2, 3, 0, {"focus", "jump"}),
   B({t1}, {}, 1, 1, 1, {"select", "drop"}),
   B({t1}, {}, 1, 2, 1, {"select", "ping", "fail"}),
   B({t1}, {}, 1, 3, 1, {"focus", "toggle", "fail"}),
   B({t1, t2}, {}, 1, 2, 0, {"focus", "toggle"}),
   B({t1, t2}, {t1}, 1, 1, 1, {"focus", "drop"})}
=============================================================================
