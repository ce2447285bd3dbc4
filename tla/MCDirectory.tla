----------------------------- MODULE MCDirectory -----------------------------
(* Two or three tabs of two users, three channels and a DM.                *)
EXTENDS Directory

CONSTANTS t1, t2, t3, u1, u2
Users == {u1, u2}
Kinds == <<"public", "public", "private", "dm">>
Pairs == <<{}, {}, {}, {u1, u2}>>
I(who, role, late, chans, in3, opened, start, m, f, ops) ==
  [tabs |-> DOMAIN who, who |-> who, role |-> role, late |-> late, made |-> chans,
   rows |-> [c \in 1..4 |-> [pos |-> 0, topic |-> 0]],
   member |-> <<{}, {}, in3, IF 4 \in chans THEN {u1, u2} ELSE {}>>,
   open |-> opened, at |-> start, moves |-> m, faults |-> f, ops |-> ops]
Mod == u1 :> "moderator" @@ u2 :> "member"
Admin == u1 :> "admin" @@ u2 :> "moderator"
One == t1 :> u1
Two == t1 :> u1 @@ t2 :> u2
Same == t1 :> u1 @@ t2 :> u1
Three == t1 :> u1 @@ t2 :> u1 @@ t3 :> u2
Instances ==
  {I(Three, Mod, {}, {1}, {}, {}, 1, 1, 1, {"idle", "drop"}),
   I(Two, Mod, {}, {1}, {}, {}, 1, 3, 0, {"idle"}),
   I(Two, Mod, {t2}, {1}, {}, {}, 1, 1, 0, {"status", "create"}),
   I(Two, Mod, {}, {1, 2}, {}, {}, 1, 2, 0, {"drag", "topic"}),
   I(Two, Mod, {}, {1, 2}, {}, {}, 1, 1, 1, {"drag", "fail"}),
   I(Two, Mod, {}, {1, 2}, {}, {}, 1, 2, 0, {"drag", "create", "archive"}),
   I(Two, Admin, {}, {1, 3}, {u1, u2}, {}, 3, 2, 0, {"select", "keys", "remove", "leave"}),
   I(Two, Mod, {}, {1, 3}, {u1}, {}, 3, 3, 0, {"invite", "select", "remove"}),
   I(Two, Mod, {}, {1, 3}, {u1, u2}, {}, 3, 1, 1, {"remove", "drop", "scroll"}),
   I(Same, Mod, {}, {1, 4}, {}, {u1, u2}, 4, 3, 0, {"dm", "closedm", "mute"}),
   I(Two, Mod, {}, {1, 4}, {}, {u1, u2}, 4, 3, 0, {"dm", "closedm", "post"}),
   I(Same, Mod, {}, {1, 2}, {}, {}, 1, 2, 1, {"mute", "fail"}),
   I(Two, Mod, {}, {1}, {}, {}, 1, 1, 1, {"create", "drop"}),
   I(One, Mod, {}, {1, 2}, {}, {}, 1, 1, 1, {"mute", "drop"}),
   I(One, Mod, {}, {1}, {}, {}, 1, 0, 2, {"drop", "fail"})}
=============================================================================
