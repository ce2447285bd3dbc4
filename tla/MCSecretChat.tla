---------------------------- MODULE MCSecretChat ----------------------------
(* One tab of one user in a secret chat with one tab of another, or two.   *)
EXTENDS SecretChat, TLC

CONSTANTS l1, h1, h2
Tabs == {l1, h1, h2}
LowOne == {l1}
Limit(tabs, o, t, f) == [tabs |-> tabs, offers |-> o, texts |-> t, faults |-> f]
Small ==
  {Limit(Tabs, 1, 1, 0), Limit({l1, h1}, 2, 1, 0), Limit({l1, h1}, 1, 2, 0),
   Limit({l1, h1}, 1, 0, 1)}
=============================================================================
