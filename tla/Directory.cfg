SPECIFICATION Spec
CONSTANTS
  t1 = t1
  t2 = t2
  t3 = t3
  u1 = u1
  u2 = u2
  User <- Users
  Kind <- Kinds
  Pair <- Pairs
  Limits <- Instances
INVARIANTS  RosterTrue  DropHeld
CHECK_DEADLOCK FALSE
