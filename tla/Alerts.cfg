SPECIFICATION AlertsSpec
CONSTANTS
  t1 = t1
  t2 = t2
  c1 = c1
  c2 = c2
  First = c1
  Tab <- Tabs
  Chan <- Chans
  MaxPosts = 2
  MaxMoves = 3
  MaxFaults = 1
  Limits <- Instances
  MaxEndpoints = 3
INVARIANTS    SubscriptionFollows
CHECK_DEADLOCK FALSE
