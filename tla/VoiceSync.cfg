SPECIFICATION FairSpec
CONSTANTS
  N = 2
  MaxActs = 4
INVARIANTS
  ViewIsNewest
  MeshTrue
PROPERTIES
  JoinIsShown
CHECK_DEADLOCK FALSE
