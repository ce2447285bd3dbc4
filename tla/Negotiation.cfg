SPECIFICATION FairSpec
CONSTANTS
  Kind = {cam, share}
  Removable = {share}
  MaxToggles = 2
  MaxTroubles = 1
  MaxRestarts = 2
INVARIANT TracksFlow
PROPERTY Settles
CHECK_DEADLOCK FALSE
