SPECIFICATION Spec
CONSTANTS
  u = u
  v = v
  a1 = a1
  b1 = b1
  b2 = b2
  ab = ab
  None = None
  DM <- OneDM
  Members <- OneMembers
  Tab <- OneTab
  Owner <- OneOwner
  MaxEvents = 2
INVARIANTS JoinedBothAsked NoRingLingers RingReaches
SYMMETRY Siblings
CONSTRAINT Unraced
CHECK_DEADLOCK FALSE
