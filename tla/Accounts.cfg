SPECIFICATION Spec
CONSTANTS
  Name = {a, b, c}
  Boot = a
  Founder = {a, b}
  Invite = {i1}
  Link = {l1, l2}
  Req = {r1, r2, r3}
  MaxCrashes = 1
  None = None
INVARIANTS OneAccountPerInvitation CanEnter
PROPERTIES AdminStays ImplementsCredentials
CHECK_DEADLOCK FALSE
SYMMETRY Symmetry

