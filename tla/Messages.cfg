SPECIFICATION Spec
CONSTANTS
  User = {a, m}
  Author = a
  Moderator = {m}
  Req = {r1, r2, r3}
  MaxLoads = 1
  StoreMayFail = TRUE
INVARIANTS  PingsAgree
PROPERTIES DeletedIsFinal
CHECK_DEADLOCK FALSE
SYMMETRY Requests
