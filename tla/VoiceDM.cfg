SPECIFICATION FairSpec
CONSTANTS
  A = A
  B = B
  C = C
  a1 = a1
  a2 = a2
  b1 = b1
  c1 = c1
  NoTimer = NoTimer
  User = {A, B}
  DM = {d1}
  Group = {}
  Conn = {a1, b1}
  Timer = {t1}
  Owner <- OwnerDef
  Party <- PartyDef
  MaxVoiceAudio = 0
  MaxVoiceVideo = 0
  StoreMayFail = FALSE
INVARIANTS
  DroppedPartyCovered
PROPERTIES
  DroppedPartyResolved
