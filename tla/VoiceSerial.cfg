SPECIFICATION SerialSpec
CONSTANTS
  A = A
  B = B
  C = C
  a1 = a1
  a2 = a2
  b1 = b1
  c1 = c1
  NoTimer = NoTimer
  User = {A, B, C}
  DM = {d1}
  Group = {g1}
  Conn = {a1, a2, b1, c1}
  Timer = {t1}
  Owner <- OwnerDef
  Party <- PartyDef
  MaxVoiceAudio = 2
  MaxVoiceVideo = 1
  StoreMayFail = TRUE
INVARIANT
  RosterHeld

  
