SPECIFICATION Spec
CONSTANTS
  None = None
  c1 = c1
  c2 = c2
  p1 = p1
  p2 = p2
  Chan <- Chans
  Peer <- Peers
  Reports <- Samples
  Limits <- Instances
INVARIANTS MutedIsSilent PeersGetStream PostureTrue CaptureHeld ShapeFits VoiceIsVoice
SYMMETRY Alike
CHECK_DEADLOCK FALSE
