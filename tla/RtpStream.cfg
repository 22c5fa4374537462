CONSTANTS
  Bytes <- MCBytes
  LargeFrames = {2}
  PayloadBytes = 2
  SequenceMod = 8
  Ssrc = 1
  SenderSsrcs = {1, 2}
  Networks <- MCNetworks
  SinkFails = 2
SPECIFICATION RtpSpec
INVARIANTS
  RtpTypeOK
  SmallFramesIntact
  DamageCounted
  SinkKeepsVideo
  FramesWholeInOrder
CHECK_DEADLOCK FALSE
