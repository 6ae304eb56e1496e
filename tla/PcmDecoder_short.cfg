SPECIFICATION Spec
CONSTANTS
  FrameSize = 3
  EncoderDelay = 1
  DecoderDelay = 1
  FieldMax = 15
  Sources <- FewFrames
  FrameLen = 2
  MaxMatches = 3
  SmallWindow = 6
  ResyncWindow = 12
  Budget = 12
  PrimeFrames = 2
  BufSize = 8
  NoEnd = 1000
  Targets = {0, 4, 7, 11, 13, 15}
  MaxFaults = 0
INVARIANTS
  JunkCostsFinalFrame
CHECK_DEADLOCK FALSE
