SPECIFICATION Spec
CONSTANTS
  FrameSize = 3
  EncoderDelay = 1
  DecoderDelay = 1
  FieldMax = 15
  Stride = 2
  Chunks = {1, 5, 6, 8, 13}
  MaxBytes = 14
  MaxStreams = 2
  MaxFaults = 2
INVARIANTS
  TypeOK
  ReturnMeansSink
  TagOnlyOverHealthy
  ReportedIsConsumed
CHECK_DEADLOCK FALSE
