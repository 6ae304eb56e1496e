SPECIFICATION Spec
CONSTANTS
    ByteRate = 16
    SampleRate = 3
    HeaderBytes = 4
    ResHardCapBytes = 511
    MaxPart23Length = 31
    NGC = 2
    FifoSlots = 12
    MaxFrames = 14
INVARIANTS
    IInv
    NoPanic
    OccupancyIsUnfilled
    ExactBitrate
PROPERTIES
    CallsEnd
    ImplementsStream
