SPECIFICATION PathSpec
CONSTANTS
    ByteRate = 17
    SampleRate = 3
    HeaderBytes = 3
    ResHardCapBytes = 4
    MaxPart23Length = 19
    NGC = 2
    FifoSlots = 3
    MaxFrames = 6
    MaxBitreservoirBytes = 4
INVARIANTS
    DecodesItsOwnData
    NothingLost
    ResyncBound
    NoStaleBytes
