SPECIFICATION Spec
CONSTANTS
    MaxFrames = 12
INVARIANTS
    PanicsUnreachable
    EveryFrameOnce
PROPERTIES
    ImplementsContract
