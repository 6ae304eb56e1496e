SPECIFICATION Spec
CONSTANTS
    NGC = 2
    MaxPart23Length = 4
    Capacity = 6
    FlatShare = 3
    CallLimits = {3, 30}
    Metrics <- FewMetrics
    Savings = {0, 1}
    FirstSizes = {1, 4}
INVARIANTS
    TypeOK
    KeptIsBest
    NothingLeftToTry
    MemoExact
PROPERTIES
    EndsUnaided
