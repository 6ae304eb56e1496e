SPECIFICATION Spec
CONSTANTS
    ByteRate = 23
    SampleRate = 3
    HeaderBytes = 3
    ResHardCapBytes = 5
    MaxPart23Length = 15
    NGC = 4
    PEs = {0, 20}
    CodedSizes = {0}
INVARIANTS
    TypeOK
    CodingFits
    RedistributionConserves
    BudgetsWithinSpend
PROPERTIES
    PlanEnds
