SPECIFICATION Spec
CONSTANTS
    Energies = {0, 2, 30}
    SubBlocks = 2
    AttackRatio = 10
    AttackFloorE = 1
    AttackNoPrior = 1000
INVARIANTS
    TypeOK
PROPERTIES
    WindowGrammar
    ShortHasCause
    LookaheadKept
    AttackCodedShort
