SPECIFICATION Spec
CONSTANTS
    MAX = 3
    CACHE = 2
    RETIRE_AFTER = 1
INVARIANTS
    RowsTiled
    OrderComplete
    PlainAgesDistinct
    RanksCompact
    PassComplete
    LearnedIsReported
    
PROPERTIES
    PassShrinks
