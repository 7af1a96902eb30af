SPECIFICATION Spec
CONSTANTS
    MAX_ROWS = 3
    MIN_ROWS = 2
    MAX_MINUTIAE = 4
INVARIANTS
    LeftBehind
    VerdictFounded
