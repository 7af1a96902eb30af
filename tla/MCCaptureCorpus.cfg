SPECIFICATION CorpusSpec
CONSTANTS
    TOTAL_FINGERS = 2
    N_FRAMES = 2
    MAX_FILES = 3
INVARIANTS
    CapturesAccounted
    CleanTotalsExact
CHECK_DEADLOCK FALSE
