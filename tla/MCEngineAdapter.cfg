SPECIFICATION AdapterSpec
CONSTANTS
    f1 = f1
    f2 = f2
    Finger <- Fingers
    RECOVERY = TRUE
    MAX_LEARN = 2
SYMMETRY FingerSymmetry
INVARIANTS
    CacheBelongs
    SealMeansWhole
    StoreExplained
PROPERTIES
    LastCopyKept
