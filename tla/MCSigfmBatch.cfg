SPECIFICATION MCSpec
CONSTANTS
    a1 = a1
    a2 = a2
    a3 = a3
    a4 = a4
    Free = Free
    INT_MAX = 2147483647
    Addr <- MCAddr
    Image <- MCImage
    Keypoints <- MCKeypoints
    MatchScore <- MCMatchScore
    Frame <- MCFrame
    OptionSets <- MCOptions
    MAX_TEMPLATE_ENTRIES = 3
    KP_MIN_START = 999
    STUDY_MIN_KP = 32
    STUDY_MAX_FAILED = 1
    STUDY_MIN_OBSERVATIONS = 2
    SCORE_MIN_START = 999
SYMMETRY AddrSymmetry
INVARIANTS
    NothingLeaked
PROPERTIES
    Implements
    BatchAdvances
