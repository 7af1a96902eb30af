SPECIFICATION Spec
CONSTANTS
    a1 = a1
    a2 = a2
    a3 = a3
    a4 = a4
    a5 = a5
    Free = Free
    INT_MAX = 2147483647
    Addr <- MCAddr
    Image <- MCImage
    Keypoints <- MCKeypoints
    MatchScore <- MCMatchScore
    Frame <- MCFrame
    OptionSets <- MCOptions
    MAX_TEMPLATE_ENTRIES = 3
    KP_MIN_START = 999
SYMMETRY AddrSymmetry
INVARIANTS
    PointersSound
    NoLeak
    OkLinesAccounted
    RankingKeepsBest
    StrictCore
PROPERTIES
    SortKeepsBestConnected
    PruneKeepsRichest
CHECK_DEADLOCK FALSE
