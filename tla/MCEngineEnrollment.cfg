SPECIFICATION Spec
CONSTANTS
    SAMPLES = 3
    MAX_TIPS = 3
    MAX_CONT = 2
    TIP_FROM = 1
    TIP_TO = 3
    CHOOSE_LESS = TRUE
    SENSOR_C = TRUE
INVARIANTS
    SessionFlag
    FullExplained
    EnrolledImagesKept
    TippedRunKeepsOne
