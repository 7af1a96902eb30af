SPECIFICATION FairSpec
CONSTANTS
    PIPE_CAP = 2
    MAX_LINES = 4
INVARIANTS
    MetricsReported
PROPERTIES
    ScriptEnds
    LogCompletes
CHECK_DEADLOCK FALSE
