SPECIFICATION Spec
CONSTANTS
    Channels = {10}
    MaxPid = 3
    Sizes = {1}
    MaxRetries = 1
    Threshold = 2
    RetryCap = 4
    DropCap = 4
    InitialCwnd = 2
    InitialSsthresh = 3
    PerChannel = TRUE
    MaxSessions = 2
    Threads = {t1, t2}
    Modes = {TRUE, FALSE}
    Failures = {"build", "track"}
CHECK_DEADLOCK FALSE
SYMMETRY Symmetry
INVARIANTS RetriedBeforeReport InFlightCovers
