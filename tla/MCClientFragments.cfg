SPECIFICATION Spec
CONSTANTS
    Channels = {10}
    MaxPid = 1
    Sizes = {2}
    MaxRetries = 1
    Threshold = 1
    RetryCap = 4
    DropCap = 4
    InitialCwnd = 2
    InitialSsthresh = 3
    PerChannel = TRUE
    MaxSessions = 2
    Threads = {t1}
    Modes = {TRUE}
    Failures = {}
CHECK_DEADLOCK FALSE
INVARIANT RetriedBeforeReport
