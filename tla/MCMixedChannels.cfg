SPECIFICATION Spec
CONSTANTS
    Channels = {10, 11}
    MaxPid = 1
    Sizes = {2}
    MaxRetries = 1
    Threshold = 1
    RetryCap = 4
    DropCap = 4
    InitialCwnd = 2
    InitialSsthresh = 3
    PerChannel = FALSE
    MaxSessions = 2
    Threads = {t1}
    Modes = {TRUE}
    Failures = {}
    Handlers = {h1}
CHECK_DEADLOCK FALSE
INVARIANT UnmixedMessages
