SPECIFICATION Spec
CONSTANTS
    Channels = {10}
    MaxPid = 2
    Sizes = {1, 2}
    MaxRetries = 1
    Threshold = 1
    RetryCap = 4
    DropCap = 4
    InitialCwnd = 2
    InitialSsthresh = 3
    PerChannel = FALSE
    MaxSessions = 1
    Threads = {t1, t2}
    Modes = {TRUE}
    Failures = {}
    Handlers = {h1, h2}
SYMMETRY Symmetry
INVARIANTS TypeOK NoSilentLoss RetriedBeforeReport WholeMessages InFlightCovers
