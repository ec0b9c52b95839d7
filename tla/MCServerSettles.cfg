SPECIFICATION FairSpec
CONSTANTS
    Channels = {10}
    MaxPid = 3
    Sizes = {1}
    MaxRetries = 2
    Threshold = 2
    RetryCap = 4
    DropCap = 4
    InitialCwnd = 2
    InitialSsthresh = 3
    PerChannel = FALSE
    MaxSessions = 2
    Threads = {t1}
    Modes = {TRUE, FALSE}
    Failures = {}
    Handlers = {h1}
PROPERTY Settles
