SPECIFICATION FairSpec
CONSTANTS
    Channels = {0, 10}
    MaxPid = 1
    Sizes = {1, 2}
    MaxRetries = 1
    Threshold = 1
    RetryCap = 4
    DropCap = 4
    InitialCwnd = 2
    InitialSsthresh = 3
    PerChannel = TRUE
    MaxSessions = 2
    Threads = {t1, t2}
    Modes = {TRUE, FALSE}
    Failures = {"build"}
INVARIANTS TypeOK NoSilentLoss WholeMessages
PROPERTY Settles
