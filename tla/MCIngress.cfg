CONSTANTS
    Slots = {s1}
    Heap = {h1, h2}
    Msg <- MCMsg
    NoMsg = NoMsg
    Consumers = {c1}
    IoThreads = {t1, t2}
    Ports = {p1, p2}
    InitialCapacity = 1
    MaxCapacity = 2
    MaxFallback = 1
    MaxDatagrams = 3
SPECIFICATION FairSpec
INVARIANTS
    TypeOK
    OneOwner
    FallbackBounded
    FallbackExact
    PortOrder
    CleanShutdown
PROPERTIES
    StopTerminates
    QueuedIsTaken
CHECK_DEADLOCK FALSE
