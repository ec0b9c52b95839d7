CONSTANTS
    Msg = {m1, m2, m3}
    NoMsg = NoMsg
    Consumers = {c1, c2}
    InitialCapacity = 1
    MaxCapacity = 3
SPECIFICATION QSpec
INVARIANTS
    QTypeOK
    RingConsistent
    LiveSlotsWritten
    NoLostWakeup
    StopReleasesAll
PROPERTY ImplementsFifo
