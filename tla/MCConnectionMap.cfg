SPECIFICATION Spec
CONSTANTS
    a1 = a1
    a2 = a2
    a3 = a3
    Addrs <- MCAddrs
    AddrHash <- MCAddrHash
    None = None
    InitialCapacity = 4
    MaxId = 5
    MaxLive = 4
    MaxFailures = 2
CHECK_DEADLOCK FALSE
INVARIANTS CountsExact FreeSlotStays IndexSound
PROPERTY ImplementsMap
