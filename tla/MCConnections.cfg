SPECIFICATION Spec
CONSTANTS
    Conns = {c1, c2}
    NoConn = NoConn
    Addrs = {a1, a2}
    AppChannels = {10}
    Handlers = {h1, h2}
    Retransmitter = r
    Stopper = s
    Senders = {s1}
    MaxSessions = 1
    MaxEvictions = 3
    Repeats = TRUE
CHECK_DEADLOCK FALSE
SYMMETRY Symmetry
INVARIANTS TypeOK InUseIsAlive RefsExact NoneForgotten MapFollowsLists
