SPECIFICATION Spec
CONSTANTS
    Conns = {c1}
    NoConn = NoConn
    Addrs = {a1}
    AppChannels = {10}
    Handlers = {h1, h2}
    Retransmitter = r
    Stopper = s
    Senders = {s1}
    MaxSessions = 1
    MaxEvictions = 1
    Repeats = FALSE
CHECK_DEADLOCK FALSE
INVARIANT CreatorUsesAlive
