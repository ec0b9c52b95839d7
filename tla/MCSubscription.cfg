SPECIFICATION Spec
CONSTANTS
    AppChannels = {ch1, ch2}
    Handlers = {h1, h2}
    MaxPid = 3
    MaxMessages = 1
CHECK_DEADLOCK FALSE
SYMMETRY Symmetry
INVARIANTS TypeOK SuccessIsCommitted CommittedStays DropExplained PendingIsAsked
