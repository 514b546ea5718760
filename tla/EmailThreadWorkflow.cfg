CHECK_DEADLOCK FALSE
SPECIFICATION FairSpec
CONSTANTS
    Workflows = {w1}
    Messages = {m1, m2}
    None = None
    MaxSignals = 3
    MaxCompletes = 1
    MaxFaults = 3
INVARIANTS
    TypeOK
    FifoConserved
    OverlapNeedsFault
PROPERTIES
    QueueEmptyAtVerdict
    ImplementsInbox
    SettledUnlessRejected
    DoneClosesUnlessRejected
