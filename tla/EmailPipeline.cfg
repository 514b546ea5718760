CHECK_DEADLOCK FALSE
SPECIFICATION PipelineFairSpec
CONSTANTS
    t1 = t1
    Messages = {m1, m2}
    Threads = {t1}
    ThreadOf <- OneThread
    Requests = {r1}
    Ids = {i1, i2, i3, i4}
    None = None
    MaxFaults = 2
    MaxAttempts = 1
    MaxTimeouts = 0
    MaxEnds = 0
    MaxBoots = 1
    MaxSignals = 2
    MaxCompletes = 1
    MaxWorkflowFaults = 1
INVARIANTS
    ReadHasMessages
    OneWayThrough
PROPERTIES
    ReadsGrow
    NewestIsSettled

