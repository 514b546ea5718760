SPECIFICATION FairSpec
CHECK_DEADLOCK FALSE
CONSTANTS
    Requests = {r1, r2, r3, r4}
    None = None
    MaxAttempts = 3
    MaxTimeouts = 4
    MaxEnds = 1
    MaxBoots = 3
INVARIANTS
    TypeOK
    OverlapNeedsTimeout
PROPERTIES
    PollsForever
