CHECK_DEADLOCK FALSE
SPECIFICATION PolledSpec
CONSTANTS
    t1 = t1
    Messages = {m1, m2}
    Threads = {t1}
    ThreadOf <- OneThread
    Requests = {r1, r2}
    Ids = {i1, i2, i3, i4, i5, i6, i7, i8, i9}
    None = None
    MaxFaults = 0
    MaxAttempts = 2
    MaxTimeouts = 1
    MaxEnds = 0
    MaxBoots = 1
INVARIANT ExistingThreadIsUpdated
