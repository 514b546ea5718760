CHECK_DEADLOCK FALSE
SPECIFICATION PolledSpec
CONSTANTS
    t1 = t1
    Messages = {m1, m2}
    Threads = {t1}
    ThreadOf <- OneThread
    Requests = {r1, r2}
    Ids = {i1, i2, i3, i4, i5, i6, i7, i8, i9}
    None = None
    MaxFaults = 1
    MaxAttempts = 2
    MaxTimeouts = 1
    MaxEnds = 1
    MaxBoots = 2
SYMMETRY Symmetry
INVARIANTS
    TypeOK
    AnnouncedIsStored
    DocsNeedTimeouts
    RepeatsNeedTimeouts
    OneStoryPerThread
    SavesAreAccepted
PROPERTIES
    LossesAreOwned
