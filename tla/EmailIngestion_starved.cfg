SPECIFICATION FairSpec
CONSTANTS
    t1 = t1
    Messages = {m1, m2}
    Threads = {t1}
    ThreadOf <- OneThread
    Requests = {r1}
    Ids = {i1, i2, i3, i4, i5}
    None = None
    MaxFaults = 0
PROPERTIES
    EveryMessageIsSignalled
