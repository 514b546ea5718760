CHECK_DEADLOCK FALSE
SPECIFICATION ParsingSpec
CONSTANTS
    Parses = {p1, p2}
    Threads = {t1, t2}
    None = None
    MaxFaults = 1
    Messages = {m1}
    MaxSignals = 2
    MaxMails = 3
    MaxWorkflowFaults = 1
SYMMETRY Symmetry
INVARIANTS
    TypeOK
    MixedOnlyIfDisturbed
    FailureIsNoVerdict
PROPERTIES
    ClosedByOwnVerdict
