CHECK_DEADLOCK FALSE
SPECIFICATION ParsingFairSpec
CONSTANTS
    Parses = {p1}
    Threads = {t1}
    None = None
    MaxFaults = 0
    Messages = {m1}
    MaxSignals = 2
    MaxMails = 2
    MaxWorkflowFaults = 0
PROPERTIES
    DoneThreadsEnd
