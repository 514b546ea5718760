CHECK_DEADLOCK FALSE
SPECIFICATION Spec
CONSTANTS
    Workflows = {w1}
    Messages = {m1, m2}
    None = None
    MaxSignals = 2
    MaxCompletes = 0
    MaxFaults = 0
INVARIANTS
    NothingDropped
