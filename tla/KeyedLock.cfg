CONSTANTS
    Calls = {c1, c2, c3, c4}
    Keys = {k1, k2}
    None = None
SPECIFICATION Spec
CHECK_DEADLOCK FALSE
PROPERTIES
    EveryCallRuns
    ImplementsFifoLock
