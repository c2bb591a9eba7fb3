SPECIFICATION FairSpec
CONSTANTS
    Threads = {t1, t2, c1, c2}
    Closers = {c1, c2}
    MaxCalls = 5
PROPERTIES
    ImplementsGate
    NoLostWakeup
CHECK_DEADLOCK FALSE
