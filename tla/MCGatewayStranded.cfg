SPECIFICATION Spec
CONSTANTS
    Tasks = {t1}
    Workers = {w1}
    t1 = t1
    w1 = w1
    NoTask = NoTask
    QueueCap = 1
    ScanLimit = 1
    MaxDeaths = 1
    MaxFaults = 0
INVARIANT NoStrandedTask
CHECK_DEADLOCK FALSE
