SPECIFICATION FairSpec
CONSTANTS
    Tasks = {t1, t2}
    Workers = {w1}
    t1 = t1
    t2 = t2
    w1 = w1
    NoTask = NoTask
    QueueCap = 1
    ScanLimit = 2
    MaxDeaths = 1
    MaxFaults = 0
PROPERTY AcceptedIsSettled
CHECK_DEADLOCK FALSE
