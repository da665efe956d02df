SPECIFICATION FairSpec
CONSTANTS
    Tasks = {t1, t2}
    Owners = {o1, o2}
    Requests = {r1, r2}
    Batchers = {r1}
    t1 = t1
    t2 = t2
    o1 = o1
    o2 = o2
    r1 = r1
    r2 = r2
    Owner <- MCOwner
    Missing = Missing
    RunningTTL = 1
    TerminalTTL = 2
INVARIANTS OneResult NotAhead OwnerOnly
PROPERTY CacheConverges
