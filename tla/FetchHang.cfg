SPECIFICATION FairSpec
CONSTANTS
    Callers = {c1, c2}
    Urls = {u1}
    c1 = c1
    c2 = c2
    u1 = u1
    None = None
    MaxInflight = 1
PROPERTY EveryCallAnswered
CHECK_DEADLOCK FALSE
