SPECIFICATION FairSpec
CONSTANTS
    Callers = {c1, c2}
    Urls = {u1, u2}
    c1 = c1
    c2 = c2
    u1 = u1
    u2 = u2
    None = None
    MaxInflight = 1
INVARIANTS IInv EntryIsLive SingleFlight WokenIffResult DownloadsBounded
PROPERTY AnsweredUnlessAborted
CHECK_DEADLOCK FALSE
