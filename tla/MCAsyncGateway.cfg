SPECIFICATION Spec
CONSTANTS
    Tasks = {t1, t2}
    Workers = {w1, w2}
    t1 = t1
    t2 = t2
    w1 = w1
    w2 = w2
    NoTask = NoTask
    QueueCap = 1
    ScanLimit = 2
    MaxDeaths = 1
    MaxFaults = 1
SYMMETRY Symmetry
INVARIANT IInv
INVARIANT InOneHand
INVARIANT NoReplayOfDispatched
INVARIANT ReplayablePayload
INVARIANT UncertainWasSent
INVARIANT SentOncePerLife
INVARIANT RefusedNotExecuted
PROPERTY TerminalIsFinal
PROPERTY StateMachine
CHECK_DEADLOCK FALSE
