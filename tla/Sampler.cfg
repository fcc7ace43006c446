SPECIFICATION FairSpec
CONSTANTS
    p1 = p1
    p2 = p2
    Paths = {p1}
    Interval = 1
    MaxWait = 6
    Settle = 2
    Deadline = 2
    Slack = 1
    SuspendLengths = {3}
    MaxSuspends = 1
    MaxTime = 15
INVARIANTS
    TypeOK
    WindowMatchesHistory
    CountsMatchHistory
    HardStop
    PausedReported
    NullIsEarned
PROPERTIES
    ResultsStable
    Terminates
