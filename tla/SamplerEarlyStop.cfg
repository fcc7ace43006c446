SPECIFICATION FairSpec
CONSTANTS
    p1 = p1
    p2 = p2
    Paths = {p1, p2}
    Interval = 2
    MaxWait = 9
    Settle = 2
    Deadline = 1
    Slack = 1
    SuspendLengths = {4}
    MaxSuspends = 0
    MaxTime = 16
PROPERTIES
    RecoveryAwaited
