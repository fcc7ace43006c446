SPECIFICATION Spec
CONSTANTS
    None = None
    Paths = {"rest_read", "auth"}
    Triggers = {"rest_read"}
    Interval = 1
    DetectAfter = 1
    MinSamples = 2
    Settle = 1
    VerifyMax = 2
    MinInterval = 3
    MaxRestarts = 2
    Window = 6
    StatusPoll = 2
    GatePoll = 2
    MinAge = 1
    Created = 0
    MaxWatch = 2
    HardStop = 4
    Slow = 1
    MaxNow = 8
    MaxOperator = 1
INVARIANTS
    RestartsSpaced
    RecoveredReal
    EpisodeBounded
PROPERTIES
    RestartEarned
CHECK_DEADLOCK FALSE
