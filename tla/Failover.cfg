SPECIFICATION Spec
CONSTANTS
    r1 = r1
    r2 = r2
    r3 = r3
    None = None
    Reqs = {r1, r2, r3}
    Configs <- MCConfigs
    Hold = 1
    MaxNow = 2
SYMMETRY Symmetric
INVARIANTS
    TypeOK
    StandbyEarned
    FailsOnlyIfAllFail
CHECK_DEADLOCK FALSE
