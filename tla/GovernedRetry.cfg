SPECIFICATION Spec
CONSTANTS
    j1 = j1
    j2 = j2
    j3 = j3
    other = other
    old = old
    new = new
    k1 = k1
    k2 = k2
    None = None
    Jobs = {j1, j2, j3}
    Sessions <- MCSessions
    User <- MCUser
    Requests = {old, new}
    Initial = {old}
    Sinks = {}
    CallIds = {1, 2}
    Target = old
    MaxTurns = 2
    MaxChats = 1
SYMMETRY Symmetric
INVARIANT FailedConfirmRanNothing
CHECK_DEADLOCK FALSE
