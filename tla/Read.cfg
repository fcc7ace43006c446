SPECIFICATION Spec
CONSTANTS
    None = None
    Sizes = {0, 1, 2, 3, 4, 5}
    Chunk = 2
    Tag = 1
    Windows = {1, 2}
INVARIANTS
    FailsClosed
    DoubtIsJustified
    RevokedReadsOnlyEdge
