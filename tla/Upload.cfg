SPECIFICATION FairSpec
CONSTANTS
    p = p
    q = q
    None = None
    Procs <- MCProcs
    Methods = {"s3-multipart", "tus"}
    ChunkCount = 3
    ChunkUnits = 3
    TusChunk = 2
    PartChunks <- SameLayout
    Sources <- SameSource
    Urls = {1, 2, 3, 4}
    MaxFaults <- MCFaults
INVARIANTS
    TypeOK
    StoredBytesHashed
PROPERTIES
    AssetSpec
    Resumed
