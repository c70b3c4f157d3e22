SPECIFICATION Spec
CONSTANTS
    MaxRequests = 2
    MaxRows = 3
    MaxCopyFrames = 2
    Capacity = 3
    ChunkSize = 2
    DrainCap = 2
    MaxDataRows = 2
INVARIANT
    EveryReplyIsOwn
