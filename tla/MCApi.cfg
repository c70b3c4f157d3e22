SPECIFICATION ApiSumSpec
CONSTANTS
    MaxRequests = 3
    MaxRows = 3
    MaxCopyFrames = 2
    Capacity = 3
    ChunkSize = 2
    DrainCap = 2
    MaxDataRows = 2
    MaxAsyncRequests = 3
    MaxAsyncRows = 2
    MaxAsyncFrames = 2
    AsyncCapacity = 3
    AsyncChunkSize = 2
    AsyncDrainCap = 2
    Instances = {1, 2}
    Texts <- MCTexts
    Keywords = {"select"}
    TruncLen = 2
    MaxLog = 4
    Budget = 3
    MaxMessages = 3
    MaxChunks = 2
    MaxPolls = 2
    MaxTokens = 3
    MaxGuards = 2
    MaxWrites = 3
    Tasks = {1, 2}
    PoolSize = 2
    MaxOpens = 3
    Cols = 2
    ChunkRows = 2
    MaxInsRows = 4
    FlushEvery = 2
    MaxArrowCalls = 4
INVARIANTS
    TypeOK
    
    RequestsAreIsolated
    AsyncInStep
    
    ServersAreOwned
    
    GrpcAnswerIsWhole
    ConnectIsSound
    
    CodecIsExact
PROPERTIES
    CommittedWorkIsKept
    
