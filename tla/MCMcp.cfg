SPECIFICATION McpSpec
CONSTANTS
    Clients = {c1}
    MaxEpoch = 4
    RestartLimit = 2
    RestartWindow = 3
    CallbackTimeout = 3
    Outcomes = {"ok", "fails", "no_callback", "write_fails"}
    UniqueEndpoint = TRUE
    Keys = {"k1", "k2"}
    MaxFailures = 2
    Tools = {"a", "b"}
    Jobs = {"w"}
    MaxEngineCalls = 2
    MaxEngines = 4
    Files = {1}
    MaxVersions = 2
    Slots = {1, 2}
    MaxStarts = 2
    MaxLost = 1
    Tables = {"t"}
    UserTables = {"a", "b"}
    Aliases = {"x"}
    MaxRows = 1
    MaxCalls = 3
    Queries = {"q"}
    Callers = {"a", "b"}
    MaxChanges = 3
    MaxSubs = 1
    Daemons = {"d1", "d2"}
    MaxClients = 3
    Releases <- MCReleases
    Plain = {"1", "2"}
    Wheels <- MCWheels
    Published <- MCPublished
INVARIANTS
    PublishedTogether
    NoUnmanagedEngine
    
    SlotIsCoherent
    
    
    StateDirIsSound
    
PROPERTIES
    RestartsAreRateLimited
    
