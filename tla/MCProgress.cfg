SPECIFICATION ProgressSpec
CONSTANTS
    Handlers <- MCHandlers
    MaxClients = 2
INVARIANTS
    WaitingListenerIsWoken
PROPERTIES
    ShutdownCompletes
    EveryGetReturns
    EnsureSucceeds
    DeadEngineIsHandled
    CallsEnd
    WatchedFileIsHandled
