SPECIFICATION FairSpec
CONSTANTS
    Clients = {c1}
    MaxEpoch = 1
    RestartLimit = 3
    RestartWindow = 12
    CallbackTimeout = 12
    Outcomes = {"no_callback"}
    UniqueEndpoint = FALSE
PROPERTY
    BrokenEngineGivesUp
