SPECIFICATION FairSpec
CONSTANTS
    Clients = {c1, c2}
    MaxEpoch = 3
    RestartLimit = 3
    RestartWindow = 12
    CallbackTimeout = 12
    Outcomes = {"ok"}
    UniqueEndpoint = FALSE
PROPERTY
    NoSpuriousRestart
