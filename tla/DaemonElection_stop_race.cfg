SPECIFICATION FairSpec
CONSTANTS
    c1 = c1
    c2 = c2
    Daemons = {d1, d2, d3}
    Clients = {c1, c2}
    NoOne = NoOne
    Version <- BothNew
    FirstVersion = 1
    Manual = TRUE
    Timeouts = TRUE
    Faults = FALSE
PROPERTY
    StopReachesOlderDaemon
