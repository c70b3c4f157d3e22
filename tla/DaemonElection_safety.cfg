SPECIFICATION Spec
CONSTANTS
    c1 = c1
    c2 = c2
    Daemons = {d1, d2, d3}
    Clients = {c1, c2}
    NoOne = NoOne
    Version <- Mixed
    FirstVersion = 1
    Manual = TRUE
    Timeouts = TRUE
    Faults = TRUE
SYMMETRY Symmetry
INVARIANTS
    TypeOK
    ServingIsDiscoverable
    FreeLockMeansGone
    
