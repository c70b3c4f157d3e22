SPECIFICATION Spec
CONSTANTS
    Threads = {t1, t2}
    Conns = {c1, c2, c3, c4}
    NoConn = NoConn
    MaxSize = 2
    MinIdle = 1
    IdleTimeout = TRUE
    MaxLifetime = TRUE
    WaitTimeout = FALSE
    MaxGets = 2
PROPERTY
    IdleEvictionKeepsFloor
