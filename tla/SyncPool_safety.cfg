SPECIFICATION Spec
CONSTANTS
    Threads = {t1, t2, t3}
    Conns = {c1, c2, c3, c4, c5}
    NoConn = NoConn
    MaxSize = 2
    MinIdle = 1
    IdleTimeout = TRUE
    MaxLifetime = TRUE
    WaitTimeout = TRUE
    MaxGets = 2
SYMMETRY Symmetry
INVARIANTS
    TypeOK
    Accounting
    WithinMaxSize
    HandshakeSerialized
    NoLostWakeup
PROPERTY
    ImplementsContract
