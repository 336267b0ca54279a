SPECIFICATION DispatcherSpec
CONSTANTS
    NetIds = {n1}
    Servers = {s4, s6}
    IPv6 = {s6}
    Threads = {t1, t2}
    Strict = FALSE
    quickFallback = FALSE
    triggerThr = 1
    unusableThr = 1
    IDLE_TIMEOUT = 1
    MaxTime = 2
    MaxQueries = 3
    NoTransport = NoTransport
SYMMETRY ThreadSymmetry
INVARIANTS
    PointerValid
    AsksOnce
