SPECIFICATION Spec
CONSTANTS
    t1 = t1
    t2 = t2
    m1 = m1
    m2 = m2
    none = none
    Threads <- MCThreads
    Pool <- MCPool
    NoMapping <- none
    NR_RING_SLOTS = 2
    NR_RING_MAX_FAULTS = 2
    MaxTickets = 3
    NR_MAX_FAULTS = 2
    MaxGeneration = 3
    MaxEpoch = 1
    MaxSets = 2
INVARIANTS
    MappedWhileRead
    KillExact
    
PROPERTIES
    Promoted
