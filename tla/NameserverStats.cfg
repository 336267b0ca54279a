SPECIFICATION Spec
CONSTANTS
    s1 = s1
    s2 = s2
    s3 = s3
    Lookups = {c1, c2}
    ServerLists <- MCLists
    MaxSampleChoices = {0, 2}
    min_samples = 2
    success_threshold = 50
    MAXNS = 2
    MAXNSSAMPLES = 2
    MaxRevisions <- MCRevisions
SYMMETRY Symmetry
INVARIANTS
    
    RingIsWindow
    NotWrittenBack
CHECK_DEADLOCK FALSE
