SPECIFICATION FairSpec
CONSTANTS
    NetIds = {n1, n2}
    Prefixes = {p1}
    NoPrefix = NoPrefix
    NoConfig = NoConfig
    IdCount = 4
    MaxStarts = 3
INVARIANTS
    ToldIsDiscovered
PROPERTIES
    RecordedByLatest
    SupersededEnds
