SPECIFICATION StubSpec
CONSTANTS
    Scenes <- MCScenes
    MaxLinks = 2
    MaxAddrs = 2
INVARIANTS
    InterceptedNeverResolves
    
    
    SortedByRfc6724
CHECK_DEADLOCK FALSE
