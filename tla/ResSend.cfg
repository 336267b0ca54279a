SPECIFICATION Spec
CONSTANTS
    NSERVERS = 2
    retry_count = 2
    MaxWaits = 2
    Scenes <- MCScenes
INVARIANTS
    
    StrictStaysPrivate
    
CHECK_DEADLOCK FALSE
PROPERTY Returns
