SPECIFICATION Spec
CONSTANTS
    q1 = q1
    q2 = q2
    s1 = s1
    s2 = s2
    None = None
    Queries <- MCQueries
    Servers <- MCServers
    MAX_BUFFERED_CMD_COUNT = 1
    MAX_BUFFERED_COMMANDS = 1
    MAX_PENDING_REQUESTS = 1
    MaxProbes = 2
    Scenes <- MCScenes
    MaxNets = 2
    MaxConns = 2
INVARIANTS
    SentOnlyToValidated
    
CHECK_DEADLOCK FALSE
PROPERTIES
    ImplementsService
    
