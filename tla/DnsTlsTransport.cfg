\* Three queries, two ids, two tries.
CONSTANTS
    q1 = q1  q2 = q2  q3 = q3
    NoQuery = NoQuery  NoAnswer = NoAnswer
    Queries = {q1, q2, q3}
    TooShort = {}
    MaxId = 1
    mMaxTries = 2
    MaxSockets = 7
SPECIFICATION FairSpec
INVARIANTS    ConnectsBounded
PROPERTIES ImplementsService 
