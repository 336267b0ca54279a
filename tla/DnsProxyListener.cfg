SPECIFICATION FairSpec
CONSTANTS
    r1 = r1  r2 = r2  r3 = r3  app = app  sys = sys  other = other
    Requests = {r1, r2, r3}
    Issued <- MCIssued
    KeyType = {app, sys, other}
    mLimitPerKey = 1
    MAX_QUERIES_IN_TOTAL = 1
    GlobalLimits = {0, 2}
INVARIANTS
    LimiterExact
    FamilyRespected

    
