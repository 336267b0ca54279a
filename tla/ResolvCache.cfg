\* Two threads, four questions in one bucket: answers, waits, expiry and eviction.
CONSTANTS
    n1 = n1  c1 = c1  c2 = c2  qa = qa  qb = qb  qc = qc  bad = bad
    NoRequest = NoRequest  NoReply = NoReply
    NetIds = {n1}
    Clients = {c1, c2}
    Queries = {qa, qb, qc, bad}
    Malformed = {bad}
    Hashes = {0, 2}
    hash <- MCHash
    FlagSets <- MCFlags
    MaxCalls = 2
    MaxCacheEntries = 2
    TTLs = {0, 1, 2}
    MaxTime = 2
SPECIFICATION FairCacheSpec
INVARIANTS  NoLostWakeup PendingHasOwner  FoundIsRight TableConsistent
PROPERTIES EvictsOldest WaitersReleased
