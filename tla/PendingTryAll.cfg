\* System callers may also pass RESOLV_TRY_ALL_USABLE_SERVERS.
CONSTANTS
    n1 = n1  c1 = c1  c2 = c2  q1 = q1  h1 = h1
    NoRequest = NoRequest
    NetIds = {n1}
    Clients = {c1, c2}
    Hashes = {h1}
    hash <- MCHash
    Queries = {q1}
    Malformed = {}
    MaxCalls = 1
    FlagSets <- SystemFlags
SPECIFICATION FairSpec
PROPERTY WaitersReleased
