\* One server, with and without a name, through strict, opportunistic and OFF mode and destruction.
CONSTANTS
    n1 = n1  s1 = s1  host = host  m1 = m1  m2 = m2  k1 = k1  k2 = k2
    Nobody = Nobody  NoName = NoName
    NetIds = {n1}
    Servers = {s1}
    Names = {host}
    Marks = {m1}
    DdrIds = {}
    Controllers = {k1}
    MaxRunning = 2
SPECIFICATION FairSpec
INVARIANTS  InProcessHasThread NoConfigLeft ReportedFailureIsReal
PROPERTY ThreadsEnd
