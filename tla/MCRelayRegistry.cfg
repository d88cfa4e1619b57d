CONSTANTS
    w1 = w1
    w2 = w2
    s1 = s1
    s2 = s2
    d1 = d1
    Workers = {w1, w2}
    Sessions = {s1, s2}
    Channels = {d1}
    WorkerOf <- Placement
    Ports = {p1, p2}
    Shared = shared
    MaxRetries = 3
    None = None
SPECIFICATION FairSpec
INVARIANTS ClaimsExact ExclusiveUse
PROPERTY AttemptsEnd
