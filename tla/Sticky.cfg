SPECIFICATION HSpec
CONSTANTS
    b1 = b1
    b2 = b2
    k1 = k1
    NoKey = NoKey
    None = None
    Backends <- TwoBackends
    Keys = {k1}
    Reqs = {r1, r2}
    KeyOf <- SameKey
    Strategies = {"single", "round_robin", "least_loaded", "sticky_least_loaded"}
    MaxConcurrency = 1
    KVLimit = 85
    StallLimit = 10
    Scrapes <- Full
    Unsteady = {b1, b2}
    Outcomes = {"ok", "timeout", "broken"}
    MaxSize = 2
    TTL = 0
    MaxTime = 1
INVARIANTS SessionKept Sheltered NeverEmpty ScoreMonotone
CHECK_DEADLOCK FALSE
SYMMETRY Symmetry
