SPECIFICATION Spec
CONSTANTS
    Reqs = {r1, r2}
    Setups <- All
    Threshold = 2
    Strikes = 3
    Grace = 1
    RetryDelay = 1
    RampUp = 1
    MaxLeak = 1
INVARIANTS BelowLimit
PROPERTIES Recovers Detects
