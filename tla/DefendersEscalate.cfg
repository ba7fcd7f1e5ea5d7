SPECIFICATION Spec
CONSTANTS
    Reqs = {r1, r2, r3, r4, r5}
    Keys = {k1}
    Routes = {"a", "b"}
    NoBlock = NoBlock
    Setups <- Defaults
    Window = 1
    CleanupEvery = 2
    CleanupMin = 1
    MaxTime = 0
INVARIANTS Escalates
CHECK_DEADLOCK FALSE
