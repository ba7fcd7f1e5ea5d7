SPECIFICATION Spec
CONSTANTS
    Reqs = {r1, r2, r3, r4}
    Keys = {k1, k2, k3}
    Routes = {"a", "b"}
    NoBlock = NoBlock
    Setups <- Several
    Window = 1
    CleanupEvery = 2
    CleanupMin = 1
    MaxTime = 4
INVARIANTS NoFalseAlarm MissBound SweepBound PanicLaw
SYMMETRY Symmetry
CHECK_DEADLOCK FALSE
