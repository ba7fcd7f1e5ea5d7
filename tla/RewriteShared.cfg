SPECIFICATION Spec
CONSTANTS
    Reqs = {r1, r2}
    Routes <- Documented
    Inputs <- Simple
INVARIANTS Isolated
CHECK_DEADLOCK FALSE
