SPECIFICATION Spec
CONSTANTS
    Reqs = {r1, r2}
    Routes <- MCRoutes
    Inputs <- MCInputs
INVARIANTS LayerLaw 
SYMMETRY Symmetry
CHECK_DEADLOCK FALSE
