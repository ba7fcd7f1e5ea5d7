SPECIFICATION Spec
CONSTANTS
    b1 = b1
    b2 = b2
    G1 = G1
    G2 = G2
    Backends = {b1, b2}
    Groups = {G1, G2}
    r1 = r1
    r2 = r2
    Reqs = {r1, r2}
    MaxGen = 2
    Known <- SwapKnown
    Default <- SwapDefault
    Members <- SwapMembers
    Declared <- SwapDeclared
    MaxConc <- Limits
    Routes <- Mixed
CHECK_DEADLOCK FALSE
INVARIANTS InFlightLaw SemaphoreLaw  SnapshotOrder
PROPERTIES Served
