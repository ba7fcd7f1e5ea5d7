SPECIFICATION Spec
CONSTANTS
    b1 = b1
    b2 = b2
    G1 = G1
    G2 = G2
    Backends = {b1}
    Groups = {G1}
    r1 = r1
    r2 = r2
    Reqs = {r1, r2}
    MaxGen = 1
    Known <- DropKnown
    Default <- DropDefault
    Members <- DropMembers
    Declared <- DropDeclared
    MaxConc <- Limits
    Routes <- OnlyGroup
CHECK_DEADLOCK FALSE
INVARIANTS ReloadTransparent
