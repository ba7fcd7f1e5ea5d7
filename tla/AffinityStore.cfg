SPECIFICATION Spec
CONSTANTS
    Keys = {k1, k2, k3, k4}
    Backends = {b1, b2}
    MaxSize = 3
    TTL = 1
    MaxTime = 3
INVARIANTS MapListAgree
PROPERTIES Implements
