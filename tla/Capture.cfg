SPECIFICATION Spec
CONSTANTS
    Reqs = {r1, r2}
    MaxGen = 2
    MaxArm = 2
    Settings <- ReloadedSettings
    DefaultMaxMessages = 1
    MaxAllowedMessages = 3
CHECK_DEADLOCK FALSE
INVARIANTS WindowLaw SlotBound
PROPERTIES SlotWritten
