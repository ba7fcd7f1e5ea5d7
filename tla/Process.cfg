\* One edit of the file and two signals.
SPECIFICATION Spec
CONSTANTS
    Contents <- MCContents
    Family <- MCFamily
    Models <- MCModels
    MaxEdits = 1
    MaxHups = 2
INVARIANTS NoLostSignal NoOrphans CrashLaw Watched Servable
PROPERTIES Applied ShutdownEnds
CHECK_DEADLOCK FALSE
