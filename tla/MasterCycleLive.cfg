\* No symmetry: the properties are liveness properties.
CONSTANTS
    Procs = {p1, p2, p3}
    NoProc = NoProc
    MaxSlots = 2
    MaxWorkers = 2
    MaxSignals = 2
    MaxCrashes = 1
SPECIFICATION Spec
PROPERTIES
    StopExits
    DeadReaped
\* The master may exit, or wait in its loop for ever.
CHECK_DEADLOCK FALSE
