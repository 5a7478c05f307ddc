\* One worker that never crashes, one signal.
CONSTANTS
    Procs = {p1, p2}
    NoProc = NoProc
    MaxSlots = 2
    MaxWorkers = 1
    MaxSignals = 1
    MaxCrashes = 0
SPECIFICATION Spec
PROPERTIES
    QuitExits
CHECK_DEADLOCK FALSE
