\* Three slots and four process instances: a worker is respawned, workers that
\* died make room in the middle of the table, a configuration asks for more
\* workers than there are slots.
CONSTANTS
    Procs = {p1, p2, p3, p4}
    NoProc = NoProc
    MaxSlots = 3
    MaxWorkers = 4
    MaxSignals = 2
    MaxCrashes = 2
SPECIFICATION Spec
SYMMETRY ProcSymmetry
INVARIANTS
    TypeOK
    Tracked
    NoOrphans
    DistinctIds
    OneGeneration
    EventsOpen
    DeadWillBeRespawned
PROPERTIES
    HealthyNotKilled
    ImplementsSupervisor
\* The master may exit, or wait in its loop for ever.
CHECK_DEADLOCK FALSE
