\* Two workers, without connections: who runs the cache manager.
CONSTANTS
    Workers = {w1, w2}
    NoWorker = NoWorker
    ShutdownTimeout = FALSE
    MaxConns = 0
    MaxReopens = 0
SPECIFICATION Spec
INVARIANTS
    OneManager
    OwnerRuns
PROPERTIES
    ManagerTakesOver
\* All workers may have exited.
CHECK_DEADLOCK FALSE
