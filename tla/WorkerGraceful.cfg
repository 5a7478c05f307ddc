\* One worker, one connection.
CONSTANTS
    Workers = {w1}
    NoWorker = NoWorker
    ShutdownTimeout = TRUE
    MaxConns = 1
    MaxReopens = 0
SPECIFICATION Spec
INVARIANTS
    GracefulExit
CHECK_DEADLOCK FALSE
