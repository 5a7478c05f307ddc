\* One worker, two requests to reopen the logs.
CONSTANTS
    Workers = {w1}
    NoWorker = NoWorker
    ShutdownTimeout = TRUE
    MaxConns = 0
    MaxReopens = 2
SPECIFICATION Spec
PROPERTIES
    ReopenServed
CHECK_DEADLOCK FALSE
