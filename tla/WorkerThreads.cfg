\* One worker with connections and reopen requests.
CONSTANTS
    Workers = {w1}
    NoWorker = NoWorker
    ShutdownTimeout = TRUE
    MaxConns = 2
    MaxReopens = 2
SPECIFICATION Spec
INVARIANTS
    TypeOK
    DrainsOnceExiting
PROPERTIES
    QuitEnds
    FlagServed
\* The worker may have exited.
CHECK_DEADLOCK FALSE
