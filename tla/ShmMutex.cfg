\* The Unix build: semaphores, and a master that forces locks open.
CONSTANTS
    Procs = {p1, p2, p3}
    NoProc = NoProc
    Master = Master
    HasSem = TRUE
    Forces = TRUE
    MaxDead = 2
SPECIFICATION Spec
INVARIANTS
    TypeOK
    MutualExclusion
    NoLostWakeup
    WaitCount
PROPERTIES
    ImplementsMutex
    SomeoneEnters
    DeadLockFreed
\* When no process wants the mutex and all have died nothing more happens.
CHECK_DEADLOCK FALSE
