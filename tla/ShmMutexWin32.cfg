\* The Windows build: no semaphores, and nobody forces a lock open.
CONSTANTS
    Procs = {p1, p2}
    NoProc = NoProc
    Master = Master
    HasSem = FALSE
    Forces = FALSE
    MaxDead = 1
SPECIFICATION Spec
PROPERTIES
    DeadLockFreed
CHECK_DEADLOCK FALSE
