\* Does wq_destroy destroy the mutex only after every worker has exited?
CONSTANTS
    w1 = w1
    w2 = w2
    Workers <- MCWorkers
    MaxWork = 3
    ShutdownTime = 2

SPECIFICATION Spec


CHECK_DEADLOCK FALSE
INVARIANT DrainOnDestroy
