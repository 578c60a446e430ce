\* The work queue with its two workers, three enqueues and a grace period
\* of two sleeps; wq_destroy may be called at any point.  Idle workers wait
\* for work forever, so the system may stop: deadlock is not checked.
CONSTANTS
    w1 = w1
    w2 = w2
    Workers <- MCWorkers
    MaxWork = 3
    ShutdownTime = 2

SPECIFICATION Spec

INVARIANT TypeOK
INVARIANT QueueIntact
PROPERTY ImplementsFIFO
PROPERTY ItemEventuallyHandled

CHECK_DEADLOCK FALSE
