\* Does Close clean the queue before the pool is gone?
SPECIFICATION Spec
CONSTANTS
    t1 = t1
    t2 = t2
    t3 = t3
    c1 = c1
    c2 = c2
    Quit = Quit
    NoTask = NoTask
    Tasks <- MCTasks2
    Callers <- MCCallers
    nThreadCount = 2
    MaxStarts = 1
INVARIANTS
    QueueClearedFirst
CHECK_DEADLOCK FALSE
