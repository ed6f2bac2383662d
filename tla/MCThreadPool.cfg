\* Two workers, two callers, three tasks; the pool is started twice.
SPECIFICATION FairSpec
CONSTANTS
    t1 = t1
    t2 = t2
    t3 = t3
    c1 = c1
    c2 = c2
    Quit = Quit
    NoTask = NoTask
    Tasks <- MCTasks3
    Callers <- MCCallers
    nThreadCount = 2
    MaxStarts = 2
INVARIANTS
    OneHolder
    CloseStopsAll
PROPERTIES
    CloseReturns
    QueuedTaskTaken
    ImplementsExecutor
CHECK_DEADLOCK FALSE
