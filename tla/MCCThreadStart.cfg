\* Does Start resume a paused thread?
SPECIFICATION Spec
CONSTANTS
    f1 = f1
    f2 = f2
    NULL = NULL
    Functions <- MCFunctions
    MaxThreads = 1
    MaxSuspends = 2
INVARIANTS
    StartResumes
CHECK_DEADLOCK FALSE
