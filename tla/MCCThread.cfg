\* Two functions, two kernel threads one after the other.
SPECIFICATION FairSpec
CONSTANTS
    f1 = f1
    f2 = f2
    NULL = NULL
    Functions <- MCFunctions
    MaxThreads = 2
    MaxSuspends = 2
INVARIANTS
    OnlyThreadOfHandle
    FunctionNotDeleted
    EndedThreadNotValid
PROPERTIES
    StopAlwaysReturns
CHECK_DEADLOCK FALSE
