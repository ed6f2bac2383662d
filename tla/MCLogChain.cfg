\* A thread that traces, two lines; one of the two mains returns at most.
CONSTANTS
    t1 = t1
    s1 = s1
    s2 = s2
    Main = Main
    NULL = NULL
    Threads <- MCThreads
    Servers <- MCServers
    MaxLines = 2
SPECIFICATION FairBounded
INVARIANTS
    OneInstance
    DeletedNotUsed
    SentInOrder
    FileInOrder
    EndsOnce
    LateBounded
PROPERTIES
    ExitEnds
    LineLogged
CHECK_DEADLOCK FALSE
