CONSTANTS
    c1 = c1
    w1 = w1
    w2 = w2
    Clients <- MCClients
    MaxRequests = 2
    Gets <- MCGets
    LoginUrls <- MCLogins
    LoginHeads <- MCLogins
    Blank <- MCBlank
    Servers = 2
    Workers <- MCWorkers
    CheckEvery = 1
    TimeOut = 1
    MaxTime = 2
SPECIFICATION FairHalves
INVARIANTS
    PacketsOnce
    AnsweredOnce
    LateBounded
    CrashOnlyWhileClosing
    DroppedWasIdle
PROPERTY
    LoginAnswered
CHECK_DEADLOCK FALSE
