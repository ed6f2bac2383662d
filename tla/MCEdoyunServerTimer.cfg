CONSTANTS
    c1 = c1
    w1 = w1
    w2 = w2
    Clients <- MCClients
    MaxRequests = 0
    Gets = {}
    LoginUrls = {}
    LoginHeads = {}
    Blank = {}
    Servers = 1
    Workers <- MCWorkers
    CheckEvery = 0
    TimeOut = 1
    MaxTime = 3
SPECIFICATION FairSpec
PROPERTY
    IdleClientOffline
CHECK_DEADLOCK FALSE
