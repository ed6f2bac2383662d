CONSTANTS
    w1 = w1
    w2 = w2
    w3 = w3
    MaxAccepts = 2
    Workers <- MCWorkers
    MaxPackets = 2
    MaxSends = 1
SPECIFICATION Spec
SYMMETRY Symmetric
INVARIANTS
    OneAccept
    OneRecv
    DeliveredOnce
    RegisteredFirst
    ServesWhileUp
CHECK_DEADLOCK FALSE
