CONSTANTS
    w1 = w1
    w2 = w2
    w3 = w3
    MaxEnds = 3
    Workers <- MCWorkers
    MaxPackets = 2
    MaxTotal = 2
SPECIFICATION FairBounded
INVARIANTS
    OneAccept
    PairsMutual
    DeliveredOnce
PROPERTIES
    AcceptsAgain
    ChunkForwarded
CHECK_DEADLOCK FALSE
