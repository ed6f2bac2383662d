CONSTANTS
    w1 = w1
    w2 = w2
    w3 = w3
    MaxAccepts = 3
    Workers <- MCTwoWorkers
    MaxPackets = 1
    MaxSends = 0
SPECIFICATION FairServing
PROPERTIES
    ChunkTold
    AcceptsAgain
CHECK_DEADLOCK FALSE
