\* Two clients, two queries, one deletion.
SPECIFICATION FairSpec
CONSTANTS
    a = a
    b = b
    q1 = q1
    q2 = q2
    None = None
    Clients <- MCClients
    Queries <- MCQueries
    MaxDeletes = 1
INVARIANTS
    UsesOnlyLiving
PROPERTIES
    ImplementsRegistry
    MapCatchesUp
CHECK_DEADLOCK FALSE
