\* Sessions of both modes over one ledger: a queue of one, overflow, failures,
\* crashes, and liveness of the worker and of Close.
SPECIFICATION FairSpec
CONSTANTS
    p1 = p1
    p2 = p2
    Pages <- MCPages
    Events <- MCEvents
    Modes = {TRUE, FALSE}
    QueueDepth = 1
    MaxEvents = 3
    MaxFaults = 2
    MaxOpens = 2
INVARIANTS
    TypeOK
    IndexIsPrefix
    NothingStranded
    QuiescentIsClean
    StatusIsHonest
    ErrCoversLag
PROPERTIES
    ImplementsWarmIndex
    EveryAppendIndexed
    CloseCompletes
\* A closed session that is not opened again stops.
CHECK_DEADLOCK FALSE
