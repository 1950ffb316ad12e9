\* Batches in reversed orders, a cache of one, and a breaker that opens
\* at the second failure.
SPECIFICATION FairSpec
CONSTANTS
    Calls = {c1, c2, c3}
    k1 = k1
    k2 = k2
    Keys <- MCKeys
    Batches <- MCBatches
    Capacity = 1
    Threshold = 2
INVARIANTS
    NoOrphanFlight
    BreakerConsistent
PROPERTIES
    EveryCallReturns
    ProbeDecides
\* Every call happens once.
CHECK_DEADLOCK FALSE
