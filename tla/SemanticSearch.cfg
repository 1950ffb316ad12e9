\* A search against appends, the index worker, failures, cancellation and Close.
SPECIFICATION FairSpec
CONSTANTS
    c1 = c1
    p1 = p1
    p2 = p2
    p3 = p3
    Calls <- MCCalls
    Pages <- MCPages
    Events <- MCEvents
    Matches <- MCMatches
    Near <- MCNear
    Records <- MCRecords
    Kind <- MCKind
    Alike <- MCAlike
    Budget = 4
    MaxPerKind = 1
    MaxSelected = 2
    Attempts = 2
    MaxSeq = 3
    MaxFaults = 1
INVARIANTS
    UniverseExact
    StoresOutliveSearches
PROPERTIES
    SearchesAreAtomic
    CloseReturns
\* A session that is closed and answers no more calls stops.
CHECK_DEADLOCK FALSE
