\* The worker against events, failures, close, crash, reopen and rebuild; liveness.
SPECIFICATION FairSpec
CONSTANTS
    p1 = p1
    p2 = p2
    p3 = p3
    Pages <- MCPages
    Events <- MCEvents
    Denied <- MCDenied
    BatchSize = 2
    MaxSeq = 4
    MaxFaults = 2
    MaxOpens = 2
INVARIANTS
    ProjectionsAgree
    VectorsMatchPages
    QuiescentMeansCovered
PROPERTIES
    BacklogDrains
\* A closed session that is not opened again stops.
CHECK_DEADLOCK FALSE
