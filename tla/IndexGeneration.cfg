\* Two handles, configurations that differ in the namespace and in the ABI.
SPECIFICATION Spec
CONSTANTS
    Handles = {h1, h2}
    Files = {f1, f2, f3, f4}
    n1 = n1
    n2 = n2
    a1 = a1
    a2 = a2
    Configs <- MCConfigs
    None = None
    MaxGen = 3
    MaxFaults = 2
    MaxProcesses = 2
SYMMETRY MCSymmetry
INVARIANTS
    RecoveryFindsWhole
    NumberedOperationsServe
PROPERTIES
    GenerationsAdvance
\* The bounds end the processes, the faults and the generations.
CHECK_DEADLOCK FALSE
