\* Residency and the capsule after events, with a quota of one pin.
SPECIFICATION SchedulerSpec
CONSTANTS
    Repos = {r1, r2}
    Branches = {main, feature}
    Commits = {c1, c2}
    Digests = {d1}
    PathOrder <- MCPaths
    None = None
    Inputs <- MCInputs
    Scopes = {"branch"}
    Envelopes <- MCEnvelopes
    MaxEvents = 4
    MaxResidentPages = 2
    MaxPinnedPages = 1
SYMMETRY MCSymmetry
INVARIANTS
    NothingLapsedIsServed
    AnchorsArePinned
PROPERTIES
    ScopeChangesReviveNothing
\* An instance stops at its bound on events.
CHECK_DEADLOCK FALSE
