\* Scopes, versions, references and invalidation.
SPECIFICATION Spec
CONSTANTS
    Repos = {r1}
    Branches = {main, feature}
    Commits = {c1, c2}
    Digests = {d1, d2}
    PathOrder <- MCPaths
    None = None
    Inputs <- EveryInput
    Scopes = {"repo"}
    Envelopes <- MCEnvelopes
    MaxEvents = 4
SYMMETRY MCSymmetry
PROPERTIES
    GenerationsAreTokens
    LapsedMeansStale
    TerminalUnlessEmittedAgain
    CascadeComplete
    RevalidatedIsEligible
\* An instance stops at its bound on events.
CHECK_DEADLOCK FALSE
