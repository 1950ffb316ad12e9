SPECIFICATION Spec

CONSTANTS
    Repos = {r1}
    Branches = {main, feature}
    Commits = {c1, c2}
    Digests = {d1}
    PathOrder <- MCOnePath
    None = None
    Inputs <- TaskInputs
    Scopes = {"task", "branch"}
    Envelopes <- MCEnvelopes
    MaxEvents = 4

PROPERTIES
    TerminalIsFinal

\* An instance stops at its bound on events.
CHECK_DEADLOCK FALSE
