CONSTANTS
    Files = {a, b}
    Deleted = {d}
    Callers = {c1, c2}
    Intake = Intake
    None = None
    MaxNodes = 1
    MaxKeys = 3
    MaxCalls = 2
    MaxEvents = 0
SYMMETRY Symmetry
SPECIFICATION Spec
PROPERTY IdentityFollowsMove
