CONSTANTS
    Files = {a, b}
    Deleted = {d}
    Callers = {c1, c2}
    Intake = Intake
    None = None
    MaxNodes = 2
    MaxKeys = 2
    MaxCalls = 2
    MaxEvents = 1
SYMMETRY Symmetry
SPECIFICATION Spec
INVARIANTS
    
    IntakeComplete
PROPERTIES
    TombstonesAreDue
    
