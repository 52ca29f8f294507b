CONSTANTS
    Paths = {a, b}
    NoPath = NoPath
    MaxRevision = 2
    MaxActions = 3
SPECIFICATION ActionsFairSpec
INVARIANTS
    WaitsForSomebody
    HeldIsNotCancelled
    RunsWhatWasBegun
PROPERTIES
    SignalAnswersLast
    OpensWhatHostFinished
    
    
