CONSTANTS
    Paths = {p1, p2}
    Queries = {"any", "other"}
    None = None
    Docs = {d}
    p1 = p1
    Places <- PlacesOfOne
    Sections <- TwoSections
    Hits <- AllOrNothing
    MaxInputs = 3
    MaxChanges = 1
SPECIFICATION FairSpec
PROPERTIES
    ScanServes
    SearchServes
    
CHECK_DEADLOCK FALSE
