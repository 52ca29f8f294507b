\* A view without a folder has nothing left to do.
CHECK_DEADLOCK FALSE
CONSTANTS
    Folders = {f, g}
    NoFolder = NoFolder
    MaxRevision = 2
    MaxOptions = 1
    MaxChanges = 1
    MaxPublishes = 1
    MaxDemotions = 1
    MaxTogether = 2
SPECIFICATION FairSpec
INVARIANTS
    RowsOfFolder
PROPERTIES
    RowsCurrentUnlessDemoted
