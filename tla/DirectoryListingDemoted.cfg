CONSTANTS
    Folders = {f}
    NoFolder = NoFolder
    MaxRevision = 1
    MaxOptions = 0
    MaxChanges = 0
    MaxPublishes = 1
    MaxDemotions = 1
    MaxTogether = 2
SPECIFICATION FairSpec
PROPERTIES
    RowsBecomeCurrent
