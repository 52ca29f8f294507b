CONSTANTS
    Procs = {p1, p2}
    Ids = {device}
    NoId = NoId
    NoProc = NoProc
    NoManifest = NoManifest
SPECIFICATION FairSpec
PROPERTIES
    CallsReturn
