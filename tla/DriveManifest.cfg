CONSTANTS
    Procs = {p1, p2}
    Ids = {device, host}
    NoId = NoId
    NoProc = NoProc
    NoManifest = NoManifest
SPECIFICATION Spec
SYMMETRY Symmetry
INVARIANTS
    MovesExclusive
    SyncingFilesUntouched
    SectionsBackManifest
    AdoptionHandsOutHost
    CreateHandsOutReady
PROPERTIES
    UserDirectoriesKept
    IdentityRecognised
    ImplementsIdentity
