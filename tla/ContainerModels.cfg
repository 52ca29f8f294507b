CONSTANTS
    Models = {a, b}
    Placers = {p, q}
    Types = {lora, vae}
    Root = Root
    NoModel = NoModel
    NoPlacer = NoPlacer
    NoPlace = NoPlace
    MaxName = 1
    MaxHops = 6
    MaxCrashes = 1
    Files <- SomeFiles
    Initial <- AtMostOneMissing
    Folders = {"LoRA"}
    None = None
    MaxChanges = 2
SPECIFICATION ContainerSpec
SYMMETRY Symmetry
INVARIANTS
    
    CompanionsFollow
    RowsPartition
    OfferedIsShown
    
PROPERTIES
    ResolvedUnchanged
