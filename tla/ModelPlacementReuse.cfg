CONSTANTS
    Models = {a, b}
    Placers = {p}
    Types = {lora, vae}
    Root = Root
    NoModel = NoModel
    NoPlacer = NoPlacer
    NoPlace = NoPlace
    MaxName = 1
    MaxHops = 6
    MaxCrashes = 0
SPECIFICATION Spec
INVARIANTS
    MovesKeepReferences
