CONSTANTS
    None = None
    Directories = {m1, m2}
    MaxSets = 4
    Pool = {w1, w2}
    Others = {o}
    Responses = {r1, r2}
    MaxRevision = 2
    MaxPrunes = 1
    MaxLoads = 2
SPECIFICATION ViewsSpec
INVARIANTS
    PreviewIsOfRevision
PROPERTIES
    CatalogServes
    PoolDrains
CHECK_DEADLOCK FALSE
