CONSTANTS
    PageCount = 3
    Usages = {{"read", "write"}, {"read", "write", "execute"}}
    Values = {1}
    Accesses = {"store", "write", "fetch"}
    Straddling = FALSE
    DetectWrites = TRUE
    InitPages = 2
    MinGrowth = 2
    Granule = 1
    MaxPhysical = 3
    FastCount = 1
SPECIFICATION Spec
INVARIANT TranslationsCurrent
