CONSTANTS
    PageCount = 3
    Usages = {{"read"}, {"read", "write"}}
    Values = {1}
    Accesses = {}
    Straddling = FALSE
    DetectWrites = FALSE
    InitPages = 2
    MinGrowth = 2
    Granule = 1
    MaxPhysical = 9
    FastCount = 2
SPECIFICATION Spec
INVARIANT ChecksPass
