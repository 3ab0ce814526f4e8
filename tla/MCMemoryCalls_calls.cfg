CONSTANTS
    PageCount = 5
    Usages = {{"read", "write"}, {"read", "execute"}, {"lock"}}
    Values = {1}
    Accesses = {}
    Straddling = FALSE
    DetectWrites = FALSE
    InitPages = 2
    MinGrowth = 2
    Granule = 1
    MaxPhysical = 4
    FastCount = 1
    PageBytes = 2
    Program <- MCProgram
    ProgramUsage <- Code
    BreakStart = 2
    StartOfAllocations = 4
    EndOfAllocations = 8
    SpacingBetweenAllocations = 1
    Requests <- MCRequests
SPECIFICATION CallsSpec
INVARIANTS PagesBacked NeighborsContiguous
PROPERTY ImplementsMappings
VIEW Relevant
