CONSTANTS
    a1 = a1
    a2 = a2
    a3 = a3
    Addr = {a1, a2, a3}
    Entry = a1
    HostModes = {"async"}
    HostLocks = FALSE
    HostLoses = TRUE
    DetectWrites = TRUE
    Locations = 2
    MaxProcs = 2
    MaxStamp = 7
    MaxDepth = 1
    MaxCode = 2
SPECIFICATION Spec
INVARIANTS FreshCode LinksResolve
SYMMETRY Symmetry
PROPERTIES ImplementsProtocol
