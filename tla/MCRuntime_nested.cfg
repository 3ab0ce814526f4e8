CONSTANTS
    a1 = a1
    a2 = a2
    a3 = a3
    Addr = {a1, a2}
    Entry = a1
    HostModes = {"inplace", "async"}
    HostLocks = TRUE
    HostLoses = FALSE
    DetectWrites = FALSE
    Locations = 2
    MaxProcs = 2
    MaxStamp = 8
    MaxDepth = 11
    MaxCode = 1
SPECIFICATION FairSpec
INVARIANTS TypeOK NoDanglingFrame OneActivity CallbackMatches NoInternalError ResultOnce NoLostWakeup
PROPERTIES SyscallReturns
