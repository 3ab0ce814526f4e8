SPECIFICATION Spec
CONSTANTS
    Root = "root"
    NoNode = "none"
    MaxFollow = 3
    Absent = Absent
    MaxSize = 2
    Tree <- MCTree
    Ids <- MCIds
    MaxFd = 2
    Standard = 1
    Terminal = "tty"
    FirstData <- MCData
    Paths <- MCPaths
    OpenFlags <- MCOpenFlags
    StatusFlags <- MCStatusFlags
    Counts = {2}
    Texts <- MCTexts
    Seeks <- MCSeeks
    AtFlags <- MCAtFlags
    Wishes <- MCWishes
    CloseOnExecute = {FALSE}
    ListCounts = {0, 2}
    Stray = FALSE
    SizeLimit = 8
    MaxOffset = 2
    HostFails = TRUE
INVARIANTS TypeOK InstancesCounted
PROPERTIES ImplementsOpenFiles
VIEW Relevant
