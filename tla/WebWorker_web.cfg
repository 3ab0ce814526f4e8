CONSTANTS
    Operations = {"handle", "execute"}
    MayFail = TRUE
    MaxTasks = 3
    MaxTyped = 4
SPECIFICATION WebFairSpec
INVARIANTS CommandAccepted LinesGoOn PageTruthful BusyCoversTask NoHandlerDropped
PROPERTIES LinesUsed CommandEnds
