SPECIFICATION WFairSpec
CHECK_DEADLOCK FALSE
CONSTANTS
    w1 = w1
    w2 = w2
    w3 = w3
    Writes = {w1, w2, w3}
    Dangling = {w3}
    CommitRetaining = FALSE
    AbortRetaining = FALSE
    ServerAborts = TRUE
    SessionLoss = TRUE
    MaxConnects = 2
    MaxDepth = 3
    MaxSavepoints = 2
INVARIANT PendingIsWork
INVARIANT BlockOutcome
INVARIANT WInv
PROPERTY ImplementsAtomic
PROPERTY ExitEnds
