SPECIFICATION FairSpec
CHECK_DEADLOCK FALSE
CONSTANTS
    w1 = w1
    w2 = w2
    w3 = w3
    Writes = {w1, w2}
    CommitRetaining = FALSE
    AbortRetaining = TRUE
    ServerAborts = TRUE
    SessionLoss = TRUE
    MaxConnects = 2
INVARIANT IInv
INVARIANT CommitKeeps
PROPERTY GarbageReleased
PROPERTY CommitReopens
