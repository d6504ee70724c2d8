SPECIFICATION Spec
CHECK_DEADLOCK FALSE
CONSTANTS
    w1 = w1
    w2 = w2
    w3 = w3
    Writes = {w1, w2}
    CommitRetaining = FALSE
    AbortRetaining = FALSE
    ServerAborts = TRUE
    SessionLoss = FALSE
    MaxConnects = 1
INVARIANT RollbackUndoes
