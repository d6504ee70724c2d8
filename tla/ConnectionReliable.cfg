SPECIFICATION Spec
CHECK_DEADLOCK FALSE
CONSTANTS
    w1 = w1
    w2 = w2
    w3 = w3
    Writes = {w1, w2, w3}
    CommitRetaining = FALSE
    AbortRetaining = FALSE
    ServerAborts = FALSE
    SessionLoss = TRUE
    MaxConnects = 2
INVARIANT UnitAccounted
INVARIANT AutoIsDurable
INVARIANT RollbackUndoes
PROPERTY ManualIsAtomic
PROPERTY ClosedRaises
PROPERTY ImplementsContract
