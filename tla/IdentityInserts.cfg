SPECIFICATION Spec
CONSTANTS
    s1 = s1
    s2 = s2
    t1 = t1
    t2 = t2
    None = None
    Sessions = {s1, s2}
    Tables = {t1}
    ExplicitIds = {2}
    BatchAborts = TRUE
    MaxId = 3
INVARIANT IInv
INVARIANT OwnIdReturned
INVARIANT IdentityInsertReset
INVARIANT UpdateCounts
INVARIANT CounterAhead
PROPERTY FlushRestarts
