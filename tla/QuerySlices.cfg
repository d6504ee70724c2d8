SPECIFICATION Spec
CONSTANTS
    q1 = q1
    q2 = q2
    None = None
    Queries = {q1, q2}
    N = 4
    MaxLow = 5
    Bounds <- FewBounds
INVARIANT IInv
INVARIANT SliceOfSlices
INVARIANT DerivedOrder
INVARIANT OrderKept
