SPECIFICATION Spec
SYMMETRY CursorSymmetry
CONSTANTS
    c1 = c1
    c2 = c2
    None = None
    Cursors = {c1, c2}
    Batches <- MCBatches
    ManyLengths = {0, 1, 2}
    Failures = TRUE
    MaxExecs = 2
INVARIANT IInv
INVARIANT FreshRows
INVARIANT ManyRowcount
INVARIANT RowsMatchDescription
INVARIANT ReturnValueMatchesRows
PROPERTY ClosedConnectionIsSilent
