SPECIFICATION Spec
CONSTANTS
    c1 = c1
    c2 = c2
    None = None
    Cursors = {c1}
    Batches <- MCBatches
    ManyLengths = {1}
    Failures = TRUE
    MaxExecs = 2
INVARIANT FetchAfterFailureRaises
