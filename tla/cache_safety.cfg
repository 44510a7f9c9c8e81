\* Two handlers and the inserter on a table of at most three rows: all three
\* may hold the same id, a crash falls between any steps, and one of the two
\* contents a row may have keeps the server from starting again.
CONSTANTS
    h1 = h1
    h2 = h2
    r1 = r1
    r2 = r2
    Handlers = {h1, h2}
    Rows = {r1, r2}
    SentIds = {0, 1}
    MaxRows = 3
    MaxList = 1
    MaxBatch = 2
    DbFaults = TRUE
    Unreadable = {r2}
SPECIFICATION Spec
SYMMETRY CacheSymmetry
INVARIANTS
    NoDuplicateKey
    CacheWithinDb
    ToldStored
    ToldVisible
PROPERTIES
    TableIsLog
