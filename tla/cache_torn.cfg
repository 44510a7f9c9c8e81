\* Two handlers inside Dictionary.Add.
CONSTANTS
    h1 = h1
    h2 = h2
    r1 = r1
    r2 = r2
    Handlers = {h1, h2}
    Rows = {r1, r2}
    SentIds = {0, 1}
    MaxRows = 2
    MaxList = 1
    MaxBatch = 1
    DbFaults = FALSE
    Unreadable = {}
SPECIFICATION Spec
INVARIANTS
    DbAndCacheAgree
