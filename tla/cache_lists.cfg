\* Lists of up to two entities on a table of two rows; the database may fail.
CONSTANTS
    h1 = h1
    h2 = h2
    r1 = r1
    Handlers = {h1, h2}
    Rows = {r1}
    SentIds = {0, 1}
    MaxRows = 2
    MaxList = 2
    MaxBatch = 2
    DbFaults = TRUE
    Unreadable = {}
SPECIFICATION FairSpec
INVARIANTS
    PrefixStored
PROPERTIES
    CommandEnds
