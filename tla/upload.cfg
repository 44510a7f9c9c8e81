\* One form of two files, each empty, of one piece or of two; two downloads.
CONSTANTS
    Requests = {r1}
    PerRequest = 2
    MaxChunks = 2
    Readers = {d1, d2}
SPECIFICATION FairSpec
\* All forms and downloads end.
CHECK_DEADLOCK FALSE
INVARIANTS
    RecordHasFile
    DownloadsWhole
    PageIsComplete
PROPERTIES
    FormEnds
