\* A prefix of two bytes, so that it can be split; a buffer of three bytes and objects
\* of one to four bytes: the longest does not fit the fixed buffer.
CONSTANTS
    HeaderSize = 2
    DefaultBufferSize = 3
    MaxBody = 4
    MaxSent = 3
SPECIFICATION FairSpec
\* A connection may end, and then nothing happens any more.
CHECK_DEADLOCK FALSE
INVARIANTS
    PlaceKept
    NothingAwaited
PROPERTIES
    SyncDelivered
