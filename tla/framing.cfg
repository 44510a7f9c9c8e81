\* A prefix of two bytes, so that it can be split; buffers of three bytes and
\* objects of one to three bytes: some fit, some make the buffer grow, and a
\* short object follows a long one in the same buffer.
CONSTANTS
    HeaderSize = 2
    DefaultBufferSize = 3
    MaxBody = 3
    MaxSent = 3
SPECIFICATION FairSpec
\* A connection may end, and then nothing happens any more.
CHECK_DEADLOCK FALSE
INVARIANTS
    ReadFits
    InSync
    NothingAwaited
PROPERTIES
    DeliversInOrder
    Delivered
