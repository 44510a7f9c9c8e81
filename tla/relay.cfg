\* One chain of connections, three commands over it, two crashes of the cache server.
CONSTANTS
    Clients = {c1}
    MaxCommands = 3
    MaxCrashes = 2
SPECIFICATION FairSpec
\* Nobody has to connect or to ask.
CHECK_DEADLOCK FALSE
INVARIANTS
    AnswerIsOwn
    FallbackIsFinal
    WaitIsOwed
PROPERTIES
    ImplementsRpc
    WaitEnds
    ChainCloses
