\* Two clients, one permit, weak fairness on tasks, timer and time; the set-up of an
\* accepted socket does not fail, so that no permit is lost, but a handler's constructor
\* may throw.
CONSTANTS
    c1 = c1
    c2 = c2
    Conns = {c1, c2}
    NoConn = NoConn
    MaxConcurrentClientsCount = 1
    Slack = 5
    AcceptFaults = FALSE
    HandlerCtorThrows = TRUE
SPECIFICATION FairSpec
PROPERTIES
    RequestResolved
    HangupReclaimed
    QueuedClientAccepted
