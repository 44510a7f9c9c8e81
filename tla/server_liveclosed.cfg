\* The timer's Poll and Available straddle the arrival and the read of a request.
CONSTANTS
    c1 = c1
    Conns = {c1}
    NoConn = NoConn
    MaxConcurrentClientsCount = 1
    Slack = 5
    AcceptFaults = FALSE
    HandlerCtorThrows = FALSE
SPECIFICATION Spec
INVARIANT MonitorClosesOnlyDead
CHECK_DEADLOCK FALSE
