\* A channel closed twice gives two permits back.
CONSTANTS
    c1 = c1
    c2 = c2
    c3 = c3
    Conns = {c1, c2, c3}
    NoConn = NoConn
    MaxConcurrentClientsCount = 1
    Slack = 5
    AcceptFaults = FALSE
    HandlerCtorThrows = FALSE
SPECIFICATION Spec
INVARIANT MaxConcurrentClientsHeld
CHECK_DEADLOCK FALSE
