\* Two clients, one permit: double closes, refused releases, zombie channels.
\* A handler's constructor may throw, its socket may fail during the set-up, and
\* Slack = 0, so that the timer's array can also be too small.
CONSTANTS
    c1 = c1
    c2 = c2
    Conns = {c1, c2}
    NoConn = NoConn
    MaxConcurrentClientsCount = 1
    Slack = 0
    AcceptFaults = TRUE
    HandlerCtorThrows = TRUE
SYMMETRY ConnSymmetry
SPECIFICATION Spec
CHECK_DEADLOCK FALSE
INVARIANTS
    PermitAccounting
    CapacityBound
    ConnectedCounter
    RegistryCoversServing
    ZombieExplained
    QuietClientKept
    CrashNeedsBurst
PROPERTIES
    MonitorReleasesOnce
