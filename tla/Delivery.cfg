\* A second core, a restart, and two events in a batch.
SPECIFICATION Spec
CONSTANTS
    main = main
    other = other
    e1 = e1
    e2 = e2
    p1 = p1
    p2 = p2
    Events = {e1, e2}
    MaxAttempts = 2
    BatchLimit = 2
    Providers = {p1, p2}
    Cores = {main, other}
    Server = main
    QueueSize = 1
    Local <- LocalLimits
    Policies <- Served
    Second = 8
    Width = 12
    Workloads <- MCWorkloads
    MaxStreak = 0
\* A core that has stopped for good does nothing.
CHECK_DEADLOCK FALSE
INVARIANTS
    TypeOK
    OneSender
    ToldTheTruth
    NoSendOnClosedChannel
    NeverLooserThanLocal
    NoPolicyIsForgotten
PROPERTIES
    DeliveryKept
    EventsSettle
    CloseReturns
