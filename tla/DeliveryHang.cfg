\* A Control Plane that hangs on every batch: nothing is assumed of it.
SPECIFICATION HangSpec
CONSTANTS
    main = main
    other = other
    e1 = e1
    e2 = e2
    p1 = p1
    p2 = p2
    Events = {e1, e2}
    MaxAttempts = 2
    BatchLimit = 2
    Providers = {p1, p2}
    Cores = {main, other}
    Server = main
    QueueSize = 1
    Local <- LocalLimits
    Policies <- Served
    Second = 8
    Width = 12
    Workloads <- HangWorkloads
    MaxStreak = 0
PROPERTY
    RepeatedFailuresEnd
CHECK_DEADLOCK FALSE
