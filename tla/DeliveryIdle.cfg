\* A core that has nothing to deliver: the idle interval on twelve bits.
SPECIFICATION Spec
CONSTANTS
    main = main
    other = other
    e1 = e1
    e2 = e2
    p1 = p1
    p2 = p2
    Events = {e1, e2}
    MaxAttempts = 2
    BatchLimit = 2
    Providers = {p1, p2}
    Cores = {main, other}
    Server = main
    QueueSize = 1
    Local <- LocalLimits
    Policies <- Served
    Second = 8
    Width = 12
    Workloads <- IdleWorkloads
    MaxStreak = 12
INVARIANT
    IdleLoopWaits
CHECK_DEADLOCK FALSE
