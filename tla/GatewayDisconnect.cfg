SPECIFICATION Spec
CONSTANTS
    Args = {"a", "b"}
    MaxCalls = 2
    Runs = {"r1", "r2"}
    MaxRuns = 2
    MaxSeen = 1
    Threshold = 2
    None = None
    Callers = {"c1", "c2"}
    HttpErrors = {"429", "500"}
    ToolErrors = {"e1", "e2"}
    ResultIds = {"t1", "t2"}
    StoreFaults = FALSE
    Workloads <- DisconnectWorkloads
CHECK_DEADLOCK FALSE
PROPERTIES
    DisconnectsDoNotBlock
