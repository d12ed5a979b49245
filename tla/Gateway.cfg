SPECIFICATION Spec
CONSTANTS
    Args = {"a", "b"}
    MaxCalls = 2
    Runs = {"r1", "r2"}
    MaxRuns = 1
    MaxSeen = 1
    Threshold = 2
    None = None
    Callers = {"c1", "c2"}
    HttpErrors = {"429", "500"}
    ToolErrors = {"e1", "e2"}
    ResultIds = {"t1", "t2"}
    StoreFaults = TRUE
    Workloads <- MCWorkloads
CHECK_DEADLOCK FALSE
INVARIANTS
    TypeOK
    RestartRestores
    ClientAndRecordAgree
    TakesBackItsReplies
    ItemsAgree
    RequestKeepsOrder
PROPERTIES
    BlocksWhenDue
