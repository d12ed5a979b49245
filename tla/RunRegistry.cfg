\* One life of the core, with a store that may fail.
SPECIFICATION FairSpec
CONSTANTS
    Runs = {r1}
    Handlers = {t1, t2, t3}
    Addrs = {a1}
    Nil = Nil
    NoRun = NoRun
    Inputs <- MCInputs
    SecondCore = FALSE
    AmbiguousWrites = FALSE
    MaxRestarts = 0
\* A quiescent core may stop: no request has to come.
CHECK_DEADLOCK FALSE
INVARIANTS
    TokenImpliesActive
PROPERTIES
    StreamEndsAfterFinish
    BlockReachesStream
