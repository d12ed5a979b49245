\* A second core on the same database.
SPECIFICATION Spec
CONSTANTS
    Runs = {r1}
    Handlers = {t1, t2}
    Addrs = {a1}
    Nil = Nil
    NoRun = NoRun
    Inputs <- MCInputs
    SecondCore = TRUE
    AmbiguousWrites = FALSE
    MaxRestarts = 0
SYMMETRY Symmetric
\* A quiescent core may stop: no request has to come.
CHECK_DEADLOCK FALSE
INVARIANTS
    TokenImpliesActive
