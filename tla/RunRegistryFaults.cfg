\* Crashes, writes that fail after their commit, a second core.
SPECIFICATION Spec
CONSTANTS
    Runs = {r1}
    Handlers = {t1, t2, t3}
    Addrs = {a1, a2}
    Nil = Nil
    NoRun = NoRun
    Inputs <- MCInputs
    SecondCore = TRUE
    AmbiguousWrites = TRUE
    MaxRestarts = 1
SYMMETRY Symmetric
\* A quiescent core may stop: no request has to come.
CHECK_DEADLOCK FALSE
INVARIANTS
    TypeOK
    NoChannelPanic
    AckedIsFinal
    OneCircuitBreak
    NoticeIsTrue
    SoleFinisher
PROPERTIES
    LifecycleSpec
