\* Two runs, three calls, everything that may go wrong once.
SPECIFICATION Spec
CONSTANTS
    Runs = {r1, r2}
    Requests = {q1, q2}
    Ids = {i1, i2, i3}
    None = None
    Limit <- RunLimit
    DailyLimit <- TwoADay
    DurationLimited = TRUE
    Estimates <- Estimated
    Actuals <- Reports
    MaxInt = 4
    ControlPlane = FALSE
    StoreFaults = TRUE
    MaxRestarts = 1
    MaxEvents = 1
SYMMETRY Symmetry
\* A gateway may be left without calls.
CHECK_DEADLOCK FALSE
INVARIANTS
    TypeOK
    CallLimitHolds
    SpendingWithinLimits
    UsageIsSum
    ReservationIsThere
    DailyOvershootBounded
