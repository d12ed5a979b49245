SPECIFICATION FairSpec
CONSTANTS
    FaultSets <- AllOrNothing
    MaxRestarts = 2
\* A command that has returned does nothing more.
CHECK_DEADLOCK FALSE
INVARIANTS
    TypeOK
    ReportIsAccepted
    NoOrphan
    TerminationIsTruthful
    SuccessIsRecorded
PROPERTIES
    TrippedChildStops
    CoreLossStopsChild
    StopRequestReturns
