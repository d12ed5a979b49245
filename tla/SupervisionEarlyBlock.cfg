SPECIFICATION Spec
CONSTANTS
    FaultSets <- NoFaults
    MaxRestarts = 0
\* A command that has returned does nothing more.
CHECK_DEADLOCK FALSE
INVARIANTS
    BlockIsRecorded
