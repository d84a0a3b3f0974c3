\* Refuted: see BetweenOperations.  The system may stop.
SPECIFICATION Spec
CONSTANTS
    NumFiles = 2
    MaxBatches = 1
    Habits = {"printErrors"}
INVARIANTS BetweenOperations
CHECK_DEADLOCK FALSE
