\* Three files: one that fails or times out, one that meets what it left, and one
\* after both.  The batch ends: the system may stop.
SPECIFICATION FairSpec
CONSTANTS
    NumFiles = 3
    MaxBatches = 2
    Habits = {}
INVARIANTS ErrorsContained FreshStart VerdictsTrue
PROPERTY BatchEnds
CHECK_DEADLOCK FALSE
