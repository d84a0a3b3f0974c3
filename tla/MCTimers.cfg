\* One thread starts and stops timers, and may AWAIT a queue they target.  The
\* queue has a reader that keeps receiving.
\* Every timer may have ended and every queue may be gone: the system may stop.
SPECIFICATION FairSpec
CONSTANTS
    NULL = NULL
    Timers = {a1, e1, e2}
    Repeating = {e1, e2}
    Starters = {m}
    Stoppers = {m}
    Main = m
    Queues = {k}
    Read = {k}
    MaxTimers = 2
    Capacity = 1
INVARIANTS TypeOK OwnSlot SlotsComeBack StopLeavesNone BlobSettled
PROPERTIES StopReturns
CHECK_DEADLOCK FALSE
