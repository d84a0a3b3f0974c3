\* Refuted: see PushesOnLiveQueue.  Every timer may have ended and every queue may be gone: the system may stop.
SPECIFICATION Spec
CONSTANTS
    NULL = NULL
    Timers = {a1, e1}
    Repeating = {e1}
    Starters = {m}
    Stoppers = {m}
    Main = m
    Queues = {k}
    Read = {k}
    MaxTimers = 2
    Capacity = 1
INVARIANTS PushesOnLiveQueue
CHECK_DEADLOCK FALSE
