\* Refuted: see Lexical.  The process may be gone: the system may stop.
SPECIFICATION Spec
CONSTANTS
    NULL = NULL
    Objects = {d1, o1}
    Destructible = {d1}
    MaxDepth = 4
    QueueDepth = 1
INVARIANTS Lexical
CHECK_DEADLOCK FALSE
