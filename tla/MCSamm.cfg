\* An object with a destructor and two without; calls three deep; one batch in
\* the queue.  The process may be gone: the system may stop.
SPECIFICATION FairSpec
CONSTANTS
    NULL = NULL
    Objects = {d1, o1, o2}
    Destructible = {d1}
    MaxDepth = 4
    QueueDepth = 1
INVARIANTS TypeOK OneHome NoLostSignal LexicalUntilMixed
PROPERTIES CleanedUp ShutdownCompletes
CHECK_DEADLOCK FALSE
