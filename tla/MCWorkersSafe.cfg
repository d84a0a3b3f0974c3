\* Two messaging workers.  The programs may block in RECEIVE, so the system may
\* stop: deadlock is not an error.
SPECIFICATION Spec
CONSTANTS
    NULL = NULL
    Main = Main
    Workers = {w1, w2}
    Messaging = {w1, w2}
    Blobs = {b1, b2, c}
    Signals = {c}
    Capacity = 1
    Style = {"bareReceive"}
SYMMETRY Symmetry
INVARIANTS TypeOK OneOwner UsesAreLive ResultDelivered AllReclaimed
CHECK_DEADLOCK FALSE
