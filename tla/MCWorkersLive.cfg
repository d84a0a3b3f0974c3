\* A worker that loops until CANCELLED(PARENT) and blocks in RECEIVE, and a plain one.
\* The system may stop when the program does.
SPECIFICATION FairSpec
CONSTANTS
    NULL = NULL
    Main = Main
    Workers = {w1, p}
    Messaging = {w1}
    Blobs = {b1, b2, c}
    Signals = {c}
    Capacity = 1
    Style = {"bareReceive", "untilCancelled"}
PROPERTIES AwaitReturns CancelStops
CHECK_DEADLOCK FALSE
