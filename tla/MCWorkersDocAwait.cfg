\* Refuted: see AwaitUnblocksWorker.  The system may stop.
SPECIFICATION FairSpec
CONSTANTS
    NULL = NULL
    Main = Main
    Workers = {w1}
    Messaging = {w1}
    Blobs = {b1, b2, c}
    Signals = {c}
    Capacity = 1
    Style = {"bareReceive"}
PROPERTIES AwaitUnblocksWorker
CHECK_DEADLOCK FALSE
