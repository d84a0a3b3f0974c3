\* Refuted: see OneOwner.  The system may stop.
SPECIFICATION Spec
CONSTANTS
    NULL = NULL
    Main = Main
    Workers = {w1}
    Messaging = {w1}
    Blobs = {b1, b2, c}
    Signals = {c}
    Capacity = 1
    Style = {"sendTwice"}
INVARIANTS OneOwner
CHECK_DEADLOCK FALSE
