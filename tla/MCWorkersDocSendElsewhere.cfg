\* Refuted: see SentWhereNamed.  The system may stop.
SPECIFICATION Spec
CONSTANTS
    NULL = NULL
    Main = Main
    Workers = {w1, w2}
    Messaging = {w1, w2}
    Blobs = {b1, b2, c}
    Signals = {c}
    Capacity = 1
    Style = {"sendElsewhere"}
INVARIANTS SentWhereNamed
CHECK_DEADLOCK FALSE
