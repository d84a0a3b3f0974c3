\* The usual arrangement: the owner (and a timer thread) produces, one worker
\* consumes.
SPECIFICATION FairSpec
CONSTANTS
    NULL = NULL
    Blobs = {b1, b2, b3, c}
    Signals = {c}
    Capacity = 1
    Threads = {m, s, w}
    Senders = {m, s}
    Receivers = {w}
    Owner = m
INVARIANTS HasMessageKept
PROPERTIES CloseReleases CancelWakes DestroyCompletes
