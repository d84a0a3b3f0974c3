\* Two producers (one of them the owner), two consumers, two slots.
SPECIFICATION Spec
CONSTANTS
    NULL = NULL
    Blobs = {b1, b2, b3, b4, c}
    Signals = {c}
    Capacity = 2
    Threads = {m, s, r1, r2}
    Senders = {m, s}
    Receivers = {r1, r2}
    Owner = m
SYMMETRY Symmetry
INVARIANTS TypeOK SingleOwner NoLostWakeup
PROPERTY IsFifoChannel
