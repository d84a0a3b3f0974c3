\* Refuted: see SafeIteration.
SPECIFICATION LoopSpec
CONSTANTS
    a = a
    b = b
    c = c
    v = v
    NULL = NULL
    EMPTY = EMPTY
    TOMBSTONE = TOMBSTONE
    Keys <- MCKeys
    Values <- MCValues
    Hash <- MCHash
    InitialCapacity = 1
    MinCapacity = 4
    MaxCapacity = 8
INVARIANTS SafeIteration
