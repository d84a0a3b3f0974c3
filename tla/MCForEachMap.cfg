\* A table of four slots that can double once: stores fill it, fail and reuse
\* tombstones, with three keys that collide in both sizes.
SPECIFICATION LoopSpec
CONSTANTS
    a = a
    b = b
    c = c
    v = v
    NULL = NULL
    EMPTY = EMPTY
    TOMBSTONE = TOMBSTONE
    Keys <- MCKeys
    Values <- MCValues
    Hash <- MCHash
    InitialCapacity = 1
    MinCapacity = 4
    MaxCapacity = 8
INVARIANTS TableSound LoopComplete
PROPERTIES IsMap LoopReadsMap
