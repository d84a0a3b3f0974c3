\* Two lists, a slab of two slots, one block of malloc, two levels.
SPECIFICATION Spec
CONSTANTS
    NULL = NULL
    l1 = l1
    l2 = l2
    v1 = v1
    v2 = v2
    m1 = m1
    SlotsPerSlab = 2
    MaxSlabs = 1
    Mallocs = {m1}
    Names = {l1, l2}
    Values = {v1, v2}
    MaxDepth = 2
    MethodAdds = FALSE
SYMMETRY Symmetry
INVARIANTS PoolSound ListsSound
PROPERTIES IsLists AsAsked NothingLeaks
