SPECIFICATION Spec
CONSTANTS
    t1 = t1
    t2 = t2
    Thread = {t1, t2}
    NCpu = 2
    ItemsPerRange = 1
    MaxNrRanges = 2
    Attrs <- AllAttrs
    Kinds <- AllKinds
    MapFails = TRUE
    DoubleFree = FALSE
    MaxCalls = 2
INVARIANT FreeListSound NoFalseAlarm DestroyVerdict RefusedWhenFull
PROPERTY ImplementsAllocator
SYMMETRY Symmetry
