SPECIFICATION MCSpec
CONSTANTS
    t1 = t1
    t2 = t2
    c1 = c1
    c2 = c2
    Parts = {"range", "munmap", "shared", "growth", "double_free", "cow", "create", "set", "map"}
    NCpu = 2
    MaxNrRanges = 2
    Attrs <- RangeAttrs
    Fails = TRUE
    MunmapFails = FALSE
    Allocates = TRUE
SYMMETRY Symmetry
CHECK_DEADLOCK FALSE
INVARIANT NothingLeft RangesAccessible  CreatedAsAsked SetServes LaidOut
PROPERTY ForeignKept 
