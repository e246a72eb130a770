SPECIFICATION MCSpec
CONSTANTS
    t1 = t1
    t2 = t2
    c1 = c1
    c2 = c2
    Parts = {"set"}
    NCpu = 2
    MaxNrRanges = 2
    Attrs <- RangeAttrs
    Fails = TRUE
    MunmapFails = FALSE
    Allocates = TRUE
CHECK_DEADLOCK FALSE
INVARIANT InitContents
