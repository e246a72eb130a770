SPECIFICATION Spec
CONSTANTS
    Thread = {t1, t2}
    Loader = t1
    Features = {0}
    UintMod = 4096
    Constructor = FALSE
    MaxCalls = 1
CHECK_DEADLOCK FALSE
INVARIANT RegisteredOnSuccess
