SPECIFICATION Spec
CONSTANTS
    Thread = {t1, t2}
    Loader = t1
    Features = {40}
    UintMod = 4096
    Constructor = TRUE
    MaxCalls = 2
CHECK_DEADLOCK FALSE
INVARIANT UnregisterSucceeds
