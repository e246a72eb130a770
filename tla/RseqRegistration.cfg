SPECIFICATION Spec
CONSTANTS
    Thread = {t1, t2, t3}
    Loader = t1
    Features = {0, 28, 32}
    UintMod = 4096
    Constructor = TRUE
    MaxCalls = 3
CHECK_DEADLOCK FALSE
INVARIANT RegisteredOnSuccess NoAbort SizePublished UnregisterSucceeds
