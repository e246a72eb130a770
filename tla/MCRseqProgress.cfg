SPECIFICATION MCSpec
CONSTANTS
    Thread = {1, 2}
    Loader = 1
    Features = {0, 28, 32, 40}
    UintMod = 4096
    Constructor = FALSE
    MaxCalls = 1
CHECK_DEADLOCK FALSE
INVARIANT QueriesSound
PROPERTY SizeStable CallsReturn
