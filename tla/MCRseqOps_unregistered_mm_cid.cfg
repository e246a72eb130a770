SPECIFICATION Spec
CONSTANTS
    t1 = t1
    t2 = t2
    Thread <- TwoThreads
    Handler = {}
    NCpu = 2
    Mode = "mm_cid"
    WordMod <- MemWords
    CompareTwice = FALSE
    Code <- AddStoreHelpers
    Unsupported = {}
    Prep <- MCPrep
    Memory0 <- MCMemory0
    Registered0 = {}
    RegisteredCalls = FALSE
    MaxCalls = 1
    MaxSignals = 0
    MaxSyscalls = 0
PROPERTY UnregisteredFails
