SPECIFICATION MCSpec
CONSTANTS
    t1 = t1
    t2 = t2
    Thread <- TwoThreads
    Handler = {}
    NCpu = 2
    Mode = "cpu_id"
    WordMod <- MemWords
    CompareTwice = FALSE
    Code <- AllHelpers
    Unsupported = {}
    Prep <- MCPrep
    Memory0 <- MCMemory0
    Registered0 <- TwoThreads
    RegisteredCalls = TRUE
    MaxCalls = 1
    MaxSignals = 0
    MaxSyscalls = 0
INVARIANT CsExclusive
PROPERTY SectionsProtected UnregisteredFails HelpersImplement
