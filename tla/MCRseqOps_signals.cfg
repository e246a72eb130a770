SPECIFICATION Spec
CONSTANTS
    t1 = t1
    t2 = t2
    Thread = {t1}
    Handler = {t1}
    NCpu = 2
    Mode = "cpu_id"
    WordMod <- MemWords
    CompareTwice = TRUE
    Code <- AllHelpers
    Unsupported <- CbneStoreRelease
    Prep <- MCPrep
    Memory0 <- MCMemory0
    Registered0 = {t1}
    RegisteredCalls = TRUE
    MaxCalls = 1
    MaxSignals = 2
    MaxSyscalls = 2
INVARIANT Protected NoRseqBug InputsPreserved
PROPERTY SuspendedCsAborts ImplementsPseudocode
