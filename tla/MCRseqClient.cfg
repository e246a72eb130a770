SPECIFICATION Spec
CONSTANTS
    t1 = t1
    t2 = t2
    t3 = t3
    Thread <- Three_threads
    Cpu = {0, 1}
    Tests = {"spinlock", "inc", "list", "buffer", "memcpy"}
    Items = 1
    Reps = 1
    MaxHits = 2
SYMMETRY Symmetry
INVARIANT NothingLost LockHeldByOne FinalAsPseudocode
