SPECIFICATION MCSpec
CONSTANTS
    e1 = e1
    e2 = e2
    e3 = e3
    h1 = h1
    h2 = h2
    CompareTwice = FALSE
    Worker = {w1, w2}
    Cpu = {0, 1, 2}
    Online = {0, 1}
    Reps = 1
    MaxRounds = 2
    MaxHits = 2
SYMMETRY Symmetry
CHECK_DEADLOCK FALSE
INVARIANT InactiveStable  ArithmeticExact BarriersOrder 
PROPERTY ImplementsSequences  DescriptorsHonoured
