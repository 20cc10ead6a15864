SPECIFICATION Spec
CONSTANTS
    t1 = t1
    t2 = t2
    k1 = k1
    f1 = f1
    f2 = f2
    Unknown = Unknown
    Threads <- TwoThreads
    KWorkers <- OneKWorker
    FileSystems <- TwoFileSystems
    MaxEvents = 6
    MinEvents = 2
    PerOp = 3
    Pad = 2
SYMMETRY Symmetry
INVARIANTS
    SplitIsInOrder
    MutantsAreIllegal
    FreeWindowsAreExact
    CommitWindowsFound
CHECK_DEADLOCK FALSE
