CONSTANTS
    c1 = c1
    c2 = c2
    CPUs <- TwoCPUs
    NBlocks = 2
    MaxEvents = 3
    Pages = 2
SPECIFICATION FairSpec
INVARIANTS VerdictIsTruth ExitAgrees
PROPERTIES IsAPipe HarnessEnds
CHECK_DEADLOCK FALSE
