CONSTANTS
    t1 = t1
    t2 = t2
    t3 = t3
    UserTasks <- TwoTasks
    FixFreeHoldsQgroupLock = FALSE
    MinRescanCount <- Below
    MaxRescanCount = 2
SPECIFICATION TracedSpec
CONSTRAINT CountBound
INVARIANTS NoStaleTid IoctlVictimReported
SYMMETRY Symmetry
