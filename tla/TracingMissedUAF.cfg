CONSTANTS
    t1 = t1
    t2 = t2
    t3 = t3
    UserTasks <- TwoTasks
    FixFreeHoldsQgroupLock = FALSE
    MinRescanCount <- Below
    MaxRescanCount = 1
SPECIFICATION TracedSpec
CONSTRAINT CountBound
INVARIANT CheckerSeesEveryUAF
