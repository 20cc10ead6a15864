CONSTANTS
    t1 = t1
    t2 = t2
    t3 = t3
    UserTasks <- TwoTasks
    FixFreeHoldsQgroupLock = TRUE
SPECIFICATION FairSpec
PROPERTIES HandlersReturn TreeAccessSpec
