CONSTANTS
    t1 = t1
    t2 = t2
    t3 = t3
    UserTasks <- ThreeTasks
    FixFreeHoldsQgroupLock = TRUE
SPECIFICATION Spec
INVARIANTS TypeOK NoUAF NoWorkerRaceWithFree QuotaBitsAgree
    RunningHasWorker NobodyHangs
SYMMETRY Symmetry
