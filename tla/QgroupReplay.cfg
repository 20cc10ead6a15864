SPECIFICATION TSpec
CONSTANTS
    u1 = u1
    u2 = u2
    UserTasks <- TwoTasks
    FixFreeHoldsQgroupLock = TRUE
    Traces <- AllTraces
    MaxEvents = 24
INVARIANTS
    EventsAreInOrder
    LostTracesDiverge
CHECK_DEADLOCK FALSE
