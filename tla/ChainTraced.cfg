CONSTANTS
    w1 = w1
    w2 = w2
    Writers <- TwoWriters
    MaxOps = 6
SPECIFICATION TracedFairSpec
INVARIANTS
    RefcountIsExact OneIsJoinable 
    ViewIsOpen NoFalseCircle
PROPERTIES
    LifetimeSpec FirstCompletes LateIsReported
CHECK_DEADLOCK FALSE
