CONSTANTS
    w1 = w1
    w2 = w2
    Writers <- TwoWriters
    MaxOps = 4
SPECIFICATION TracedSpec
INVARIANT StuckIsReported
CHECK_DEADLOCK FALSE
