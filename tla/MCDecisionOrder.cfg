SPECIFICATION Spec
CONSTANTS
    d1 = d1
    d2 = d2
    tA = tA
    tB = tB
    Decider = {d1, d2}
    Tenant = {tA, tB}
    MaxBatch = 1
    MaxCalls = 2
    MaxHash = 4
    MaxNow = 2
    MaxFailures = 0
INVARIANT ChainInOrderOfDecision
CHECK_DEADLOCK FALSE
