SPECIFICATION FairSpec
CONSTANTS
    d1 = d1
    d2 = d2
    tA = tA
    tB = tB
    Decider = {d1, d2}
    Tenant = {tA, tB}
    MaxBatch = 2
    MaxCalls = 2
    MaxHash = 4
    MaxNow = 2
    MaxFailures = 1
INVARIANTS
    ChainLinear
    InstantsFollowChain
    BatchContiguous
PROPERTY
    CallEnds
    KeepsTrail
CHECK_DEADLOCK FALSE
