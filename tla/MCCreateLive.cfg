SPECIFICATION FairSpec
CONSTANTS
    q1 = q1
    q2 = q2
    q3 = q3
    c1 = c1
    c2 = c2
    tA = tA
    tB = tB
    k1 = k1
    k2 = k2
    None = None
    Request = {q1, q2, q3}
    Client = {c1, c2}
    Tenant = {tA}
    Key = {k1}
    Audited = FALSE
    MaxFailures = 1
PROPERTY EveryRequestAnswered
CHECK_DEADLOCK FALSE
