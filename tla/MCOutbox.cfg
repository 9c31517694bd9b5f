SPECIFICATION Spec
CONSTANTS
    w1 = w1
    w2 = w2
    tA = tA
    tB = tB
    Row = {1, 2, 3}
    Relay = {w1, w2}
    Tenant = {tA, tB}
    RowTenant <- ForeignRow
    RelayTenant <- OneTenantRelays
    Limit = 2
    Lease = 1
    MaxNow = 2
    MaxFailures = 1
SYMMETRY RelaySymmetry
INVARIANTS
    LeaseExclusive
    PublishedWasDelivered
    OfferedAtMostAttempts
    ResultTruthful
    TenantIsolation
PROPERTIES
    LiveClaimHeld
    DeliversAtLeastOnce
