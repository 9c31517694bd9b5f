SPECIFICATION FairSpec
CONSTANTS
    w1 = w1
    w2 = w2
    tA = tA
    tB = tB
    Row = {1, 2}
    Relay = {w1, w2}
    Tenant = {tA}
    RowTenant <- OneTenantRows
    RelayTenant <- OneTenantRelays
    Limit = 1
    Lease = 1
    MaxNow = 2
    MaxFailures = 2
PROPERTY EventuallyPublished
