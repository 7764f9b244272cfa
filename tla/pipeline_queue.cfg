SPECIFICATION FairSpec
CONSTANTS
    r1 = r1  r2 = r2  r3 = r3  t1 = t1  w1 = w1  w2 = w2
    NoRequest = NoRequest
    NoWorker = NoWorker
    Requests = {r1, r2, r3}
    Tenants = {t1}
    TenantOf <- SameTenant
    Workers = {w1, w2}
    Serves <- SameServes
    StaleTicks = 1
    RetentionTicks = 2
    MaxClock = 0
    MaxFaults = 1
    MaxCrashes = 1
INVARIANTS
    OneJobPerTenant
    FifoPerTenant
    WaitingHasWorker
    RelayedAtMostOnce
PROPERTIES
    LiveWorkerDrains
CHECK_DEADLOCK FALSE
