SPECIFICATION Spec
CONSTANTS
    r1 = r1  r2 = r2  r3 = r3  t1 = t1  w1 = w1  w2 = w2
    NoRequest = NoRequest
    NoWorker = NoWorker
    Requests = {r1, r2}
    Tenants = {t1}
    TenantOf <- SameTenant
    Workers = {w1, w2}
    Serves <- SameServes
    StaleTicks = 1
    RetentionTicks = 2
    MaxClock = 3
    MaxFaults = 2
    MaxCrashes = 2
SYMMETRY PairSymmetry
INVARIANTS
    TypeOK
    ReplyMatchesRow
    OrphanIsFresh
PROPERTIES
    RecoverySparesOwned
    ImplementsLifecycle
CHECK_DEADLOCK FALSE
