SPECIFICATION StoreSpec
CONSTANTS
    Backends = {"postgres", "redis"}
    Clients = {p1, p2}
    Tokens = {k1, k2}
    Tenants = {t1, t2}
    AnyTenant = AnyTenant
    Expiries = {2, 3}
    PerSecond = 2
    Latency = 1
    MaxRepeats = 2
    MaxTime = 3
INVARIANTS
    NotServedLate
    ListIsFaithful
SYMMETRY Symmetry
