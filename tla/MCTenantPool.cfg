SPECIFICATION Spec
CONSTANTS
    Tenants = {t1, t2}
    NoTenant = NoTenant
    Invalid = Invalid
    Slots = {s1, s2}
    Loops = {l1, l2}
    Conns = {c1, c2}
    NoConn = NoConn
    PoolRole = "omur_app"
    DocsLimit = 2
    StorageLimit = 1
    QueryLimit = 1
    Sizes <- MCSizes
    Query = Query
    MaxWork = 2
    MaxExcess = 1
    MaxFaults = 1
INVARIANTS
    SeesOwnRowsOnly
    OvershootBounded
    OneCleaner
SYMMETRY Symmetry
