SPECIFICATION Spec
CONSTANTS
    malformed = malformed
    Keys = {k1, k2}
    Values <- MCValues
    NoValue = NoValue
    Malformed = malformed
    Written <- MCWritten
    MaxWrites = 2
    Backends = {"pool_poll", "pool_redis", "db_redis", "db_none"}
    MaxCrashes = 1
    KnownRoles = {"admin"}
    GroupRole <- MCGroupRole
    Ttl = 1
    MaxRefreshes = 2
INVARIANTS
    PassedWasApplied
    HeardIsCached
    FileIsCurrent
    GrantsAreCurrent
SYMMETRY Symmetry
