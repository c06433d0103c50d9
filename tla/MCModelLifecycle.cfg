SPECIFICATION FairSpec
CONSTANTS
    Models = {m}
    Users = {u1, u2}
    MaxTtl = 1
    None = None
    MaxCalls = 3
    MaxFaults = 1
INVARIANTS
    ShutdownUnloads
PROPERTIES
    UsableWhenEnsured
    CallersReturn
    IdleIsUnloaded
CHECK_DEADLOCK FALSE
