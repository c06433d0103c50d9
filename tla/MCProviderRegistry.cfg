SPECIFICATION FairSpec
CONSTANTS
    Tenants = {t1, t2}
    Names = {n1}
    KnownNames = {n1}
    Good = {a, b}
    Broken = {x}
    Ids = {1, 2}
    None = None
    MaxEdits = 2
    MaxFaults = 1
INVARIANTS
    TypeOK
    OneTaskPerKey
    RunningIsTracked
    StoppedIsSilent
PROPERTIES
    Converges
    ReloadsConfig
CHECK_DEADLOCK FALSE
