SPECIFICATION FairSpec
CONSTANTS
    Keys = {k1, k2}
    Good = {a, b}
    Skipped = {skip}
    Broken = {broken}
    Ids = {1, 2, 3, 4, 5}
    None = None
    MaxEdits = 2
    MaxFaults = 1
INVARIANTS
    TypeOK
    EntriesAreLive
    LiveIsTracked
PROPERTIES
    NoChurn
    ConvergesUnlessReplyLost
CHECK_DEADLOCK FALSE
