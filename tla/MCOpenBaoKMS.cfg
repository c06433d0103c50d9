SPECIFICATION FairSpec
CONSTANTS
    Callers = {a, b}
    NoCaller = NoCaller
    Leases = {3}
    DefaultLease = 4
    Window = 1
    MaxTokens = 3
    MaxTime = 4
INVARIANTS
    SentTokenAlive
    LoginOnlyWhenNeeded
    RetryUsesNewToken
PROPERTIES
    CallsReturn
