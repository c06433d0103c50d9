SPECIFICATION FairBreakerSpec
CONSTANTS
    Callers = {c1, c2, c3}
    FailMax = 2
    ResetTimeout = 2
    MaxAttempts = 3
INVARIANTS
    CountMatchesState
PROPERTIES
    CoolDownAdmitsNobody
    RecoversForGood
