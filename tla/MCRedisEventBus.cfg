SPECIFICATION FairSpec
CONSTANTS
    Buses = {b1, b2}
    Workers = {w}
    Count = 2
    MaxEvents = 2
    MaxFaults = 1
INVARIANTS
    HandledOnceUnlessClaimed
PROPERTIES
    EventuallyHandled
    CloseEndsSubscription
    DeliversAtLeastOnce
CHECK_DEADLOCK FALSE
