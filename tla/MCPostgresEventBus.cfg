SPECIFICATION Spec
CONSTANTS
    t1 = t1
    t2 = t2
    s1 = s1
    s2 = s2
    MaxOpen = 2
    Subscribers = {s1, s2}
    Topics = {t1, t2}
    Subscriptions <- MCSubscriptions
    BatchSize = 2
    MaxEvents = 3
    MaxCrashes = 1
INVARIANTS
    PassedWasHandled
PROPERTIES
    SoleSubscriberNeverRewinds
    DeliversAtLeastOnce
CHECK_DEADLOCK FALSE
