\* Two publishers inside publish() at once, one subscriber, no crash.
SPECIFICATION Spec
CONSTANTS
    t1 = t1
    t2 = t2
    s1 = s1
    s2 = s2
    MaxOpen = 2
    Subscribers = {s1}
    Topics = {t1}
    Subscriptions <- MCSole
    BatchSize = 1
    MaxEvents = 2
    MaxCrashes = 0
INVARIANTS
    NoEventSkipped
CHECK_DEADLOCK FALSE
