\* Two replicas of one subscription; batches of one row.
SPECIFICATION FairSpec
CONSTANTS
    t1 = t1
    t2 = t2
    s1 = s1
    s2 = s2
    MaxOpen = 1
    Subscribers = {s1, s2}
    Topics = {t1}
    Subscriptions <- MCReplicas
    BatchSize = 1
    MaxEvents = 2
    MaxCrashes = 1
PROPERTIES
    EventuallyHandled
    CloseEndsSubscription
CHECK_DEADLOCK FALSE
