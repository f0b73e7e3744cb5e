SPECIFICATION MCSpec
CONSTANTS
    Readers = {u1}
    Workers = {w1, w2}
    Cooldown = 2
    MaxFaults = 1
    Sessions = {e1, e2}
    Families = {f1}
    NewsWorkers = {w1, w2}
    MaxNewsFaults = 1
    MaxMessages = 2
    MaxNumberings = 2
    Batch = 1
    SoftLimit = 2
    Readings = {w1, w2}
    MaxReadFailures = 1
    Tables = {t1, t2}
    Visitors = {v1, v2}
    Editors = {d1}
    MaxVersion = 2
    Key = Key
INVARIANTS JourneysInv NewsInv BounceInv CacheInv
PROPERTY NothingDueIsForgotten
CHECK_DEADLOCK FALSE
