SPECIFICATION CacheSpec
CONSTANTS
    Tables = {t1}
    Visitors = {v1}
    Editors = {d1}
    MaxVersion = 1
    Key = Key
INVARIANT AChangeShowsAtOnce
CHECK_DEADLOCK FALSE
