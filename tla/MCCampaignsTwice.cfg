SPECIFICATION Spec
CONSTANTS
    AudienceSize = 2
    ChunkSize = 1
    Tasks = {t1}
    Pages = {p1, p2}
    MaxCrashes = 0
    NoTask = NoTask
PROPERTY WithdrawnOnlyWhenCancelled
CHECK_DEADLOCK FALSE
