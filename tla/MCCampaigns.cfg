SPECIFICATION FairSpec
CONSTANTS
    AudienceSize = 2
    ChunkSize = 1
    Tasks = {t1, t2}
    Pages = {p1, p2}
    MaxCrashes = 1
    NoTask = NoTask
INVARIANT CampaignInv
PROPERTY EveryLaunchEnds
CHECK_DEADLOCK FALSE
