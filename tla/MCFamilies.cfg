\* Only one part moves, so the parts share model values: a symmetry of one is
\* then one of all.
SPECIFICATION MCSpec
CONSTANTS
    Relatives = {x1, x2, x3}
    Invites = {y1, y2}
    Joiners = {r1, r2}
    Leavers = {l1}
    NoRelative = NoRelative
    Parent = x3
    Places = {y1, y2}
    Marks = {r1, r2}
    Thresholds = {1, 2}
    Granting = 2
    TopBelt = 2
    MaxBelts = 2
    Names = {x1, x2}
    Library = Library
    NoName = NoName
    NoImageRow = NoImageRow
    Uploaders = {r1, r2}
    Parents = {a1, a2}
    Volunteers = {a1}
    Kid = kid
    KidLogin = kidlogin
    MaxRestores = 1
    k1 = k1
    k2 = k2
    home = home
    away = away
    monday = monday
    tuesday = tuesday
    wednesday = wednesday
    Dojos = {home, away}
    Sessions = {monday, tuesday, wednesday}
    Batches <- MCBatches
    DojoOf <- MCDojoOf
    DayOf <- MCDayOf
    HomeDojo <- MCHomeDojo
    AimedAt <- MCAimedAt
    TooOldFrom <- MCTooOldFrom
    Unsettled = {wednesday}
    MarkedFor = 1
    SignsUpFor <- MCSignsUpFor
    LastDay = 3
    MaxRuns = 3
    WindowDays = 2
    HistoryDays = 3
    NewDays = 1
    NewMaxVisits = 0
    RegularMinVisits = 2
    RegularMinPercent = 50
    AtRiskMissed = 1
SYMMETRY Symmetry
INVARIANTS GuardiansInv AwardsInv EngagementInv UploadsInv ErasureInv
PROPERTY WithdrawnIsFinal
CHECK_DEADLOCK FALSE
