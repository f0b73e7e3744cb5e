\* Only one part moves, so the parts share model values: the symmetry of one
\* part's requests is then one of all.
SPECIFICATION MCSpec
CONSTANTS
    Applicants = {u1}
    Documents = {x1, x2}
    Handlers = {r1, r2}
    MaxApplications = 2
    MaxDecisions = 2
    NoDocument = NoDocument
    Adults = {ann, ben}
    Ninjas = {kid}
    Founder = ann
    TeamHandlers = {r1, r2}
    Questions = {x1, x2}
    MaxQuestions = 1
    Children = {c1}
    Requests = {r1, r2}
    NoRequest = NoRequest
    DayParts = 2
    NoticeLimit = 2
    Senders = {r1, r2}
    MaxCancelled = 2
    NoSender = NoSender
    Texts = {found, unknown}
    Known = {found}
    Pages = {r1, r2}
    Commands = {import}
    MinInterval = 1
    WebWait = 1
    BackOffs = {2, 3}
    LongestBackOff = 3
SYMMETRY Symmetry
INVARIANTS ApplicationsInv TeamsInv QuestionsInv NoticesInv GeocodingInv
PROPERTY ImplementsVetting
CHECK_DEADLOCK FALSE
