SPECIFICATION MCSpec
CONSTANTS
    Mails = {m1, m2}
    AccountMails = {m1}
    Dispatchers = {d1}
    SenderCount = 1
    Batches = {b1, b2}
    ClaimLimit = 2
    BatchSize = 2
    MaxRetries = 1
    MaxClaims = 2
    MaxFaults = 2
    NoMail = NoMail
    Mailings = {b1, b2}
    Readers = {u1}
    TeamRequests = {r1, r2}
    LaunchLimit = 1
    LimitDays = 0
    LastMailDay = 2
    MaxEdits = 1
SYMMETRY Symmetry
INVARIANTS RecordIsTruthful MailingsInv
PROPERTY SentStaysSent
CHECK_DEADLOCK FALSE
