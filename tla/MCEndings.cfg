SPECIFICATION MCSpec
CONSTANTS
    Mails = {m1, m2}
    AccountMails = {m1}
    Dispatchers = {d1}
    SenderCount = 1
    Batches = {b1, b2}
    ClaimLimit = 1
    BatchSize = 1
    MaxRetries = 0
    MaxClaims = 2
    MaxFaults = 1
    NoMail = NoMail
    Accounts = {a1}
    Period = 3
    First = 2
    Second = 1
    Notice = 2
    Never = Never
INVARIANTS QueueInv RetentionTypeOK
PROPERTIES EverythingIsSeenTo TheJobErasesByTheRule
CHECK_DEADLOCK FALSE
