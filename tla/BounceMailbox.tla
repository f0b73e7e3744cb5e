--------------------------- MODULE BounceMailbox ---------------------------
(***************************************************************************)
(* Reading the bounce mailbox over IMAP (mailing.bounce), every five       *)
(* minutes: each message above the highest one in the log of handled       *)
(* messages is fetched, logged and acted on, one transaction per message.  *)
(* Runs may overlap, stop at any message and roll back its transaction;    *)
(* the server may renumber its messages, which starts the log over.        *)
(*                                                                         *)
(* The messages are about one address and its account, or about nothing    *)
(* (`other`: auto-replies, mail that is no report); a number stands for a  *)
(* message and its UID.  What a report looks like (parse) is left out, and *)
(* what a hard bounce does to the mail's row is in MailQueue.  A message   *)
(* that cannot be read at all stops every run: the model's faults pass.    *)
(***************************************************************************)
EXTENDS Integers, FiniteSets, FiniteSetsExt

CONSTANTS
    MaxMessages,     \* bound: messages that arrive
    MaxNumberings,   \* bound: values of the mailbox's UIDVALIDITY
    Batch,           \* MAILING_BOUNCE_BATCH
    SoftLimit,       \* MAILING_SOFT_BOUNCE_LIMIT
    Readings,        \* process_bounces tasks at one time
    MaxReadFailures  \* bound: runs that stop

ASSUME BounceMailboxAssumption ==
    /\ MaxMessages \in Nat /\ MaxNumberings \in Nat \ {0} /\ MaxReadFailures \in Nat
    /\ Batch \in Nat \ {0} /\ SoftLimit \in Nat \ {0}

VARIABLES
    inbox,      \* per message that arrived: what it is
    numbering,  \* the mailbox's UIDVALIDITY
    processed,  \* ProcessedImapMessage rows: numbering and UID
    records,    \* BounceRecord rows per message
    inWindow,   \* those made in the last MAILING_SOFT_BOUNCE_WINDOW_DAYS: the
                \* message, and which record of it
    suppressed, \* whether the address has an EmailSuppression row
    subscribed, \* whether the account wants any optional category
    reading,    \* per task: its run
    failures,
    lifted      \* history: staff removed the block and nothing blocked it since

bounceVars == <<inbox, numbering, processed, records, inWindow, suppressed, subscribed,
                reading, failures, lifted>>

Messages == 1..MaxMessages
Kinds == {"hard", "soft", "complaint", "other"}

IdleReading == [at |-> "idle", key |-> 1, todo |-> {}, soft |-> 0]

BounceTypeOK ==
    /\ DOMAIN inbox \subseteq Messages /\ \A m \in DOMAIN inbox : inbox[m] \in Kinds
    /\ numbering \in 1..MaxNumberings
    /\ processed \subseteq (1..MaxNumberings) \X DOMAIN inbox
    /\ records \in [Messages -> 0..MaxNumberings]
    /\ inWindow \subseteq Messages \X (1..MaxNumberings)
    /\ {suppressed, subscribed, lifted} \subseteq BOOLEAN
    /\ reading \in [Readings ->
          [at : {"idle", "fetch", "fetched", "open", "counted"}, key : 1..MaxNumberings,
           todo : SUBSET Messages, soft : 0..(MaxMessages * MaxNumberings)]]
    /\ failures \in 0..MaxReadFailures

BounceInit ==
    /\ inbox = <<>> /\ numbering = 1 /\ processed = {}
    /\ records = [m \in Messages |-> 0]
    /\ inWindow = {}
    /\ suppressed = FALSE /\ subscribed = TRUE
    /\ reading = [w \in Readings |-> IdleReading]
    /\ failures = 0
    /\ lifted = FALSE

-----------------------------------------------------------------------------
(* The mail server, the account and staff *)

Arrive ==
    /\ Cardinality(DOMAIN inbox) < MaxMessages
    /\ \E kind \in Kinds :
         inbox' = [m \in 1..(Cardinality(DOMAIN inbox) + 1) |->
                      IF m \in DOMAIN inbox THEN inbox[m] ELSE kind]
    /\ UNCHANGED <<numbering, processed, records, inWindow, suppressed, subscribed,
                   reading, failures, lifted>>

\* The server renumbers its messages, in the same order.
Renumber ==
    /\ numbering < MaxNumberings
    /\ numbering' = numbering + 1
    /\ UNCHANGED <<inbox, processed, records, inWindow, suppressed, subscribed,
                   reading, failures, lifted>>

WindowPasses ==
    /\ \A w \in Readings : reading[w].at # "counted"
    /\ inWindow # {} /\ inWindow' = {}
    /\ UNCHANGED <<inbox, numbering, processed, records, suppressed, subscribed,
                   reading, failures, lifted>>

Unblock ==
    /\ suppressed
    /\ suppressed' = FALSE /\ lifted' = TRUE
    /\ UNCHANGED <<inbox, numbering, processed, records, inWindow, subscribed,
                   reading, failures>>

Subscribe ==
    /\ ~subscribed
    /\ subscribed' = TRUE
    /\ UNCHANGED <<inbox, numbering, processed, records, inWindow, suppressed,
                   reading, failures, lifted>>

-----------------------------------------------------------------------------
(* A run *)

HandledUids(key) == {m \in Messages : <<key, m>> \in processed}

\* Mutant: the log does not tell one numbering from another.
UnprocessedInAny(key) == {m \in DOMAIN inbox : \A row \in processed : m > row[2]}

UnprocessedUids(key) == {m \in DOMAIN inbox : \A n \in HandledUids(key) : m > n}

\* Mutant: the newest messages first.
NewestBatch(uids) == {m \in uids : Cardinality({n \in uids : n > m}) < Batch}

FirstBatch(uids) == {m \in uids : Cardinality({n \in uids : n < m}) < Batch}

NextUid(w) == Min(reading[w].todo)

Connect(w) ==
    /\ reading[w].at = "idle"
    /\ UnprocessedUids(numbering) # {}
    /\ reading' = [reading EXCEPT ![w] =
          [IdleReading EXCEPT !.at = "fetch", !.key = numbering,
                              !.todo = FirstBatch(UnprocessedUids(numbering))]]
    /\ UNCHANGED <<inbox, numbering, processed, records, inWindow, suppressed, subscribed,
                   failures, lifted>>

Fetch(w) ==
    /\ reading[w].at = "fetch" /\ reading[w].todo # {}
    /\ reading' = [reading EXCEPT ![w].at = "fetched"]
    /\ UNCHANGED <<inbox, numbering, processed, records, inWindow, suppressed, subscribed,
                   failures, lifted>>

\* Mutant: a message the log has is handled again.
LogMessageAgain(w) ==
    /\ reading[w].at = "fetched"
    /\ reading' = [reading EXCEPT ![w].at = "open"]
    /\ UNCHANGED <<inbox, numbering, processed, records, inWindow, suppressed, subscribed,
                   failures, lifted>>

\* get_or_create in the message's transaction: the row another transaction
\* inserted is waited for, and one that is there means the message was handled.
LogMessage(w) ==
    /\ reading[w].at = "fetched"
    /\ \A v \in Readings \ {w} :
         ~(/\ reading[v].at \in {"open", "counted"}
           /\ reading[v].key = reading[w].key /\ NextUid(v) = NextUid(w))
    /\ reading' = IF <<reading[w].key, NextUid(w)>> \in processed
                  THEN [reading EXCEPT ![w].at = "fetch", ![w].todo = @ \ {NextUid(w)}]
                  ELSE [reading EXCEPT ![w].at = "open"]
    /\ UNCHANGED <<inbox, numbering, processed, records, inWindow, suppressed, subscribed,
                   failures, lifted>>

SoftInWindow == Cardinality({row \in inWindow : inbox[row[1]] = "soft"})

\* Mutant: they are counted before this one is recorded.
CountSoftBefore(w) ==
    /\ reading[w].at = "open"
    /\ reading' = [reading EXCEPT ![w].at = "counted", ![w].soft = SoftInWindow]
    /\ UNCHANGED <<inbox, numbering, processed, records, inWindow, suppressed, subscribed,
                   failures, lifted>>

\* The soft bounces this transaction sees, with the one it just recorded.
CountSoft(w) ==
    /\ reading[w].at = "open"
    /\ reading' = [reading EXCEPT ![w].at = "counted", ![w].soft = SoftInWindow + 1]
    /\ UNCHANGED <<inbox, numbering, processed, records, inWindow, suppressed, subscribed,
                   failures, lifted>>

Blocks(kind, soft) == kind = "hard" \/ (kind = "soft" /\ soft >= SoftLimit)

\* handle() of the message, which is committed.
Act(m, soft) ==
    LET kind == inbox[m]
    IN  /\ records' = IF kind = "other" THEN records ELSE [records EXCEPT ![m] = @ + 1]
        /\ inWindow' = IF kind = "other" THEN inWindow
                        ELSE inWindow \cup {<<m, records[m] + 1>>}
        /\ suppressed' = (suppressed \/ Blocks(kind, soft))
        /\ lifted' = (lifted /\ ~Blocks(kind, soft))
        /\ subscribed' = (subscribed /\ kind # "complaint")

Commit(w) ==
    /\ reading[w].at = "counted"
    /\ processed' = processed \cup {<<reading[w].key, NextUid(w)>>}
    /\ Act(NextUid(w), reading[w].soft)
    /\ reading' = [reading EXCEPT ![w].at = "fetch", ![w].todo = @ \ {NextUid(w)}]
    /\ UNCHANGED <<inbox, numbering, failures>>

Disconnect(w) ==
    /\ reading[w].at = "fetch" /\ reading[w].todo = {}
    /\ reading' = [reading EXCEPT ![w] = IdleReading]
    /\ UNCHANGED <<inbox, numbering, processed, records, inWindow, suppressed, subscribed,
                   failures, lifted>>

\* Mutant: a message whose handling fails stays in the log.
StopReadingLogged(w) ==
    /\ reading[w].at # "idle" /\ failures < MaxReadFailures
    /\ failures' = failures + 1
    /\ processed' = IF reading[w].at \in {"open", "counted"}
                    THEN processed \cup {<<reading[w].key, NextUid(w)>>} ELSE processed
    /\ reading' = [reading EXCEPT ![w] = IdleReading]
    /\ UNCHANGED <<inbox, numbering, records, inWindow, suppressed, subscribed,
                   lifted>>

\* The connection breaks, the worker dies or handle() fails: the open
\* transaction is rolled back, and the run ends.
StopReading(w) ==
    /\ reading[w].at # "idle" /\ failures < MaxReadFailures
    /\ failures' = failures + 1
    /\ reading' = [reading EXCEPT ![w] = IdleReading]
    /\ UNCHANGED <<inbox, numbering, processed, records, inWindow, suppressed, subscribed,
                   lifted>>

ReadingStep(w) ==
    Connect(w) \/ Fetch(w) \/ LogMessage(w) \/ CountSoft(w) \/ Commit(w) \/ Disconnect(w)

BounceNext ==
    \/ Arrive \/ Renumber \/ WindowPasses \/ Unblock \/ Subscribe
    \/ \E w \in Readings : ReadingStep(w) \/ StopReading(w)

BounceSpec == BounceInit /\ [][BounceNext]_bounceVars

-----------------------------------------------------------------------------
(* Properties *)

\* The watermark passes over no message: whichever runs overlap, stop and roll
\* back, what lies below a handled message was handled too.
NothingIsSkipped ==
    \A k \in 1..numbering : \A m \in HandledUids(k) : \A n \in 1..m : n \in HandledUids(k)

\* A report is recorded once each time it is in the log, that is once unless
\* the server renumbered: no run that overlaps or stops counts it twice or
\* leaves it logged without its record.
RecordedAsLogged ==
    \A m \in DOMAIN inbox :
        inbox[m] # "other" => records[m] = Cardinality({k \in 1..numbering : m \in HandledUids(k)})

\* The limit of soft bounces blocks the address, however they are spread over
\* runs: each transaction counts those before it.  Two runs that read the
\* mailbox under two numberings may each miss the other's.
TheSoftLimitBlocks ==
    numbering = 1 /\ SoftInWindow >= SoftLimit /\ ~lifted => suppressed

\* Every message is read, although runs stop and the server renumbers.
EveryReportIsRead ==
    \A m \in Messages : []<>(m \in DOMAIN inbox => <<numbering, m>> \in processed)

\* The log, the records and the block agree with the mailbox.
BounceInv ==
    /\ BounceTypeOK
    /\ NothingIsSkipped
    /\ RecordedAsLogged
    /\ TheSoftLimitBlocks

=============================================================================
