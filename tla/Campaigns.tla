------------------------------ MODULE Campaigns ------------------------------
(***************************************************************************)
(* One campaign's life (campaigns.services and tasks): launched and        *)
(* cancelled from web pages that loaded it before, started and resumed by  *)
(* launch_due every minute, queued a chunk of accounts at a time by        *)
(* launch_campaign tasks that hold a lock in the cache and hand the next   *)
(* chunk on, and completed once its mail is out.                           *)
(*                                                                         *)
(* Accounts are numbered as their ids order them.  A mail's way through    *)
(* the queue (MailQueue) is three steps here: waiting, claimed, out.       *)
(*                                                                         *)
(* Left out: schedules (every launched campaign is due), the checks of a   *)
(* draft other than its status, the audience's changes while it is being   *)
(* queued, test mails, and failed mails that staff send again by hand.     *)
(***************************************************************************)
EXTENDS Integers, FiniteSets, FiniteSetsExt

CONSTANTS
    AudienceSize, \* the accounts the frozen audience resolves to
    ChunkSize,    \* MAILING_CAMPAIGN_CHUNK_SIZE
    Tasks,        \* bound: launch_campaign messages in the broker or running
    Pages,        \* web requests that launch or cancel
    MaxCrashes,   \* bound: deaths of a worker, of this queue or the mail queue
    NoTask

ASSUME ConstantsAssumption ==
    /\ AudienceSize \in Nat \ {0} /\ ChunkSize \in Nat \ {0}
    /\ MaxCrashes \in Nat /\ NoTask \notin Tasks

VARIABLES
    status,     \* Campaign.status
    queuedUpTo, \* Campaign.queued_up_to
    queuedAt,   \* whether Campaign.queued_at is set
    rows,       \* EmailMessage rows of the campaign, per account
    mail,       \* the state of the account's mail
    lock,       \* the cache key, and the task that set it
    task,       \* per slot: a launch_campaign message and its run
    page,       \* what each web request is about to save
    crashes

vars == <<status, queuedUpTo, queuedAt, rows, mail, lock, task, page, crashes>>

Accounts == 1..AudienceSize

Status == {"draft", "queued", "sending", "completed", "cancelled"}
Cancellable == {"draft", "queued", "sending"}

FreeTask == [step |-> "free", cursor |-> 0, todo |-> {}, next |-> 0, finished |-> FALSE]

Message(cursor) ==
    [step |-> "message", cursor |-> cursor, todo |-> {}, next |-> 0, finished |-> FALSE]

TypeOK ==
    /\ status \in Status
    /\ queuedUpTo \in 0..AudienceSize
    /\ queuedAt \in BOOLEAN
    /\ rows \in [Accounts -> 0..1]
    /\ mail \in [Accounts -> {"none", "pending", "claimed", "out", "withdrawn"}]
    /\ lock \in Tasks \cup {NoTask}
    /\ task \in [Tasks ->
          [step : {"free", "message", "locked", "queueing", "withdraw", "release", "handOn"},
           cursor : 0..AudienceSize, todo : SUBSET Accounts, next : 0..AudienceSize,
           finished : BOOLEAN]]
    /\ page \in [Pages -> {"idle", "launch", "cancel"}]
    /\ crashes \in 0..MaxCrashes

Init ==
    /\ status = "draft"
    /\ queuedUpTo = 0
    /\ queuedAt = FALSE
    /\ rows = [u \in Accounts |-> 0]
    /\ mail = [u \in Accounts |-> "none"]
    /\ lock = NoTask
    /\ task = [t \in Tasks |-> FreeTask]
    /\ page = [p \in Pages |-> "idle"]
    /\ crashes = 0

\* _withdraw: the campaign's mail that waits stays in.
WithdrawPending ==
    mail' = [u \in Accounts |-> IF mail[u] = "pending" THEN "withdrawn" ELSE mail[u]]

-----------------------------------------------------------------------------
(* The pages *)

\* launch checks the campaign the page loaded: only a draft can be launched.
LoadToLaunch(p) ==
    /\ page[p] = "idle" /\ status = "draft"
    /\ page' = [page EXCEPT ![p] = "launch"]
    /\ UNCHANGED <<status, queuedUpTo, queuedAt, rows, mail, lock, task, crashes>>

\* It saves the status, without reading it again.
SaveLaunch(p) ==
    /\ page[p] = "launch"
    /\ status' = "queued"
    /\ page' = [page EXCEPT ![p] = "idle"]
    /\ UNCHANGED <<queuedUpTo, queuedAt, rows, mail, lock, task, crashes>>

LoadToCancel(p) ==
    /\ page[p] = "idle" /\ status \in Cancellable
    /\ page' = [page EXCEPT ![p] = "cancel"]
    /\ UNCHANGED <<status, queuedUpTo, queuedAt, rows, mail, lock, task, crashes>>

\* cancel: the status and the withdrawal in one transaction.
SaveCancel(p) ==
    /\ page[p] = "cancel"
    /\ status' = "cancelled"
    /\ WithdrawPending
    /\ page' = [page EXCEPT ![p] = "idle"]
    /\ UNCHANGED <<queuedUpTo, queuedAt, rows, lock, task, crashes>>

-----------------------------------------------------------------------------
(* launch_due *)

\* Mutant: only campaigns that have not started yet are started.
DueOnlyOnce == status = "queued"

\* Launched, or interrupted before every mail was queued.
Due == status = "queued" \/ (status = "sending" /\ ~queuedAt)

StartDue(t) ==
    /\ Due
    /\ task[t] = FreeTask
    /\ task' = [task EXCEPT ![t] = Message(queuedUpTo)]
    /\ UNCHANGED <<status, queuedUpTo, queuedAt, rows, mail, lock, page, crashes>>

\* Mutant: a campaign whose mail is all out is done, queued or not.
AllOutSoFar == \A u \in Accounts : mail[u] \notin {"pending", "claimed"}

\* Everything is queued, and none of it waits or is being sent.
AllOut == queuedAt /\ \A u \in Accounts : mail[u] \notin {"pending", "claimed"}

Complete ==
    /\ status = "sending" /\ AllOut
    /\ status' = "completed"
    /\ UNCHANGED <<queuedUpTo, queuedAt, rows, mail, lock, task, page, crashes>>

-----------------------------------------------------------------------------
(* launch_campaign and queue_chunk *)

\* cache.add: a run that finds the lock taken ends.
TakeLock(t) ==
    /\ task[t].step = "message"
    /\ IF lock = NoTask
       THEN lock' = t /\ task' = [task EXCEPT ![t].step = "locked"]
       ELSE task' = [task EXCEPT ![t] = FreeTask] /\ UNCHANGED lock
    /\ UNCHANGED <<status, queuedUpTo, queuedAt, rows, mail, page, crashes>>

\* Mutant: the audience is read in descending order.
ChunkFromTheEnd(cursor) == {u \in Accounts : cursor < u /\ u > AudienceSize - ChunkSize}

\* The first ChunkSize accounts after the cursor.
Chunk(cursor) == {u \in Accounts : cursor < u /\ u <= cursor + ChunkSize}

\* The campaign becomes `sending`; a run whose cursor is not the campaign's
\* ends, else it has its chunk's accounts that have no mail yet.
StartChunk(t) ==
    LET now == IF status = "queued" THEN "sending" ELSE status
        chunk == Chunk(task[t].cursor)
    IN  /\ task[t].step = "locked"
        /\ status' = now
        /\ task' = [task EXCEPT
                      ![t] = IF now # "sending" \/ queuedAt \/ queuedUpTo # @.cursor
                             THEN [@ EXCEPT !.step = "release", !.finished = TRUE]
                             ELSE [step |-> "queueing", cursor |-> @.cursor,
                                   todo |-> {u \in chunk : rows[u] = 0},
                                   next |-> Max({@.cursor} \cup chunk),
                                   finished |-> Cardinality(chunk) < ChunkSize]]
        /\ UNCHANGED <<queuedUpTo, queuedAt, rows, mail, lock, page, crashes>>

\* Mutant: the mail is queued without its idempotency key.
IsNew(u) == TRUE

\* send: the key campaign:<id>:<account> is unique.
HasNoMail(u) == rows[u] = 0

QueueNext(t) ==
    /\ task[t].step = "queueing" /\ task[t].todo # {}
    /\ LET u == Min(task[t].todo)
       IN  /\ rows' = [rows EXCEPT ![u] = IF HasNoMail(u) THEN @ + 1 ELSE @]
           /\ mail' = [mail EXCEPT ![u] = IF HasNoMail(u) THEN "pending" ELSE @]
           /\ task' = [task EXCEPT ![t].todo = @ \ {u}]
    /\ UNCHANGED <<status, queuedUpTo, queuedAt, lock, page, crashes>>

\* Mutant: a run whose campaign is no longer sending just ends.
AfterACancel == "release"

\* "Cancelled while this chunk was being queued": what it added goes too.
AfterNoUpdate == "withdraw"

\* The cursor moves, if the campaign is still `sending`.
MoveCursor(t) ==
    /\ task[t].step = "queueing" /\ task[t].todo = {}
    /\ IF status = "sending"
       THEN /\ queuedUpTo' = task[t].next
            /\ queuedAt' = (queuedAt \/ task[t].finished)
            /\ task' = [task EXCEPT ![t].step = "release"]
       ELSE /\ task' = [task EXCEPT ![t].step = AfterNoUpdate, ![t].finished = TRUE]
            /\ UNCHANGED <<queuedUpTo, queuedAt>>
    /\ UNCHANGED <<status, rows, mail, lock, page, crashes>>

WithdrawChunk(t) ==
    /\ task[t].step = "withdraw"
    /\ WithdrawPending
    /\ task' = [task EXCEPT ![t].step = "release"]
    /\ UNCHANGED <<status, queuedUpTo, queuedAt, rows, lock, page, crashes>>

\* finally: the key is deleted, whoever holds it by now.
ReleaseLock(t) ==
    /\ task[t].step = "release"
    /\ lock' = NoTask
    /\ task' = [task EXCEPT ![t] = IF @.finished THEN FreeTask ELSE [@ EXCEPT !.step = "handOn"]]
    /\ UNCHANGED <<status, queuedUpTo, queuedAt, rows, mail, page, crashes>>

\* The next chunk is a message of its own; this one is acknowledged.
HandOn(t) ==
    /\ task[t].step = "handOn"
    /\ task' = [task EXCEPT ![t] = Message(@.next)]
    /\ UNCHANGED <<status, queuedUpTo, queuedAt, rows, mail, lock, page, crashes>>

-----------------------------------------------------------------------------
(* What happens to it *)

\* A worker dies: the broker hands its message out again, and the lock stays.
WorkerDies(t) ==
    /\ task[t].step \notin {"free", "message"}
    /\ crashes < MaxCrashes
    /\ crashes' = crashes + 1
    /\ task' = [task EXCEPT ![t] = Message(@.cursor)]
    /\ UNCHANGED <<status, queuedUpTo, queuedAt, rows, mail, lock, page>>

\* LAUNCH_LOCK_SECONDS pass, or the cache drops the key.
LockExpires ==
    /\ lock # NoTask
    /\ lock' = NoTask
    /\ UNCHANGED <<status, queuedUpTo, queuedAt, rows, mail, task, page, crashes>>

\* The mail queue claims the mail, and sends it or gives it up.
MailMoves(u) ==
    /\ mail[u] \in {"pending", "claimed"}
    /\ mail' = [mail EXCEPT ![u] = IF @ = "pending" THEN "claimed" ELSE "out"]
    /\ UNCHANGED <<status, queuedUpTo, queuedAt, rows, lock, task, page, crashes>>

\* The mailing worker dies with the mail: it is requeued.
MailRequeued(u) ==
    /\ mail[u] = "claimed"
    /\ crashes < MaxCrashes
    /\ crashes' = crashes + 1
    /\ mail' = [mail EXCEPT ![u] = "pending"]
    /\ UNCHANGED <<status, queuedUpTo, queuedAt, rows, lock, task, page>>

TaskStep(t) ==
    \/ TakeLock(t) \/ StartChunk(t) \/ QueueNext(t) \/ MoveCursor(t)
    \/ WithdrawChunk(t) \/ ReleaseLock(t) \/ HandOn(t)

Next ==
    \/ \E p \in Pages : LoadToLaunch(p) \/ SaveLaunch(p) \/ LoadToCancel(p) \/ SaveCancel(p)
    \/ \E t \in Tasks : StartDue(t) \/ TaskStep(t) \/ WorkerDies(t)
    \/ Complete
    \/ LockExpires
    \/ \E u \in Accounts : MailMoves(u) \/ MailRequeued(u)

Spec == Init /\ [][Next]_vars

\* Beat keeps running launch_due, the workers keep working and the mail
\* queue keeps sending.  A lock that was left behind expires.
Fairness ==
    /\ WF_vars(\E t \in Tasks : StartDue(t))
    /\ \A t \in Tasks : WF_vars(TaskStep(t))
    /\ WF_vars(Complete)
    /\ WF_vars(LockExpires)
    /\ \A u \in Accounts : WF_vars(MailMoves(u))

FairSpec == Spec /\ Fairness

-----------------------------------------------------------------------------
(* Properties *)

\* The cursor never passes an account without its one mail, and a campaign
\* that counts as queued has a mail for everyone, through crashes, resumed
\* and overlapping runs (services.py:24).
NobodyIsSkipped ==
    /\ \A u \in Accounts : u <= queuedUpTo => rows[u] = 1
    /\ queuedAt => \A u \in Accounts : rows[u] = 1

\* A completed campaign has a mail for everyone, and none of it is still
\* waiting or being sent (services.py:338).
CompletedMeansAllOut ==
    status = "completed" =>
        \A u \in Accounts : rows[u] = 1 /\ mail[u] \notin {"pending", "claimed"}

NobodyQueues == \A t \in Tasks : task[t].step \in {"free", "message"}

\* As long as no worker dies: once a campaign is cancelled and no run is
\* queueing for it any more, none of its mail waits to go out
\* (services.py:229, 298).
CancelledMeansWithdrawn ==
    status = "cancelled" /\ crashes = 0 /\ NobodyQueues
        => \A u \in Accounts : mail[u] # "pending"

\* Everyone has their mail before the campaign counts as out, and a cancelled
\* one sends no more.
CampaignInv == TypeOK /\ NobodyIsSkipped /\ CompletedMeansAllOut /\ CancelledMeansWithdrawn

\* A launched campaign ends, also when a worker dies between two chunks or
\* leaves its lock behind (services.py:14, 332).
EveryLaunchEnds == []<>(status \notin {"queued", "sending"})

-----------------------------------------------------------------------------
(* What the repository says, and the runs refute *)

\* A run withdraws a campaign's mail when it was "Cancelled while this chunk
\* was being queued" (services.py:299): never of one that was not cancelled.
WithdrawnOnlyWhenCancelled ==
    [][(\E u \in Accounts : mail[u] = "pending" /\ mail'[u] = "withdrawn")
          => status' = "cancelled"]_vars
=============================================================================
